# A formal model of miransas-db

`miransas-db` is a control panel for one PostgreSQL server: an axum HTTP API
(`backend/src`) whose handlers create and delete *projects* - a schema and a
login role each -, reveal and reset their passwords, run the operator's SQL,
edit tables and users inside a project, and keep secrets. There is one
operator, and every request is a tokio task that awaits one SQL statement
after the other on a shared sqlx pool. All the state is in PostgreSQL; what is
hard is what happens *between* two awaits.

The TLA+ modules here are translated from the Rust source. TLC checks them on
small instances; TLAPS proves all their safety properties - 24 invariants, eight
action properties and five refinements - for every instance.

## 1. Inventory

| part | state | operations | what is hard |
|---|---|---|---|
| project provisioning (`services/projects.rs`, `handlers/projects.rs`) | `projects` rows, schemas, roles, the ACL of the database, `audit_logs` | create, delete, reset-password, connection info | handlers read a row, then work with the copy; a transaction of up to eight statements, any of which may fail or be cancelled; role and row must agree |
| project query (`execute_project_query`) | `query_history`, anything the operator's SQL reaches | run SQL, record it | runs on the panel's own connections; drops the errors of COMMIT and of the history INSERT |
| pool and sessions (`db.rs`) | connections, their `search_path`, their transaction | acquire, release, reconnect | session state survives the request that made it; connections run out |
| project listing, update, table data, delete row | `projects`, tables of a project | list, update, page through, delete a row | change and audit are two commits; count, page and columns are three reads |
| secrets (`services/secrets.rs`) | `secrets`, `audit_logs` | create, list, reveal, delete | change and audit are two commits; the key that decrypts |
| users of a project (`services/users.rs`) | `project_user_config`, the project's user table | configure, list, get, delete, ban, unban, reset password, export | the configuration is read first and used two awaits later; count, then read |
| schema editor (`services/schema.rs`) | tables, columns, constraints, indexes | twelve DDL operations, read a structure | DDL commits before its audit row; a structure is read in four statements |
| saved queries, query history (`saved_queries.rs`, `query_log.rs`) | `saved_queries`, `query_history` | create, update, delete, list | check, then act; partial updates; page arithmetic in an i64; rows cascade away with their project |
| audit log, admin summary (`audit.rs`) | `audit_logs` | list, count | read-only; the same page arithmetic |
| identifiers and validation (`services/shared.rs`) | - | slugs, schema names, types, identifiers | names near 63 bytes; probing for a free name |
| authentication (`handlers/auth.rs`, `middleware/auth.rs`, `utils/jwt.rs`) | none (signed tokens) | log in, verify | life time of a token, over restarts; comparing passwords of different lengths |
| cryptography (`utils/crypto.rs`) | none | encrypt, decrypt, generate a password | a changed key |
| router, errors, configuration, migrations | the initial database | start-up | what old rows look like after the migrations |

Interactions: every service takes connections from the one pool; provisioning
deletes the rows the other services reference (`ON DELETE CASCADE` for history,
saved queries and the user configuration, `SET NULL` for secrets); `require_auth`
stands before all of `/api`; a restart changes the keys under everything stored; all of them
write `audit_logs`, provisioning inside its transactions and the others after
their change has committed; the project query may change anything, and its
session goes back to the others.

What makes each part correct:

- provisioning: the stored password is the role's password; a role exists for
  a project or is explained; a change is audited exactly if it took effect; an
  answer of success means COMMIT; a reset stays in force; no deadlock.
- pool: what it hands out is outside of any transaction and on the panel's
  `search_path`; no request waits for a connection while it holds one.
- secrets: no plain text leaves unaudited; a lost audit row only after a 500; a
  stored secret outlives its project and a changed key, and a deletion is final.
- authentication: only the password, byte for byte, yields a token; a token opens
  the panel as long as announced, and no longer than the leeway after that.
- records of the panel: an update changes the fields it names and no other; a
  page is the page of what is there; rows never outlive their project.
- users, saved queries: the effect matches a configuration and a project that
  existed at *some* moment of the request; what was answered holds until a later
  request changes it.
- schema editor: a structure that is shown did exist unless it changed meanwhile;
  what was answered stays until somebody undoes it.
- identifiers: the slug is that of the name; what is refused is refused for its
  length; no two projects share a schema; the search for a free name ends.

`PROJECT.json` lists the hazards, each at its line, with the properties that
would notice it going wrong.

## 2. Modules

    ProjectStore            abstract: one audited step per operation
         ^  implemented by
    Provisioning            handlers x statements x locks x failures
         ^ EXTENDS
    ProvisioningInvariant   the inductive invariant
         ^                ^
    MCProvisioning     ProvisioningProofs   <--EXTENDS--  HistoryProofs
    (TLC)              (TLAPS)                            (TLAPS)

    Sessions                the pool, search_path, who holds what

    AuditTrail              abstract: act, then record, then answer
         ^  implemented by
         +--- ProjectUsers
         +--- SchemaEditor          (with the table exploration)
         +--- Secrets
         |       ^ EXTENDS
         |    GuardedSecrets  --EXTENDS-->  Authentication
         +--- ProjectRecords  --EXTENDS-->  Paging

    SchemaNames             slugs, suffixes, the migration's names

Each of these is run with a `.cfg`, all but `Sessions` through an MC module
(`MC...`), and has a module of proofs (`...Proofs`; that of `Secrets` and
`Authentication` is `GuardedSecretsProofs`).

### Provisioning

*State.* `db` is the committed database, a function over cells: the row of a
project, a schema, a role (its password), the database's ACL (who was given
CONNECT), the audit row of a request. `tx[r]` is what request `r` has written
and not committed; the cells in its domain are locked. `pc`, `op`, `proj`,
`snap`, `at` are the local state of the handler: where it awaits, what was
asked, the row it has read, the next statement. `history` is what
`query_history` says of the request, `answer` its HTTP answer; `fate` is a ghost
that remembers what became of the transaction.

*Actions.* `ReceiveCreate` and `Receive` are the router; `Probe` is one turn of
the loop in `generate_schema_name`; `ReadProject` is `get_project` or the first
SELECT of `delete_project`, with its 404 and 400; `Execute` is one statement of
`CreateScript`, `DeleteScript`, `ResetScript` or `QueryScript`, in the order in
which `services/projects.rs` awaits them; `Rejected` is a statement PostgreSQL
refuses (`Accepted` says when), `Aborted` one that fails for a reason outside
(connection lost, time-out); `Commit`, `CommitRefused` and
`CommitUnacknowledged` are the three outcomes of `tx.commit()`; `AuditReveal` is
the audit of `get_connection_info`, committed on its own; `RecordHistory` the
INSERT after a query; `Cancel` a client that leaves, which drops the handler's
future.

*PostgreSQL as used here* (external to the code, in `Visible`, `Blocked`,
`Accepted`, `Writes`, `Apply`): READ COMMITTED; the writer of a cell keeps others
out until it ends; DDL and role changes are transactional; CREATE of what
exists, DROP SCHEMA and GRANT on what does not exist, ALTER of a missing role and
a duplicate `schema_name` are errors; DROP ROLE is refused while privileges
refer to the role - those inside the schema have gone with DROP SCHEMA CASCADE,
the explicit CONNECT on the database has not. A deadlock would be a cycle in
`WaitsFor`; PostgreSQL's detector is not modelled since no cycle exists.

*Abstractions.* The role `<schema>_user` is named by its schema. The password
generated by a request is named by the request, and so is its cipher text.
GRANTs on tables, sequences and default privileges are one statement (they
change nothing the properties see). What name the loop proposes next is the
constant function of the instance; `SchemaNames` has the names themselves. A query is SET LOCAL and one statement:
CREATE SCHEMA or DROP SCHEMA of the project's schema, or REVOKE CONNECT from its
role - the three things an operator can do that change what provisioning relies
on. A cancelled transaction is rolled back at once; `Sessions` models the delay
until the connection is back in the pool. Rows of created projects are not
asked for again by other requests: a create never commits (proved), so there
are none.

*Initial states.* What the migrations leave: no row; a row that was given a
`schema_name` but whose schema never existed; a row with its schema and no role;
a row, schema and role with CONNECT, the result of an earlier reset-password.

### ProjectStore

The promise: the password stored for a project and the password of its role
change together, in one step that is recorded. It also says what is *not*
promised, because the code does not deliver it: removing a project may leave its
role, and such an orphan may still be given passwords by a request that had read
the row before. `Provisioning!Store` maps the committed state to it; statements,
locks, rollbacks and lost answers disappear.

### Sessions

*State.* Each connection is idle, held or on its way back, and has a session:
the `search_path` in force, what COMMIT and what ROLLBACK would make of it, and
whether a transaction is open. Each request has a plan - the statements of its
handler with the points where it acquires and releases a connection - and a
position in it. `astray` remembers requests one of whose unqualified statements
ran on another path than the panel's.

*Actions.* `Acquire`, `Release` and `Execute` follow the plan; `StatementFails`
knows which errors the project query ignores; `AcquireTimesOut` is sqlx's
`PoolTimedOut`; `Cancel` drops the future wherever it awaits; `Return` is the
rollback sqlx sends when a connection with an open transaction is dropped, before
anybody else gets it; `Reconnect` replaces an idle connection, and
`after_connect` sets its path. The operator may type a plain statement, a failing
one, `SET search_path`, or `COMMIT` (which ends the panel's own transaction early).

### AuditTrail

The promise of the handlers that commit a change and insert its audit row with a
second statement: no row without the change, one row per request at most, the row
before the answer. What is *not* promised is as important: a change may stay
without a row, and the rows need not be in the order of the changes.

### ProjectUsers

*State.* The stored configuration, the rows of the project's own users table (of
each, its boolean and text columns), the audit rows; per request the statement it
awaits, the configuration it has read, the number of rows it has counted.

*Actions.* `CheckProject` and `Upsert` are `put_config`; `ReadConfig` is
`get_config` with the checks its caller makes of the result (`Unsuitable`);
`ReadSchema` is `get_schema_name`; `Change` is the DELETE or UPDATE of delete, ban,
unban and reset-password with its `rows_affected()`; `CountRows`, `ReadRows` and
`ReadColumns` are listing and export; `Audit` is `insert_audit_log`. `AddUser` is
the project's own application, `DeleteProject` the commit of `delete_project`.
`Abandon` is a failure or a client that leaves: a statement that writes may already
be on its way then, so the request keeps its place and either takes that one step
later or never (`NeverRuns`).

*Abstractions.* A password is the request that set it. A configuration says whether
its table exists and names a boolean column, a text column, none, or one that does
not exist. PostgreSQL assigns a boolean to a text column, but not a text to a boolean
one (`Fits`). Searching, page numbers, the configured id column (whose error is that
of a missing table) and the format of an export are left out. Rows are read without
an order, as the code does, so any page of the right size may come.

### SchemaEditor

*State.* The catalog of one project, `Sound` as PostgreSQL keeps it (what is attached
is attached to what exists, a foreign key to a key of its own type): tables, columns with a type, primary keys,
checks and foreign keys, indexes; and rows, each with an id nobody uses again. A
command is the validated input of a request.

*Actions.* One operator per operation (`CreateTable`, `DropTable`, ...,
`DropIndex`) yields the catalogs its statement may lead to, none if PostgreSQL
refuses it; `Execute` runs it, `Audit` follows. `ReadSchema` is the look-up after
which types, foreign-key actions and index methods are validated (404 before 400);
`Receive` may refuse an identifier at once. `LookUpTable`, `ReadTableColumns`,
`ReadConstraints` and `ReadIndexes` are the four statements of
`get_table_structure`. The table exploration of `services/projects.rs` works on
the same tables: `ListTables`, the three statements of `get_project_table_data`
(`CountRows`, `ReadPage` - any rows of the right number, the SELECT has no ORDER
BY - and `ReadHeader`), and `delete_project_row` with its `rows_affected()`.
`InsertRow` is the project's own application. `Abandon`, `NeverRuns` and `DeleteProject` are as above.

*PostgreSQL as used here.* A plain DROP of a table or column is refused while a
foreign key elsewhere refers to it, and CASCADE takes that key away; a foreign key
needs a key and the same type at the other end (really: comparable types), which
keeps either end from being altered; renames are followed by whatever refers to the
name; names of constraints are unique in a table, names of indexes in the schema.

*Abstractions.* Tables are created with one column and get more by `add_column`;
defaults, NOT NULL, UNIQUE, the text of a check and rows that forbid a change (a
failure like any other, `Abandon`) are left out.

### Authentication

*State.* A clock, the configuration of the running server (or `Down`), and the
tokens that have been handed out: nothing is stored, whoever has a token keeps it.

*Actions.* `Login` compares the typed password with the server's by the loop of
`constant_time_eq` - differences of all bytes and of the lengths, bit by bit and
collected in one set of bits - and signs claims; `Verifies` is `verify_token` with the leeway
of the JWT library; `Stop` and `Start` are the end of the process, planned or not,
and a start with what the environment says then, if `Starts` lets it: password and
secrets of sufficient length (`config.rs`), and a pool that can give `connect` its
first connection.

*Abstractions.* A token is its claims and the secret that signed it. 24 hours are
`Lifetime` units and the leeway of 60 seconds is one more.

### Secrets and GuardedSecrets

*State* of `Secrets`: the key of the running server, the rows with the key that
encrypted each, the audit rows; per request the statement it awaits, the row it has
encrypted or read, the plain text it was answered.

*Actions.* `Ask` is the four handlers up to their first await (`create_secret`
encrypts there), `Refuse` is `require_auth` in front of them; `Insert`, `Select`
(the value is decrypted at once, before its audit), `Delete` with its
`rows_affected()`, `List` and `Audit` are the statements. `StopAll` ends every
handler at once, as a crash does; `StartWith` may bring another key;
`DeleteProject` leaves a secret without its project (ON DELETE SET NULL). `Abandon`
and `NeverRuns` are as in `ProjectUsers`.

`GuardedSecrets` extends both: a request arrives with a token or none and is
asked or refused; one server stops and starts both halves, with one environment.
Every disjunct of `GuardedNext` has an action of `Secrets` as a conjunct, or leaves
the variables of `Secrets` unchanged, and satisfies a condition of `Authentication`
besides.

*Abstractions.* The secret of request r has the id and the value r; AES-GCM decrypts
under the key that encrypted and fails under any other. Names and notes are left out.

### Paging and ProjectRecords

`Paging` is the arithmetic of the listings: parameters that are left out or out of
range, and `(page - 1) * limit` in an integer of -`Half` to `Half` - 1 (2^63 in the code). A debug build panics
where it overflows (`Panic` in `ProjectRecords`), a release build goes on with
`Wrapped`; the model has both.

`ProjectRecords` has the panel's own tables: the rows of projects and of saved
queries, the query history and the audit log. Its actions are the statements of
`saved_queries.rs` (create and delete look for a row first, delete ignores the
number of rows it deleted), `update_project` and `saved_queries::update` (one UPDATE
with a CASE per field: absent keeps, an empty string makes NULL), the readings, and
the two paged listings, of which the history is counted and read in two statements.
`RecordQuery` is the last statement of a project query; `DeleteProject` takes saved
queries and history along.

*Abstractions.* All columns that are NOT NULL are one, and so are all those an empty
string clears. The actor and the details of an audit row are left out; the resource
by which the log is filtered is kept.

### SchemaNames

*State.* The projects with their schemas; one request at a time, with the variables
of the two loops of `generate_schema_name`.

*Actions.* `Migrate` gives the projects of before their schema, by the SQL of the
migration (no trimming, no cut), and fails with the UNIQUE constraint. `Receive`,
`Scan` (one character), `Trim`, `Probe` (one SELECT, and `ensure_safe_ident` of the
schema and of the role when the loop is over) and `Insert` are `create_project`;
`DeleteProject` may come at any moment.

*Abstractions.* Two creates at once are `Provisioning`'s; here a request is alone, and
the transaction that provisions it is one step, which succeeds unless a UNIQUE
constraint says no - so that there are names to avoid, although no create of the
actual program commits (finding 1). Characters beyond ASCII stand for one another.
`SlugExact` compares the loops with `Slug`, a definition by the positions of letters;
the migration's regular expression is given by positions too (`Kept`), the loop of the
program by its steps. `Decimal` writes numbers below a billion, more than there are
projects.

## 3. Runs

| run | instance | shows |
|---|---|---|
| provisioning_safety | 3 requests of any of 7 kinds, 1 project, 2 schema names, faults | 6 invariants and an action property; 580 339 states |
| provisioning_store | 5 requests (delete, reset, CREATE SCHEMA, REVOKE), 1 project, no faults | `RolesExplained`; refinement of `ProjectStore`; 516 277 states |
| provisioning_live | 2 requests of any kind, 2 projects, faults | every request that arrives ends |
| create_answers | 2 creates, no faults | violated: no create answers 201 |
| delete_answers | 1 delete, no faults | violated: a provisioned project cannot be deleted |
| query_answers | 1 query, faults | violated: success answered and recorded for a lost COMMIT |
| sessions_safety | 2 requests of 5 kinds, 2 connections, 4 kinds of SQL, faults | the pool's invariants, and every request ends; 520 116 states |
| users_readings | 2 requests of all 9 kinds, 2 users, 6 configurations, faults | all properties of `ProjectUsers`; refinement of `AuditTrail`; 1.0 million states |
| schema_commands | 2 requests of 26 commands, all 16 operations, 2 catalogs, 3 row ids, faults | all properties of `SchemaEditor`; refinement of `AuditTrail`; 713 668 states |
| guarded_secrets | 2 requests of 4 kinds, 1 old secret, 1 project, 3 environments that start and 4 that do not, 1 login, clock 0..4 | all properties of `Authentication`, `Secrets` and their composition; refinement of `AuditTrail`; 1.63 million states |
| project_records | 2 requests of 7 kinds, 2 projects, 1 saved query, 4 patches, 4 pages, integers -8..7, faults | all properties of `ProjectRecords`; refinement of `AuditTrail`; 2.36 million states |
| schema_names | 2 creates of 88 names, 4 sets of projects of before, identifiers of 8 characters | slug, refusals, uniqueness; the loop ends; 709 895 states |

*Why the bounds are enough.* The hazards of provisioning need at most three
actors: one to delete, one to reset, and one operator's statement in between (a
schema created again, CONNECT revoked); two resets and an observer. What roles are left
behind by takes five - two deletes of one project with its schema created again in
between, a reset whose copy of the row is older than all of them, and a REVOKE -, so
`provisioning_store` has five and no failures beside them. One project is
enough where requests for different projects do not share a cell other than the
ACL; `provisioning_live` has two, and the theorems any number. Two names
make the probing loop take its second turn. In `Sessions` a stray `search_path`
needs one request to leave it and one to meet it; two connections let it be met
on either, and a request needs at most one connection at a time. In `ProjectUsers`,
`SchemaEditor`, `Secrets` and `ProjectRecords` a hazard takes two requests - one that
changes what the other has read, or whose statement runs after its client has left
and the other was answered. An export is cut off by one user added between its count
and its read, and `MaxRows = 1` makes that happen. The schema run starts from an
empty project and from one with a table whose key another may refer to, with an
index and two rows, so that every operation finds what it works on; the project's own
inserts are a third actor.

In `guarded_secrets` a token is fresh, of the announced age, within the leeway and
beyond it (`Lifetime = 2`, `Leeway = 1`, a clock to 4), and `MaxLogins = 1` since
tokens do not influence each other; one environment has another password, one has
other secrets, and of those that do not start each fails another check. The passwords
that are typed include one that is the right one with a zero byte behind it and one
that is cut. In `project_records` an integer is one of -8..7 (`Half = 8`); with at most 3 rows a page
(`MaxLimit = 3`, `DefaultLimit = 2`) there are pages out of range, left out, past the end
and, at offsets 12 and 18, pages whose offset wraps to a negative number and to
another page; `MaxHistory = 3` leaves room for one recorded query beside the
two at first. In `schema_names` an identifier has 8 characters, room for the prefix, a
slug of three, a suffix and a role of one letter: every length at which schema,
suffix or role stops fitting occurs, as it does at 63; a slug is cut at 4, in a word,
behind one and at an underscore; names are all those of up to three characters over a
lower- and an upper-case letter, a digit and a separator, and five longer ones.
Symmetry of the requests (in `users_readings` of the users too) is used where only
safety is checked.

*Properties made of parts.* Where several conditions speak of the same thing, the
module names each, with its own comment, and the run checks their conjunction:
`AnswersAccounted`, `RolesExplained` and `DeletesExplained` of `Provisioning`,
`SessionsStayApart`, `AnswersHold` of `ProjectUsers`, `DdlHolds` and
`ReadingsExplained` of `SchemaEditor`, `AnswersExplained` of `Secrets` and of
`ProjectRecords`, `RefusalsExplained` of `SchemaNames`. Where a condition on states is
joined with one on steps, it is primed, so that the whole is one action property.

*Slips.* Definitions marked `slip:` in the modules are what a plausible mistake would
make of the definition below them (a forgotten WHERE, a CASCADE nobody asked for, an
answer that does not wait for its audit row). `PROJECT.json` pairs each property with
one: with the slip in its place, TLC finds the property violated, so none of them
holds by the shape of the model.

*Deadlock* is checked in every run; `Rest` lets the server rest once all requests
are served (`SchemaNames`: or where the migration has failed and no server runs).

*Fairness.* Weak fairness of `Proceed(r)`: tokio polls every ready task and
PostgreSQL answers a statement that waits for no lock. In `Sessions` also of
`Return(c)`: sqlx spawns the task that gives a connection back. In `SchemaNames`
of `Step`, the one handler at work; a project may be deleted at any turn of the loop. Nothing is assumed
of failures, cancellations, time-outs or reconnections: liveness does not lean on
them.

### What the runs found

1. **No create succeeds** (`projects.rs:248`). `create_role_with_grants` grants
   on the schema, which is created only afterwards, so PostgreSQL refuses the grant
   (`create_answers`). Where a schema of that name exists, the grant passes and CREATE
   SCHEMA fails: that case needs a schema without a project and is in
   `provisioning_safety`, not in `create_answers`. Never committing is proved
   (`CreateNever`).
2. **A provisioned project cannot be deleted** (`projects.rs:367`). The role still
   holds CONNECT on the database, so DROP ROLE fails and the transaction with it.
   The only delete that removes such a project read the row before it had a role -
   and leaves the role behind (`ConnectPinsProject` in `DeletesExplained`,
   `OrphanRoleExplained` in `RolesExplained`).
3. **A query answers success for a lost COMMIT** (`projects.rs:593`).
Other facts are in the properties as exceptions rather than violations: a
reset-password of a project that is deleted meanwhile answers 200 (its UPDATE
changes no row and nobody looks); an operator's own `SET search_path` stays on
a connection of the panel (`StrayExplained` names that as the only cause); a second
delete of a saved query may answer 204 and be audited (`EmptyDeleteExplained`); a very
distant page is a panic, a 500 or another page (`ErrorExplained`, `PageExplained`);
a name whose slug is 54 to 58 characters long is refused although it was cut to fit
(`RefusalExplained`); the 404 of a create becomes a 500 if the project is deleted
between the two statements (`ErrorExplained`); a token lives for the leeway longer than
the login announces (`TokenLife`); a changed SECRET_KEY makes every reveal a 500 until
the key is back (`RevealExplained`); a structure or a page that is read in several
statements while the table changes may mix what was with what is (`ReadingsExplained`
claims the exact one only where nothing changed in between); an export silently misses rows that
were added between its count and its read (`CutOffExplained`); and where the names of the
migration collide the server does not start (`pc = "failed"` in `SchemaNames`, an end
that is allowed: `TypeOK` says that the names of a migration that succeeds differ).

Two were seen in the code and are not in the models, which leave text out: the
message "Use plaintext or argon2" (`users.rs:402`) recommends an algorithm that is
refused like any other hash (`users.rs:405-407`); and updates check a trimmed name but
store it untrimmed (`projects.rs`, `saved_queries.rs`).

## 4. Theorems

Each theorem is about every instance: any sets of requests, projects, schemas, users,
keys, rows, commands, connections, finite or not where the code does not bound them,
that satisfy the assumptions named below.

| module | theorem | statement |
|---|---|---|
| `ProvisioningProofs` | `TypeCorrect` | `Spec => []TypeOK` |
| | `CreateNever` | `Spec => []CreateNeverCommits` |
| | `PasswordsAgree` | `Spec => []CredentialsInSync` |
| `HistoryProofs` | `NoDeadlock` | `Spec => []NoWaitCycle` |
| | `AnswersAgree` | `Spec => []AnswersAccounted` |
| | `RolesHaveHistories` | `Spec => []RolesExplained` |
| | `ResetsHold` | `Spec => []ResetHolds` |
| | `DeletesHaveReasons` | `Spec => DeletesExplained` |
| | `StoreImplemented` | `Spec => ImplementsStore` |
| `SessionsProofs` | `SessionsTyped` | `Spec => []TypeOK` |
| | `SessionsApart` | `Spec => []SessionsStayApart` |
| `ProjectUsersProofs` | `UsersTyped` | `Spec => []TypeOK` |
| | `UsersAudited` | `Spec => ImplementsAuditTrail` |
| | `UsersAnswersHold` | `Spec => []AnswersHold` |
| | `UserDeletedOnce` | `Spec => []DeletedOnce` |
| | `UserErrors` | `Spec => []ErrorExplained` |
| | `ExportCutOff` | `Spec => CutOffExplained` |
| `SchemaEditorProofs` | `SchemaTyped` | `Spec => []TypeOK` |
| | `SchemaAudited` | `Spec => ImplementsAuditTrail` |
| | `DdlLasts` | `Spec => []DdlHolds` |
| | `RowsDeletedOnce` | `Spec => []RowDeletedOnce` |
| | `ReadingsHold` | `Spec => ReadingsExplained` |
| `GuardedSecretsProofs` | `SecretsTyped` | `Spec => []TypeOK` |
| | `SecretsAudited` | `Spec => ImplementsAuditTrail` |
| | `SecretsHold` | `Spec => []SecretHolds` |
| | `DeletesFinal` | `Spec => []DeleteIsFinal` |
| | `SecretAnswers` | `Spec => AnswersExplained` |
| | `ConstantTimeEqExact` | `ConstantTimeEq(left, right) <=> left = right` for all strings of bytes |
| | `GuardedImplements` | `GuardedSpec => Spec` |
| | `GuardedHolds` | the five properties of `Secrets`, behind `require_auth` |
| | `PlaintextsTraceable` | `GuardedSpec => []PlaintextTraceable` |
| | `TokensLive` | `GuardedSpec => TokenLife` |
| `ProjectRecordsProofs` | `RecordsTyped` | `Spec => []TypeOK` |
| | `RecordsAudited` | `Spec => ImplementsAuditTrail` |
| | `UpdatesHold` | `Spec => []UpdateHolds` |
| | `PagesShown` | `Spec => PageExplained` |
| | `RecordsAnswers` | `Spec => AnswersExplained` |
| `SchemaNamesProofs` | `NamesTyped` | `Spec => []TypeOK` |
| | `SlugAlwaysExact` | `Spec => []SlugExact` |
| | `RefusalsAlwaysExplained` | `Spec => RefusalsExplained` |

### Provisioning: the invariant

The assumptions: start-up rows name different schemas (the UNIQUE constraint of the
migration), the next candidate of a schema name is a schema name, ids of new rows
are new (UUIDs), and the three sentinels differ from the values they stand beside.

`CredentialsInSync` speaks of the committed state;
whether a COMMIT preserves it depends on what the transaction has written so far.
`Inductive` (in `ProvisioningInvariant`, checked with TLC on the instance of
`provisioning_safety` before it was proved) therefore adds

- `Located`: what a handler knows at each await;
- `LocksExclusive`: no cell is written by two open transactions;
- `CreateStuck`: a create past its grants has found an existing schema, so its
  CREATE SCHEMA is refused;
- `RowsAtHome`, `SnapsAtHome`: a row, or a copy of it, names its own schema and no
  role but that schema's - therefore two projects never share a role;
- `TransactionsOnTrack` (`ResetTx`, `DeleteTx`, `QueryTx`): which cells an open
  transaction has written, with which values, after which statement. For a reset:
  once the role is altered the row is still to come, and after the UPDATE either
  the row carries the same password or there is no row any more.

The proof has one lemma per conjunct. `HowItMoves` and `OthersOnTrack` say that a
step moves one request and leaves the conjuncts of the others alone, since the
cells the others have written are locked; `ExecuteReset`, `ExecuteDelete` and
`ExecuteQuery` go through the statements; `CommitChanges` says what each COMMIT
makes of the database, and `StepSync` concludes.

### Provisioning: waiting, histories, the store

`HistoryProofs` adds two conjuncts (`Held`): `LocksPlaced` - every cell a transaction
has locked is one that a statement it has run touches - and `StatementsKept` - what
such a statement found and wrote is still so, its lock being held.

*Waiting.* `Rank` numbers how far a handler has come with its locks, from the role it
has not got yet to the statement that never waits. `WaitingRises`: whoever is waited
for has the higher rank. The difficult case is two handlers at one role: a DROP ROLE
could meet another DROP ROLE, but before it both have locked their schema, which is
the same one since a role belongs to one schema. Six ranks cannot rise along a
cycle, however long it is.

*Histories.* A COMMIT has one of a handful of effects (`ResetEffect`, `DeleteEffect`,
`QueryEffect`; a create has none), every other step is `Quiet`: the database keeps all
but an audit row. `Told` and `Since` relate the local state of a handler to what has
been committed since it read its row: if the row has gone, someone has deleted it; if it
has got a role, a reset has given it. From these follow, one after the other,
`AnswersAccounted`, the two halves of `RolesExplained`, `ResetHolds` and
`DeletesExplained`.

*The store.* Each `CommitsOne` is mapped to the operation of `ProjectStore` it
implements, each `Quiet` step to a stutter, by the same effects.

Two promises were too strong, and the proofs stopped at them: a role may be left behind
by *two* deletes of one project with its schema created again in between (five requests;
`OrphanRoleExplained` now names that way, and `provisioning_store` has five requests), and
a role without a project may still be given a password in the store whether or not it had
one (`ChangeOrphan`).

### Sessions

`Kept`: a handler is at a point of its plan and holds a connection there exactly if the
plan says so (`InPlan`), nobody else holds that one (`OneHolder`), neither COMMIT nor
ROLLBACK nor anything already in force would make the path of an idle session the
project's (`SessionsClean`), and unless an operator's SET was committed every session is on
the panel's path where it matters (`PathsExplained`). The proof goes through the five plans
position by position (the section "The plans").

### The four refinements of AuditTrail

`Trailed` (in `GuardedSecretsProofs` `Base`) places
each request: who awaits a statement before the act has not acted, who awaits the
audit row has acted and has no row, and only what is not audited may be answered from
elsewhere. Each handler step is then an `Act`, a `Record` or leaves the trail alone.
In `ProjectRecords` a DELETE that finds nothing is an act too, since it is audited. From
the constants they need that the requested operations are those of the code, and that
`None` and `Absent` are none of the values they stand beside.

### ProjectUsers

What was answered holds because it held from the moment the statement ran, told or not:
`Known` states `ChangeStays`, `PutStays` and `DeleteStays` from the act on, and what each
request knows at which await (`Informed`) - the configuration it has read, the rows it
has counted. `MayFollow` only grows (`MayFollowStays`), so an exception once given stays
given. `UsersAssumption` (the ids of a table are finitely many) is needed for counting.

### SchemaEditor

`Coherent` joins `Sound(catalog)` with, for each request, what it has seen (`Shown`),
deleted (`Gone`, `Once`, `Unseen`) and made (`KeyKept`, `TableKept`). `Sound` is the
heart: each of the twelve operations preserves it, which takes the restrictions of
PostgreSQL (a key that is referred to is not dropped, the type of either end not
altered) and the way renames and CASCADE follow references. The only assumption about
the catalogs at the start is that they are `Sound`.

### Secrets and GuardedSecrets

`SecretHolds` and `DeleteIsFinal` are not inductive: whether a row is there depends on
which creates and deletes have run, and what a reveal shows on when it arrived. On top
of `Base` come three layers. `Stored`: a create that has run has its row, as it was
encrypted or without its project, or a delete of it has run. `Gone`: the id of a delete
that has run has no row, and no other delete of it has run. `Later`: a reveal that
arrived after such a delete was answered has not been and will not be shown anything.
`StepStable` says what no step changes of a request that has acted, `StepEffect` lists
the effects a step may have on the rows (one is stored, one is deleted, some lose their
project, none), and `StepBefore` that `before` is fixed on arrival; each layer follows
from these. `Sure` adds that a value stays with its id from the INSERT to the answer, and
that between the SELECT of a reveal and its audit row the server still has the key.

Every step of `GuardedSecrets` is a step of `Secrets` or leaves its variables alone
(`GuardedStep`), so all of this holds behind `require_auth`. `Guarded` adds what is known
of the tokens (`TokensSound`) and of whoever was let through (`Admitted`). That the typed
password is the right one is `ConstantTimeEqExact`: numbers with the same `Bits` are equal,
by strong induction, so an empty set of differences means equal lengths and equal bytes.
This needs of the constants that passwords are strings of bytes.

### ProjectRecords

`Coherent` has the referential integrity of the four tables (`Related`: the cascade of a
deleted project takes rows and history along), what each request knows (`Informed`,
`CountStays`: the history of a project that exists never shrinks), and `FieldStays`,
`DeleteStays`, which are `UpdateHolds` and `EmptyDeleteExplained` from the act on, told
or not. `PagesShown` needs what a WHERE does to an appended and to a deleted row, and the
arithmetic of a page, for integers of any width and pages of any size. `Selected` states
the rows of a WHERE by their positions, since the provers cannot unfold a recursive
operator; the induction behind it is over the length of a prefix.

### SchemaNames

The assumptions: display names are not empty (`required_text`), `proj_`, `_user` and
`unnamed` are identifiers of lower-case characters, a prefix does not start with a digit,
something is kept of a slug, and the projects, finitely many at first, stay below a
billion. `IInv` (checked with TLC on the instance of `schema_names` before it was proved)
has three parts besides types and rows.

*The first loop* (`Scanned`). After r characters, `cleaned` is what is written of the
positions in 1 .. r that `Kept` keeps: letters, digits and the first position of each run of
anything else (`ReadUpTo`). One character more is one position more or none
(`OneMoreCharacter`), and `prev_underscore` says which. What makes this provable without
induction over the name is that positions in their order are a bijection of the positions
and their ranks (`RankOnto`, by counting), so that `Written` of one more position is an
append (`WrittenAppend`), and of a part between two positions a subsequence
(`WrittenWithin`). The trimmed loop's output is therefore what is written from the first
letter to the last: the letters and the gaps between them (`TrimmedWritten`), which is
`Slug`.

*The second loop* (`Probed`, `Counted`). Its k-th name is `Attempt(k)`, and all of them are
different (`AttemptsDiffer`), as no two numbers share their decimal (`DecimalInjective`).
A project is in the way of one attempt only, since schemas are not shared, so the turns so
far and the projects not come across yet (`Untried`) are together no more than the projects
there were when the loop began; deleting a project never raises that sum. This is the bound
on `suffix` in `TypeOK`, and the measure behind `ProbingEnds`.

*The end.* The name that is inserted is free, so an INSERT fails only for the display name
(`ErrorExplained`); it has the prefix and no characters but an identifier's (`StartsSafe`),
so what `ensure_safe_ident` refuses is a length (`RefusalExplained`).

The one change the model needed was to state its data in a form that can be reasoned
about: a run of characters by where it begins instead of a fold, decimals by their digits.
The bound on `suffix` became the exact one.

### Only model-checked

- Liveness - `EveryRequestEnds` of `Provisioning` and of `Sessions`, `ProbingEnds` of
  `SchemaNames` -, which this prover does not reach: it takes WF and ENABLED. What these
  rest on is proved: no transactions wait for each other in a cycle, no request waits for a
  connection while it holds one, and the second loop's turns are bounded.
- The three findings of section 3 are counterexamples, not theorems; `CreateNever` proves the
  stronger half of the first.

## 5. Plan

Every safety property that a run checks is a theorem. What could follow:

1. Liveness by hand-made rules over WF, once the prover supports ENABLED: the measures are
   `Rank` of `HistoryProofs` and the sum in `Counted` of `SchemaNamesProofs`.
2. `ProvisioningProofs` and `HistoryProofs` as one development in three files by subject
   (statements and locks, credentials, histories).

## 6. Not modelled

The web panel, containers and load scripts hold no program logic. The admin summary
counts rows and changes none. Of configuration and start-up only what a later step may
notice is modelled (which environments start; what a restart changes). AES-GCM and JWT
signatures are assumed to be what they say. CORS, tracing, messages, formats and
encodings are left out, and so are the syntax of data types (`validate_data_type`
refuses or it does not) and searching. PostgreSQL is modelled where its answers decide
what a handler does. A crash of the server process equals, for PostgreSQL, the
cancellation of all its handlers: every combination of `Cancel` or `Abandon` steps is in
the runs, `Secrets` has the restart itself, and nothing but the database survives.

## 7. Running

    tlc -config ProvisioningSafety.cfg MCProvisioning
    tlc -config SessionsSafety.cfg Sessions
    tlc -config UsersReadings.cfg MCProjectUsers
    tlc -config SchemaCommands.cfg MCSchemaEditor
    tlc -config GuardedSecrets.cfg MCGuardedSecrets
    tlc -config ProjectRecords.cfg MCProjectRecords
    tlc -config SchemaNames.cfg MCSchemaNames
    tlapm ProvisioningProofs.tla
    tlapm HistoryProofs.tla
    tlapm SessionsProofs.tla
    tlapm ProjectUsersProofs.tla
    tlapm SchemaEditorProofs.tla
    tlapm GuardedSecretsProofs.tla
    tlapm ProjectRecordsProofs.tla
    tlapm SchemaNamesProofs.tla
