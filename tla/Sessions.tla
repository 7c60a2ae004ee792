------------------------------ MODULE Sessions ------------------------------
(***************************************************************************)
(* The connection pool and the search_path of its sessions (db.rs and the  *)
(* ways in which services/projects.rs uses the pool).                      *)
(*                                                                         *)
(* A new connection gets the search_path of the panel, which every other   *)
(* statement of the panel relies on.  The project query sets the path of   *)
(* the project on one of those connections and runs the operator's SQL on  *)
(* it.  A request may need several connections, one after the other.       *)
(***************************************************************************)
EXTENDS Naturals, Sequences, FiniteSets

CONSTANTS
  Requests,     \* the HTTP requests
  Connections,  \* the connections of the pool: DATABASE_MAX_CONNECTIONS
  Operations,   \* the operations the requests may ask for
  OperatorSql,  \* what an operator may type into the query editor
  Faults        \* may statements fail, the pool time out, clients leave?

ASSUME SessionsAssumption ==
  /\ Operations \subseteq {"list", "info", "delete", "reset", "query"}
  /\ OperatorSql \subseteq {"plain", "invalid", "SET", "COMMIT"}
  /\ Faults \in BOOLEAN

(* How each handler uses the pool, statement by statement.  Select, Change *)
(* and Audit name the panel's tables without a schema.                     *)
ListPlan == <<"Acquire", "Select", "Release">>
InfoPlan ==
  <<"Acquire", "Select", "Release", "Acquire", "Audit", "Release">>
DeletePlan ==
  <<"Acquire", "Begin", "Select", "Change", "Audit", "Commit", "Release">>
ResetInTransaction ==       \* slip: get_project after pool.begin()
  <<"Acquire", "Begin", "Acquire", "Select", "Release",
    "Change", "Audit", "Commit", "Release">>
ResetPlan ==
  <<"Acquire", "Select", "Release",
    "Acquire", "Begin", "Change", "Audit", "Commit", "Release">>
QueryPlan ==
  <<"Acquire", "Select", "Release",
    "Acquire", "Begin", "SetLocal", "Operator", "End", "Release",
    "Acquire", "History", "Release">>

Plan(o) ==
  CASE o = "list" -> ListPlan
    [] o = "info" -> InfoPlan
    [] o = "delete" -> DeletePlan
    [] o = "reset" -> ResetPlan
    [] o = "query" -> QueryPlan
    [] OTHER -> << >>

Paths == {"panel", "project", "operator"}
Session == [path : Paths,     \* the search_path in force
            kept : Paths,     \* what COMMIT makes of it
            before : Paths,   \* what ROLLBACK makes of it
            open : BOOLEAN]   \* in a transaction block?

VARIABLES
  place,    \* of a connection: "idle" in the pool, "held", or "returning"
  session,  \* of a connection
  op,       \* what each request asks for
  sql,      \* the operator's SQL, for a query
  at,       \* its next step; 0 before it arrives
  held,     \* the connections it holds, the latest last
  result,   \* of the operator's SQL: "none", "ok" or "failed"
  answer,   \* the HTTP answer, "none" while the handler runs
  astray    \* ghost: requests with a statement on a path not the panel's

vars == <<place, session, op, sql, at, held, result, answer, astray>>

Fresh == [path |-> "panel", kept |-> "panel", before |-> "panel", open |-> FALSE]

Init ==
  /\ place = [c \in Connections |-> "idle"]
  /\ session = [c \in Connections |-> Fresh]
  /\ op = [r \in Requests |-> "none"]
  /\ sql = [r \in Requests |-> "plain"]
  /\ at = [r \in Requests |-> 0]
  /\ held = [r \in Requests |-> << >>]
  /\ result = [r \in Requests |-> "none"]
  /\ answer = [r \in Requests |-> "none"]
  /\ astray = {}

-----------------------------------------------------------------------------
(* PostgreSQL: what statements make of a session                           *)

Begin(s) == [s EXCEPT !.open = TRUE, !.kept = s.path, !.before = s.path]
Set(s, p) == [s EXCEPT !.path = p, !.kept = p]
SetWithoutLocal(s) == Set(s, "project")  \* slip: SET instead of SET LOCAL
SetLocal(s) == [s EXCEPT !.path = "project"]
Committed(s) == IF s.open THEN [s EXCEPT !.open = FALSE, !.path = s.kept] ELSE s
RolledBack(s) ==
  IF s.open THEN [s EXCEPT !.open = FALSE, !.path = s.before] ELSE s

Operator(q, s) ==
  CASE q = "SET" -> Set(s, "operator")
    [] q = "COMMIT" -> Committed(s)
    [] OTHER -> s

After(r, stmt, s) ==
  CASE stmt = "Begin" -> Begin(s)
    [] stmt = "SetLocal" -> SetLocal(s)
    [] stmt = "Operator" -> Operator(sql[r], s)
    [] stmt = "Commit" -> Committed(s)
    [] stmt = "End" -> IF result[r] = "ok" THEN Committed(s) ELSE RolledBack(s)
    [] OTHER -> s

-----------------------------------------------------------------------------
(* The handlers *)

Running(r) == at[r] > 0 /\ answer[r] = "none"
Step(r) == Plan(op[r])[at[r]]
Last(r) == held[r][Len(held[r])]
Statements == {"Begin", "SetLocal", "Operator", "Commit", "End", "Select",
               "Change", "Audit", "History"}
OnPanelTables == {"Select", "Change", "Audit", "History"}

(* The history INSERT: `let _ =` drops all its errors.                     *)
InHistory(r) ==
  \/ Step(r) = "History"
  \/ Step(r) = "Acquire" /\ Plan(op[r])[at[r] + 1] = "History"

Outcome(r) == IF result[r] = "failed" THEN "error" ELSE "ok"
Advance(r) == at' = [at EXCEPT ![r] = @ + 1]
Holding(r) == {held[r][i] : i \in DOMAIN held[r]}

LeaveHolding(r, a) ==         \* slip: the connection is not dropped
  /\ answer' = [answer EXCEPT ![r] = a]
  /\ place' = [c \in Connections |->
                 IF c \in Holding(r) THEN "returning" ELSE place[c]]
  /\ UNCHANGED <<at, held>>

(* The handler returns; what it still holds it drops.                      *)
Leave(r, a) ==
  /\ answer' = [answer EXCEPT ![r] = a]
  /\ held' = [held EXCEPT ![r] = << >>]
  /\ place' = [c \in Connections |->
                 IF c \in Holding(r) THEN "returning" ELSE place[c]]
  /\ UNCHANGED at

Receive(r, o, q) ==
  /\ at[r] = 0
  /\ op' = [op EXCEPT ![r] = o]
  /\ sql' = [sql EXCEPT ![r] = q]
  /\ at' = [at EXCEPT ![r] = 1]
  /\ UNCHANGED <<place, session, held, result, answer, astray>>

Acquire(r, c) ==
  /\ Running(r) /\ Step(r) = "Acquire"
  /\ place[c] = "idle"
  /\ place' = [place EXCEPT ![c] = "held"]
  /\ held' = [held EXCEPT ![r] = Append(@, c)]
  /\ Advance(r)
  /\ UNCHANGED <<session, op, sql, result, answer, astray>>

(* The end of a statement on the pool, of tx.commit() or tx.rollback().    *)
Release(r) ==
  /\ Running(r) /\ Step(r) = "Release"
  /\ IF at[r] = Len(Plan(op[r]))
     THEN Leave(r, Outcome(r))
     ELSE /\ place' = [place EXCEPT ![Last(r)] = "returning"]
          /\ held' = [held EXCEPT ![r] = SubSeq(@, 1, Len(@) - 1)]
          /\ Advance(r)
          /\ UNCHANGED answer
  /\ UNCHANGED <<session, op, sql, result, astray>>

(* A statement on the latest connection.  On a path not the panel's, its   *)
(* tables are not found, or others of that name are.                       *)
Execute(r) ==
  LET stmt == Step(r)
      c == Last(r)
      lost == stmt \in OnPanelTables /\ session[c].path # "panel"
  IN
  /\ Running(r) /\ stmt \in Statements
  /\ session' = [session EXCEPT ![c] = After(r, stmt, @)]
  /\ astray' = IF lost THEN astray \union {r} ELSE astray
  /\ result' = [result EXCEPT ![r] =
                  IF stmt # "Operator" THEN @
                  ELSE IF sql[r] = "invalid" THEN "failed" ELSE "ok"]
  /\ \/ Advance(r) /\ UNCHANGED <<place, held, answer>>
     \/ lost /\ ~InHistory(r) /\ Leave(r, "error")
  /\ UNCHANGED <<op, sql>>

(* A statement fails.  The project query rolls back on an error of the     *)
(* operator's SQL and ignores one of COMMIT, ROLLBACK and the history.     *)
StatementFails(r) ==
  /\ Faults
  /\ Running(r) /\ Step(r) \in Statements
  /\ IF Step(r) \in {"Operator", "End", "History"}
     THEN Advance(r) /\ UNCHANGED <<place, held, answer>>
     ELSE Leave(r, "error")
  /\ result' = [result EXCEPT ![r] = IF Step(r) = "Operator" THEN "failed" ELSE @]
  /\ UNCHANGED <<session, op, sql, astray>>

AcquireTimesOut(r) ==
  /\ Faults
  /\ Running(r) /\ Step(r) = "Acquire"
  /\ \A c \in Connections : place[c] # "idle"
  /\ Leave(r, IF InHistory(r) THEN Outcome(r) ELSE "error")
  /\ UNCHANGED <<session, op, sql, result, astray>>

(* The client leaves: the handler's future is dropped where it awaits.     *)
Cancel(r) ==
  /\ Faults
  /\ Running(r)
  /\ Leave(r, "gone")
  /\ UNCHANGED <<session, op, sql, result, astray>>

-----------------------------------------------------------------------------
(* The pool *)

(* A dropped connection ends its transaction before others may have it.    *)
Return(c) ==
  /\ place[c] = "returning"
  /\ session' = [session EXCEPT ![c] = RolledBack(@)]
  /\ place' = [place EXCEPT ![c] = "idle"]
  /\ UNCHANGED <<op, sql, at, held, result, answer, astray>>

(* An idle connection is closed (broken, or old) and replaced by a new one *)
(* on which after_connect has set the panel's path.                        *)
Reconnect(c) ==
  /\ place[c] = "idle"
  /\ session' = [session EXCEPT ![c] = Fresh]
  /\ UNCHANGED <<place, op, sql, at, held, result, answer, astray>>

Arrive(r) ==
  \E o \in Operations, q \in OperatorSql :
    /\ o # "query" => q = "plain"
    /\ Receive(r, o, q)

Proceed(r) == Release(r) \/ Execute(r) \/ \E c \in Connections : Acquire(r, c)
Disturb(r) == StatementFails(r) \/ AcquireTimesOut(r) \/ Cancel(r)

Rest == /\ \A r \in Requests : answer[r] # "none"
        /\ \A c \in Connections : place[c] = "idle"
        /\ UNCHANGED vars

Next == \/ \E r \in Requests : Arrive(r) \/ Proceed(r) \/ Disturb(r)
        \/ \E c \in Connections : Return(c) \/ Reconnect(c)
        \/ Rest

(* tokio polls every ready task, those that return connections included.   *)
Spec == Init /\ [][Next]_vars
FairSpec == /\ Spec
            /\ \A r \in Requests : WF_vars(Proceed(r))
            /\ \A c \in Connections : WF_vars(Return(c))

-----------------------------------------------------------------------------
(* Properties *)

(* Types; and no two requests speak on one connection, nor any on one that *)
(* it has given back.                                                      *)
TypeOK ==
  /\ place \in [Connections -> {"idle", "held", "returning"}]
  /\ session \in [Connections -> Session]
  /\ op \in [Requests -> Operations \union {"none"}]
  /\ sql \in [Requests -> OperatorSql \union {"plain"}]
  /\ at \in [Requests -> Nat]
  /\ held \in [Requests -> Seq(Connections)]
  /\ result \in [Requests -> {"none", "ok", "failed"}]
  /\ answer \in [Requests -> {"none", "ok", "error", "gone"}]
  /\ astray \subseteq Requests
  /\ \A c \in Connections :
       place[c] = "held" <=> \E r \in Requests : c \in Holding(r)
  /\ \A r, q \in Requests : r # q => Holding(r) \intersect Holding(q) = {}

(* "The search_path change is scoped to this transaction and never leaks   *)
(* back to the pool": whatever fails, is cancelled or commits early.       *)
PathStaysLocal ==
  \A c \in Connections : place[c] = "idle" => session[c].path # "project"

(* What the pool hands out is never in the middle of a transaction.        *)
IdleMeansNoTransaction ==
  \A c \in Connections : place[c] = "idle" => ~session[c].open

(* A statement of the panel looks its tables up on another path only if an *)
(* operator's own SET search_path has been committed.                      *)
StrayExplained ==
  astray # {} =>
    \E r \in Requests : /\ op[r] = "query" /\ sql[r] = "SET"
                        /\ result[r] = "ok"

(* The session of one request never shows in another: no transaction, no   *)
(* project's path, no other path but the one an operator has left there.   *)
SessionsStayApart == PathStaysLocal /\ IdleMeansNoTransaction /\ StrayExplained

(* Every request that arrives is answered without the pool's time-out:     *)
(* none waits for a connection while it holds one that another waits for.  *)
EveryRequestEnds ==
  \A r \in Requests : at[r] > 0 ~> answer[r] # "none"
=============================================================================
