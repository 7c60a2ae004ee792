---------------------------- MODULE ProjectRecords ----------------------------
(***************************************************************************)
(* What the panel keeps about its projects: their names and descriptions   *)
(* (update_project), the saved queries (services/saved_queries.rs), the    *)
(* query history (services/query_log.rs) and the audit log                 *)
(* (services/audit.rs), as rows of its own tables.  Every statement        *)
(* commits by itself, the audit row with one more.                         *)
(*                                                                         *)
(* "name" stands for the columns that are NOT NULL (name, sql), "notes"    *)
(* for those that an empty string sets to NULL (notes, description,        *)
(* repository_url).  The saved query that request r creates has the id r.  *)
(* A statement that was sent before its client left may still take effect  *)
(* later, or never.                                                        *)
(***************************************************************************)
EXTENDS Paging, FiniteSets, SequencesExt

CONSTANTS
  Requests,    \* the HTTP requests
  Projects,    \* the projects
  Old,         \* ids of queries saved before
  Values,      \* what a name or a note may be
  Patches,     \* what the requests may want to set
  Stored,      \* the rows there may be at first
  Past,        \* the query history there is at first
  Listings,    \* the query parameters of a listing: page, limit, success
  Operations,  \* what the requests may ask for
  MaxHistory,  \* bound on the query history
  Faults,      \* may statements fail and clients leave?
  Null, Keep,  \* a column that is NULL, a field that was left out
  Absent       \* no row

Ids == Requests \union Old
Targets == Projects \union Ids

Row == [project : Projects, name : Values, notes : Values \union {Null, ""}]
Patch == [name : Values \union {Keep}, notes : Values \union {Keep, ""}]
Entry == [project : Projects, success : BOOLEAN]
Listing == [page : I64 \union {Unset}, limit : I64 \union {Unset},
            success : BOOLEAN \union {Unset}]

Changes == {"create", "update", "delete"}
Readings == {"get", "list", "history", "audits"}

ASSUME RecordsAssumption ==
  /\ Operations \subseteq Changes \union Readings
  /\ Listings \subseteq Listing /\ Patches \subseteq Patch
  /\ \A s \in Stored :
       /\ s \in [Targets -> Row \union {Absent}]
       /\ \A r \in Requests : s[r] = Absent
       /\ \A p \in Projects : s[p] # Absent /\ s[p].project = p
       /\ \A p, q \in Projects : s[p].name = s[q].name => p = q
  /\ Past \in Seq(Entry)
  /\ MaxHistory \in Nat /\ Faults \in BOOLEAN
  /\ {Null, Keep, ""} \intersect Values = {} /\ Null # Keep
  /\ Absent \notin Row \union Patch \union Listing
  /\ Projects \intersect Ids = {} /\ Requests \intersect Old = {}

VARIABLES
  rows,      \* the row of each project and of each saved query
  history,   \* query_history, the newest entry last
  audit,     \* requests in the order of their audit rows
  pc,        \* the statement each request awaits
  op,        \* what it asks for
  arg,       \* the project or the saved query it is about
  want,      \* the fields it sets, or the page it wants
  total,     \* the number of rows it has counted
  shown,     \* the row, or the rows, it has read
  answer,    \* the HTTP answer; "none" while the handler runs
  done,      \* ghost: the requests whose change has been made
  void,      \* ghost: the deletes whose DELETE has found no row
  before     \* ghost: those answered when each request arrived

vars == <<rows, history, audit, pc, op, arg, want, total, shown, answer, done,
          void, before>>

(* A row of projects says of itself that it is of that project.            *)
Init ==
  /\ rows \in Stored
  /\ history = Past /\ audit = << >>
  /\ pc = [r \in Requests |-> "idle"]
  /\ op = [r \in Requests |-> "none"]
  /\ arg = [r \in Requests |-> Absent]
  /\ want = [r \in Requests |-> Absent]
  /\ total = [r \in Requests |-> 0]
  /\ shown = [r \in Requests |-> Absent]
  /\ answer = [r \in Requests |-> "none"]
  /\ done = {} /\ void = {}
  /\ before = [r \in Requests |-> {}]

Exists(t) == rows[t] # Absent

(* WHERE: the rows of s that are in T, in their order.                     *)
Selected(s, T) ==
  LET first[n \in 0 .. Len(s)] ==      \* what the first n rows contribute
        IF n = 0 THEN << >>
        ELSE IF s[n] \in T THEN Append(first[n - 1], s[n]) ELSE first[n - 1]
  IN  first[Len(s)]

NullIf(v) == IF v = "" THEN Null ELSE v

-----------------------------------------------------------------------------
(* The handlers *)

Running(r) == pc[r] # "idle" /\ answer[r] = "none"
Writing == {"insert", "update", "delete", "audit"}

(* The handler answers, if it is still there to do so.                     *)
Respond(r, a) ==
  /\ pc' = [pc EXCEPT ![r] = "done"]
  /\ answer' = [answer EXCEPT ![r] = IF Running(r) THEN a ELSE @]

Continue(r, step) ==
  /\ pc' = [pc EXCEPT ![r] = IF Running(r) THEN step ELSE "done"]
  /\ UNCHANGED answer

Unchecked(o) ==                 \* slip: the row is not looked for first
  CASE o = "delete" -> "delete"
    [] o = "create" -> "exists"
    [] o = "history" -> "count"
    [] o = "audits" -> "rows"
    [] OTHER -> o
FirstStep(o) ==
  CASE o \in {"create", "delete"} -> "exists"
    [] o = "history" -> "count"
    [] o = "audits" -> "rows"
    [] OTHER -> o

Receive(r, o, t, w, step) ==
  /\ pc[r] = "idle"
  /\ op' = [op EXCEPT ![r] = o]
  /\ arg' = [arg EXCEPT ![r] = t]
  /\ want' = [want EXCEPT ![r] = w]
  /\ before' = [before EXCEPT ![r] = {q \in Requests : answer[q] # "none"}]
  /\ pc' = [pc EXCEPT ![r] = step]
  /\ UNCHANGED <<rows, history, audit, total, shown, answer, done, void>>

(* Ids are random: none is known before its row is there.                  *)
Known == Old \union {r \in done : op[r] = "create"}

(* A blank name or query is refused.                                       *)
AskChange(r) ==
  \E o \in Operations \intersect Changes, w \in Patches :
  \E t \in IF o = "create" THEN Projects
           ELSE IF o = "delete" THEN Known ELSE Projects \union Known :
    /\ o = "create" => w.name # Keep
    /\ \/ Receive(r, o, t, IF o = "delete" THEN Absent ELSE w, FirstStep(o))
       \/ /\ o # "delete" /\ w.name # Keep
          /\ pc[r] = "idle"
          /\ pc' = [pc EXCEPT ![r] = "done"]
          /\ answer' = [answer EXCEPT ![r] = "bad request"]
          /\ UNCHANGED <<rows, history, audit, op, arg, want, total, shown,
                         done, void, before>>

AskReading(r) ==
  \/ "get" \in Operations
     /\ \E t \in Projects \union Known : Receive(r, "get", t, Absent, "get")
  \/ "list" \in Operations
     /\ \E p \in Projects : Receive(r, "list", p, Absent, "list")
  \/ \E o \in Operations \intersect {"history", "audits"}, w \in Listings :
     \E t \in Projects \union (IF o = "audits" THEN {Absent} ELSE {}) :
       Receive(r, o, t, w, FirstStep(o))

(* SELECT EXISTS of the project, or SELECT 1 of the saved query.           *)
CheckExists(r) ==
  /\ pc[r] = "exists"
  /\ IF Exists(arg[r])
     THEN Continue(r, IF op[r] = "create" THEN "insert" ELSE "delete")
     ELSE Respond(r, "not found")
  /\ UNCHANGED <<rows, history, audit, op, arg, want, total, shown, done, void,
                 before>>

(* INSERT, which the foreign key refuses if the project is gone by now.    *)
Insert(r) ==
  /\ pc[r] = "insert"
  /\ IF Exists(arg[r])
     THEN /\ rows' = [rows EXCEPT ![r] =
                        [project |-> arg[r], name |-> want[r].name,
                         notes |-> IF want[r].notes = Keep THEN Null
                                   ELSE want[r].notes]]
          /\ done' = done \union {r}
          /\ Continue(r, "audit")
     ELSE Respond(r, "error") /\ UNCHANGED <<rows, done>>
  /\ UNCHANGED <<history, audit, op, arg, want, total, shown, void, before>>

(* UPDATE ... SET field = CASE WHEN present THEN value ELSE field END.     *)
Overwriting(row, w) ==          \* slip: what is absent becomes NULL
  [row EXCEPT !.name = IF w.name = Keep THEN @ ELSE w.name,
              !.notes = IF w.notes = Keep THEN Null ELSE NullIf(w.notes)]
Merged(row, w) ==
  [row EXCEPT !.name = IF w.name = Keep THEN @ ELSE w.name,
              !.notes = IF w.notes = Keep THEN @ ELSE NullIf(w.notes)]

(* The name of a project is UNIQUE, that of a saved query is not.          *)
Refused(t, row) ==
  \/ row.name = Null
  \/ t \in Projects /\ \E p \in Projects \ {t} :
                         Exists(p) /\ rows[p].name = row.name

Update(r) ==
  LET t == arg[r] IN
  /\ pc[r] = "update"
  /\ IF ~Exists(t) THEN Respond(r, "not found") /\ UNCHANGED <<rows, done>>
     ELSE IF Refused(t, Merged(rows[t], want[r]))
     THEN Respond(r, "error") /\ UNCHANGED <<rows, done>>
     ELSE /\ rows' = [rows EXCEPT ![t] = Merged(@, want[r])]
          /\ done' = done \union {r}
          /\ Continue(r, "audit")
  /\ UNCHANGED <<history, audit, op, arg, want, total, shown, void, before>>

(* DELETE; nobody looks at the number of rows.                             *)
Delete(r) ==
  /\ pc[r] = "delete"
  /\ rows' = [rows EXCEPT ![arg[r]] = Absent]
  /\ IF Exists(arg[r]) THEN done' = done \union {r} /\ UNCHANGED void
     ELSE void' = void \union {r} /\ UNCHANGED done
  /\ Continue(r, "audit")
  /\ UNCHANGED <<history, audit, op, arg, want, total, shown, before>>

AuditLater(r) ==                \* slip: the answer does not wait for the row
  /\ pc[r] = "audit"
  /\ IF Running(r)
     THEN /\ answer' = [answer EXCEPT ![r] = "ok"]
          /\ UNCHANGED <<pc, audit>>
     ELSE /\ audit' = Append(audit, r)
          /\ Continue(r, "done")
  /\ UNCHANGED <<rows, history, op, arg, want, total, shown, done, void, before>>

Audit(r) ==
  /\ pc[r] = "audit"
  /\ audit' = Append(audit, r)
  /\ Respond(r, "ok")
  /\ UNCHANGED <<rows, history, op, arg, want, total, shown, done, void, before>>

(* get and get_project.                                                    *)
Get(r) ==
  /\ pc[r] = "get"
  /\ shown' = [shown EXCEPT ![r] = rows[arg[r]]]
  /\ Respond(r, IF Exists(arg[r]) THEN "ok" ELSE "not found")
  /\ UNCHANGED <<rows, history, audit, op, arg, want, total, done, void, before>>

(* The saved queries of a project, which need not exist.                   *)
List(r) ==
  /\ pc[r] = "list"
  /\ Respond(r, "ok")
  /\ UNCHANGED <<rows, history, audit, op, arg, want, total, shown, done, void,
                 before>>

(* What a listing selects, the newest row first; and the page it wants.    *)
ResourceOf(q) == IF op[q] = "create" THEN q ELSE arg[q]
Audits(r) == {q \in Requests : arg[r] \in {Absent, ResourceOf(q)}}
Queries(r) == {e \in Entry : /\ e.project = arg[r]
                             /\ want[r].success \in {Unset, e.success}}
Matching(r) == Reverse(IF op[r] = "audits" THEN Selected(audit, Audits(r))
                       ELSE Selected(history, Queries(r)))
PageOf(r) == ResolvedPage(want[r].page)
LimitOf(r) == ResolvedLimit(want[r].limit)

(* A debug build panics where the offset overflows, and the client gets no *)
(* answer; a release build goes on with what is left of the product.       *)
Panic(r) ==
  /\ op[r] \in {"history", "audits"} /\ pc[r] = FirstStep(op[r])
  /\ Overflows(PageOf(r), LimitOf(r))
  /\ Respond(r, "lost")
  /\ UNCHANGED <<rows, history, audit, op, arg, want, total, shown, done, void,
                 before>>

CountRows(r) ==
  /\ pc[r] = "count"
  /\ total' = [total EXCEPT ![r] = Len(Matching(r))]
  /\ Continue(r, "rows")
  /\ UNCHANGED <<rows, history, audit, op, arg, want, shown, done, void, before>>

ReadRows(r) ==
  LET offset == Wrapped(Offset(PageOf(r), LimitOf(r))) IN
  /\ pc[r] = "rows"
  /\ IF offset < 0 THEN Respond(r, "error") /\ UNCHANGED shown
     ELSE /\ shown' = [shown EXCEPT ![r] =
                         Page(Matching(r), offset, LimitOf(r))]
          /\ Respond(r, "ok")
  /\ UNCHANGED <<rows, history, audit, op, arg, want, total, done, void, before>>

-----------------------------------------------------------------------------
(* What may happen to them *)

(* A statement fails, its answer is lost, or the client leaves.  One that  *)
(* writes may have been sent already.                                      *)
Abandon(r) ==
  /\ Faults
  /\ Running(r)
  /\ answer' = [answer EXCEPT ![r] = "lost"]
  /\ pc' = [pc EXCEPT ![r] = IF @ \in Writing THEN @ ELSE "done"]
  /\ UNCHANGED <<rows, history, audit, op, arg, want, total, shown, done, void,
                 before>>

NeverRuns(r) ==
  /\ pc[r] \in Writing /\ ~Running(r)
  /\ Continue(r, "done")
  /\ UNCHANGED <<rows, history, audit, op, arg, want, total, shown, done, void,
                 before>>

(* The last statement of execute_project_query; for a project that is gone *)
(* by then, the foreign key refuses it and nobody is told.                 *)
RecordQuery(p) ==
  /\ Len(history) < MaxHistory
  /\ Exists(p)
  /\ \E s \in BOOLEAN :
       history' = Append(history, [project |-> p, success |-> s])
  /\ UNCHANGED <<rows, audit, pc, op, arg, want, total, shown, answer, done,
                 void, before>>

(* delete_project commits: ON DELETE CASCADE, twice.                       *)
KeepSaved(p) == {p}             \* slip: the saved queries are left behind
Cascade(p) == {p} \union {i \in Ids : Exists(i) /\ rows[i].project = p}

DeleteProject(p) ==
  /\ Exists(p)
  /\ rows' = [t \in Targets |-> IF t \in Cascade(p) THEN Absent ELSE rows[t]]
  /\ history' = Selected(history, {e \in Entry : e.project # p})
  /\ UNCHANGED <<audit, pc, op, arg, want, total, shown, answer, done, void,
                 before>>

Proceed(r) ==
  \/ CheckExists(r) \/ Insert(r) \/ Update(r) \/ Delete(r) \/ Audit(r)
  \/ Get(r) \/ List(r) \/ CountRows(r) \/ ReadRows(r)

Disturb(r) == Panic(r) \/ Abandon(r) \/ NeverRuns(r)

Rest == (\A r \in Requests : pc[r] = "done") /\ UNCHANGED vars

Next == \/ \E r \in Requests : AskChange(r) \/ AskReading(r)
        \/ \E r \in Requests : Proceed(r) \/ Disturb(r)
        \/ \E p \in Projects : RecordQuery(p) \/ DeleteProject(p)
        \/ Rest

Spec == Init /\ [][Next]_vars

-----------------------------------------------------------------------------
(* Properties *)

Recorded == {audit[i] : i \in DOMAIN audit}

(* Types; saved queries and history belong to projects that exist, whose   *)
(* names differ; and who awaits the audit row has run its statement.       *)
TypeOK ==
  /\ rows \in [Targets -> Row \union {Absent}]
  /\ history \in Seq(Entry) /\ audit \in Seq(Requests)
  /\ pc \in [Requests -> {"idle", "exists", "insert", "update", "delete", "get",
                          "list", "count", "rows", "audit", "done"}]
  /\ op \in [Requests -> Operations \union {"none"}]
  /\ arg \in [Requests -> Targets \union {Absent}]
  /\ want \in [Requests -> Patch \union Listings \union {Absent}]
  /\ total \in [Requests -> Nat]
  /\ answer \in [Requests -> {"none", "ok", "not found", "bad request",
                              "error", "lost"}]
  /\ {done, void} \subseteq SUBSET Requests
  /\ before \in [Requests -> SUBSET Requests]
  /\ \A i \in Ids : Exists(i) => Exists(rows[i].project)
  /\ \A i \in DOMAIN history : Exists(history[i].project)
  /\ \A p, q \in Projects :
       Exists(p) /\ Exists(q) /\ rows[p].name = rows[q].name => p = q
  /\ \A r \in Requests :
       pc[r] = "audit" => r \in (done \union void) \ Recorded

(* q has had an effect that may be later than that of r: it had not been   *)
(* answered when r arrived, or its client did not wait for its end.        *)
MayFollow(q, r) ==
  /\ q # r /\ q \in done
  /\ q \notin before[r] \/ answer[q] = "lost"

(* "Absent = keep existing": each field that an answered update has set    *)
(* stays as it was set, in the row and for whoever reads it later, until   *)
(* another request that was not over before sets that very field; and a    *)
(* field that nobody sets is never touched.                                *)
UpdateHolds ==
  \A r \in Requests, f \in {"name", "notes"} :
    LET t == arg[r]
        Reset == \E q \in Requests : /\ op[q] = "update" /\ arg[q] = t
                                     /\ MayFollow(q, r) /\ want[q][f] # Keep
    IN  op[r] = "update" /\ answer[r] = "ok" /\ want[r][f] # Keep =>
          \/ Reset
          \/ /\ Exists(t) => rows[t][f] = NullIf(want[r][f])
             /\ \A q \in Requests :
                  /\ op[q] = "get" /\ arg[q] = t /\ answer[q] = "ok"
                  /\ r \in before[q]
                  => shown[q][f] = NullIf(want[r][f])

(* A delete that was answered with 204 without deleting anything ran       *)
(* beside another one, or beside the deletion of the project; and what was *)
(* answered so is gone.                                                    *)
EmptyDeleteExplained ==
  \A r \in Requests :
    LET i == arg[r] IN
    /\ r \in void =>
         \/ \E q \in done : /\ op[q] = "delete" /\ arg[q] = i
                            /\ q \notin before[r] \/ answer[q] = "lost"
         \/ \E p \in Projects : ~Exists(p) /\ (i \in Requests => p = arg[i])
    /\ op[r] = "delete" /\ answer[r] = "ok" => ~Exists(i)

(* Without a failure a 500 has one of three causes: the project of a query *)
(* that is saved was deleted meanwhile, another project has the name, or   *)
(* the page is too far away for an i64.                                    *)
ErrorExplained ==
  \A r \in Requests :
    answer'[r] = "error" /\ answer[r] # "error" =>
      CASE op[r] = "create" -> ~Exists(arg[r])
        [] op[r] = "update" ->
             \E p \in Projects \ {arg[r]} :
               Exists(p) /\ rows[p].name = want[r].name
        [] OTHER -> Overflows(PageOf(r), LimitOf(r))

(* A success without an effect and an error without a failure have causes. *)
AnswerExplained == EmptyDeleteExplained' /\ ErrorExplained
AnswersExplained == [][AnswerExplained]_vars

(* A page shows what is there when it is read, from where the pages before *)
(* it end; one that the total says is full is full, unless the project has *)
(* been deleted since.  Only an overflow shows another page.               *)
PageShown ==
  \A r \in Requests :
    /\ pc[r] = "rows" /\ pc'[r] = "done" /\ answer'[r] = "ok"
    /\ (PageOf(r) - 1) * LimitOf(r) < Half
    => LET first == (PageOf(r) - 1) * LimitOf(r) + 1
           last == first + LimitOf(r) - 1
       IN  /\ \A i \in first .. last :
                i <= Len(Matching(r)) =>
                  /\ i - first + 1 \in DOMAIN shown'[r]
                  /\ shown'[r][i - first + 1] = Matching(r)[i]
           /\ Len(shown'[r]) <= LimitOf(r)
           /\ last <= total[r] =>
                Len(shown'[r]) = LimitOf(r) \/ ~Exists(arg[r])

PageExplained == [][PageShown]_vars

(* Whoever is told of a success finds its audit row, and no row tells of a *)
(* statement that did not run.                                             *)
Log == INSTANCE AuditTrail WITH
  done <- done \union void,
  trail <- audit,
  answered <- {r \in Requests : op[r] \in Changes /\ answer[r] = "ok"}

ImplementsAuditTrail == Log!Spec
=============================================================================
