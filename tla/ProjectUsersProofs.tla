-------------------------- MODULE ProjectUsersProofs --------------------------
(***************************************************************************)
(* ProjectUsers, for any requests, users and configurations: it implements *)
(* AuditTrail - what commits first and is audited later is audited before  *)
(* its client is told -, and what was answered holds.                      *)
(*                                                                         *)
(* Trailed says for each statement what its request has done so far, Known *)
(* what the rows, the configuration and the answers owe to the changes     *)
(* that have run, told or not; the properties are what is told of it.      *)
(***************************************************************************)
EXTENDS ProjectUsers, FiniteSetTheorems, TLAPS

Steps == {"idle", "exists", "upsert", "config", "schema", "change", "get",
          "count", "rows", "columns", "audit", "done"}
Answers == {"none", "ok", "not found", "bad request", "error", "lost"}
Audited == {"put", "export"} \union Changes

Typed ==
  /\ pc \in [Requests -> Steps]
  /\ op \in [Requests -> {"none", "put"} \union Changes \union Readings]
  /\ answer \in [Requests -> Answers]
  /\ audit \in Seq(Requests)

(* Which operations await which statement, and who has acted by then.      *)
Placed(r) ==
  /\ pc[r] \notin {"audit", "done"} => r \notin done
  /\ pc[r] = "audit" => r \in done \ Recorded /\ op[r] \in Audited
  /\ pc[r] \in {"exists", "upsert"} => op[r] = "put"
  /\ pc[r] = "config" => op[r] \in Changes \union Readings
  /\ pc[r] = "schema" => op[r] \in Changes \union {"get", "list", "export"}
  /\ pc[r] = "change" => op[r] \in Changes
  /\ pc[r] = "get" => op[r] = "get"
  /\ pc[r] \in {"count", "rows"} => op[r] \in {"list", "export"}
  /\ pc[r] = "columns" => op[r] = "list"
  /\ pc[r] = "idle" => answer[r] = "none"

Trailed == Typed /\ Recorded \subseteq done /\ \A r \in Requests : Placed(r)

(* Who was told of the success of what is audited.                         *)
Told == {r \in Requests : op[r] \in Audited /\ answer[r] = "ok"}

-----------------------------------------------------------------------------

LEMMA InitTrailed == Init => Trailed
<1> SUFFICES ASSUME Init PROVE Trailed
  OBVIOUS
<1>1. Typed
  BY DEF Init, Typed, Steps, Answers
<1>2. \A r \in Requests : Placed(r)
  BY DEF Init, Placed
<1>3. Recorded = {}
  BY DEF Init, Recorded
<1> QED
  BY <1>1, <1>2, <1>3 DEF Trailed

(* A step of request r alone.                                              *)
Only(r) ==
  \A q \in Requests \ {r} : /\ pc'[q] = pc[q] /\ op'[q] = op[q]
                            /\ answer'[q] = answer[q]

(* What a step of r that neither acts nor records leaves behind.           *)
LEMMA QuietStep ==
  ASSUME Trailed, NEW r \in Requests, Typed', Only(r), Placed(r)',
         UNCHANGED <<audit, done>>, r \in Told' <=> r \in Told
  PROVE  Trailed' /\ UNCHANGED Log!vars
<1>1. UNCHANGED Recorded
  BY DEF Recorded
<1>2. ASSUME NEW q \in Requests, q # r PROVE Placed(q)'
  BY <1>1, <1>2 DEF Trailed, Placed, Only
<1>3. Trailed'
  BY <1>1, <1>2 DEF Trailed
<1>4. \A q \in Requests : q \in Told' <=> q \in Told
  BY DEF Only, Told
<1>5. UNCHANGED Told
  BY <1>4 DEF Told
<1> QED
  BY <1>3, <1>5 DEF Log!vars, Told, Audited

(* What a step of r leaves behind that acts, and awaits its audit row.     *)
LEMMA ActingStep ==
  ASSUME Trailed, NEW r \in Requests, Typed', Only(r),
         r \notin done, done' = done \union {r}, Continue(r, "audit"),
         op[r] \in Audited, UNCHANGED <<audit, op>>
  PROVE  Trailed' /\ Log!Act(r)
<1>1. UNCHANGED Recorded /\ r \notin Recorded
  BY DEF Recorded, Trailed
<1>2. Placed(r)'
  BY <1>1 DEF Trailed, Typed, Placed, Continue
<1>3. ASSUME NEW q \in Requests, q # r PROVE Placed(q)'
  BY <1>1, <1>3 DEF Trailed, Placed, Only
<1>4. Trailed'
  BY <1>1, <1>2, <1>3 DEF Trailed
<1>5. UNCHANGED Told
  BY DEF Continue, Told
<1> QED
  BY <1>4, <1>5 DEF Log!Act, Told, Audited

LEMMA ReceiveQuiet ==
  ASSUME Trailed, NEW r \in Requests,
         NEW o \in {"put"} \union Changes \union Readings, NEW a,
         Receive(r, o, a)
  PROVE  Trailed' /\ UNCHANGED Log!vars
<1>1. Typed'
  BY DEF Trailed, Typed, Receive, Steps
<1>2. Only(r)
  BY DEF Trailed, Typed, Receive, Only
<1>3. answer[r] = "none" /\ r \notin done
  BY DEF Trailed, Receive, Placed
<1>4. pc'[r] = (IF o = "put" THEN "exists" ELSE "config") /\ op'[r] = o
  BY DEF Trailed, Typed, Receive
<1>5. Placed(r)'
  BY <1>3, <1>4 DEF Receive, Placed
<1>6. r \notin Told /\ r \notin Told'
  BY <1>3 DEF Receive, Told
<1> QED
  BY <1>1, <1>2, <1>5, <1>6, QuietStep DEF Receive

(* The look-ups: they read, and go on or answer.                           *)
LEMMA LookUpsQuiet ==
  ASSUME Trailed, NEW r \in Requests,
         CheckProject(r) \/ ReadConfig(r) \/ ReadSchema(r)
  PROVE  Trailed' /\ UNCHANGED Log!vars
<1>1. UNCHANGED <<audit, op, done>>
  BY DEF CheckProject, ReadConfig, ReadSchema
<1>2. Typed'
  BY <1>1 DEF Trailed, Typed, CheckProject, ReadConfig, ReadSchema, Respond,
              Continue, Steps, Answers
<1>3. Only(r)
  BY <1>1 DEF Trailed, Typed, CheckProject, ReadConfig, ReadSchema, Respond,
              Continue, Only
<1>4. Placed(r)'
  <2>1. CASE CheckProject(r)
    BY <1>1, <2>1 DEF Trailed, Typed, CheckProject, Respond, Continue, Placed
  <2>2. CASE ReadConfig(r)
    <3>1. op[r] \in Changes \union Readings /\ r \notin done
      BY <2>2 DEF Trailed, Placed, ReadConfig
    <3>2. \/ pc'[r] = "done"
          \/ pc'[r] = "schema" /\ op[r] # "config"
      BY <2>2 DEF Trailed, Typed, ReadConfig, Respond, Continue
    <3> QED
      BY <1>1, <3>1, <3>2 DEF Placed, Readings
  <2>3. CASE ReadSchema(r)
    <3>1. op[r] \in Changes \union {"get", "list", "export"} /\ r \notin done
      BY <2>3 DEF Trailed, Placed, ReadSchema
    <3>2. \/ pc'[r] = "done"
          \/ pc'[r] = "change" /\ op[r] \in Changes
          \/ pc'[r] = "get" /\ op[r] = "get"
          \/ pc'[r] = "count" /\ op[r] \in {"list", "export"}
      BY <2>3, <3>1 DEF Trailed, Typed, ReadSchema, Respond, Continue
    <3> QED
      BY <1>1, <3>1, <3>2 DEF Placed
  <2> QED
    BY <2>1, <2>2, <2>3
<1>5. r \in Told' <=> r \in Told
  BY <1>1 DEF Trailed, Typed, CheckProject, ReadConfig, ReadSchema, Respond,
              Continue, Running, Told, Audited, Changes
<1> QED
  BY <1>1, <1>2, <1>3, <1>4, <1>5, QuietStep

(* The UPSERT is the act of put_config.                                    *)
LEMMA UpsertActs ==
  ASSUME Trailed, NEW r \in Requests, Upsert(r)
  PROVE  Trailed' /\ (Log!Act(r) \/ UNCHANGED Log!vars)
<1>1. op[r] = "put" /\ r \notin done /\ UNCHANGED <<audit, op>>
  BY DEF Trailed, Placed, Upsert
<1>2. Typed'
  BY DEF Trailed, Typed, Upsert, Respond, Continue, Steps, Answers
<1>3. Only(r)
  BY DEF Trailed, Typed, Upsert, Respond, Continue, Only
<1>4. CASE done' = done \union {r} /\ Continue(r, "audit")
  BY <1>1, <1>2, <1>3, <1>4, ActingStep DEF Audited
<1>5. CASE UNCHANGED done /\ Respond(r, "error")
  <2>1. Placed(r)'
    BY <1>1, <1>5 DEF Trailed, Typed, Respond, Placed
  <2>2. r \in Told' <=> r \in Told
    BY <1>1, <1>5 DEF Trailed, Typed, Respond, Running, Told
  <2> QED
    BY <1>1, <1>2, <1>3, <1>5, <2>1, <2>2, QuietStep
<1> QED
  BY <1>4, <1>5 DEF Upsert

(* The DELETE or UPDATE is the act of delete, ban, unban and reset.        *)
LEMMA ChangeActs ==
  ASSUME Trailed, NEW r \in Requests, Change(r)
  PROVE  Trailed' /\ (Log!Act(r) \/ UNCHANGED Log!vars)
<1>1. op[r] \in Changes /\ r \notin done /\ UNCHANGED <<audit, op>>
  BY DEF Trailed, Placed, Change
<1>2. \/ done' = done \union {r} /\ Continue(r, "audit")
      \/ UNCHANGED done /\ \E a \in {"error", "not found"} : Respond(r, a)
  BY DEF Change
<1>3. Typed'
  BY <1>1, <1>2 DEF Trailed, Typed, Respond, Continue, Steps, Answers
<1>4. Only(r)
  BY <1>1, <1>2 DEF Trailed, Typed, Respond, Continue, Only
<1>5. CASE done' = done \union {r} /\ Continue(r, "audit")
  BY <1>1, <1>3, <1>4, <1>5, ActingStep DEF Audited
<1>6. CASE UNCHANGED done /\ \E a \in {"error", "not found"} : Respond(r, a)
  <2>1. Placed(r)'
    BY <1>1, <1>6 DEF Trailed, Typed, Respond, Placed
  <2>2. r \in Told' <=> r \in Told
    BY <1>1, <1>6 DEF Trailed, Typed, Respond, Running, Told
  <2> QED
    BY <1>1, <1>3, <1>4, <1>6, <2>1, <2>2, QuietStep
<1> QED
  BY <1>2, <1>5, <1>6

(* Listing and export: reading the rows is the act of an export only.      *)
LEMMA ReadingsAct ==
  ASSUME Trailed, NEW r \in Requests,
         GetUser(r) \/ CountRows(r) \/ ReadRows(r) \/ ReadColumns(r)
  PROVE  Trailed' /\ (Log!Act(r) \/ UNCHANGED Log!vars)
<1>1. r \notin done /\ UNCHANGED <<audit, op>>
  BY DEF Trailed, Placed, GetUser, CountRows, ReadRows, ReadColumns
<1>2. \/ /\ op[r] = "export" /\ done' = done \union {r}
         /\ Continue(r, "audit")
      \/ /\ UNCHANGED done
         /\ \/ \E a \in Answers : Respond(r, a) /\ (a = "ok" => op[r] \notin Audited)
            \/ Continue(r, "rows") /\ op[r] \in {"list", "export"}
            \/ Continue(r, "columns") /\ op[r] = "list"
  <2>1. CASE GetUser(r)
    <3>1. op[r] = "get"
      BY <2>1 DEF Trailed, Placed, GetUser
    <3> QED
      BY <2>1, <3>1 DEF GetUser, Answers, Audited, Changes
  <2>2. CASE CountRows(r)
    <3>1. op[r] \in {"list", "export"}
      BY <2>2 DEF Trailed, Placed, CountRows
    <3> QED
      BY <2>2, <3>1 DEF CountRows, AfterCount, Answers
  <2>3. CASE ReadRows(r)
    <3>1. op[r] \in {"list", "export"}
      BY <2>3 DEF Trailed, Placed, ReadRows
    <3> QED
      BY <2>3, <3>1 DEF ReadRows, Answers
  <2>4. CASE ReadColumns(r)
    <3>1. op[r] = "list"
      BY <2>4 DEF Trailed, Placed, ReadColumns
    <3> QED
      BY <2>4, <3>1 DEF ReadColumns, Answers, Audited, Changes
  <2> QED
    BY <2>1, <2>2, <2>3, <2>4
<1>3. Typed'
  BY <1>1, <1>2 DEF Trailed, Typed, Respond, Continue, Steps, Answers
<1>4. Only(r)
  BY <1>1, <1>2 DEF Trailed, Typed, Respond, Continue, Only
<1>5. CASE /\ op[r] = "export" /\ done' = done \union {r}
           /\ Continue(r, "audit")
  BY <1>1, <1>3, <1>4, <1>5, ActingStep DEF Audited
<1>6. CASE /\ UNCHANGED done
           /\ \/ \E a \in Answers : Respond(r, a) /\ (a = "ok" => op[r] \notin Audited)
              \/ Continue(r, "rows") /\ op[r] \in {"list", "export"}
              \/ Continue(r, "columns") /\ op[r] = "list"
  <2>1. Placed(r)'
    BY <1>1, <1>6 DEF Trailed, Typed, Respond, Continue, Placed
  <2>2. r \in Told' <=> r \in Told
    BY <1>1, <1>6 DEF Trailed, Typed, Respond, Continue, Running, Told
  <2> QED
    BY <1>1, <1>3, <1>4, <1>6, <2>1, <2>2, QuietStep
<1> QED
  BY <1>2, <1>5, <1>6

(* The INSERT is the record, and only then comes the answer.               *)
LEMMA AuditRecords ==
  ASSUME Trailed, NEW r \in Requests, Audit(r)
  PROVE  Trailed' /\ Log!Record(r)
<1>1. audit' \in Seq(Requests) /\ Recorded' = Recorded \union {r}
  <2>1. audit \in Seq(Requests) /\ audit' = Append(audit, r)
    BY DEF Trailed, Typed, Audit
  <2> QED
    BY <2>1 DEF Recorded
<1>2. Typed'
  BY <1>1 DEF Trailed, Typed, Audit, Respond, Steps, Answers
<1>3. Only(r)
  BY DEF Trailed, Typed, Audit, Respond, Only
<1>4. r \in done \ Recorded
  BY DEF Trailed, Audit, Placed
<1>5. Placed(r)'
  BY <1>4 DEF Trailed, Typed, Audit, Respond, Placed
<1>6. ASSUME NEW q \in Requests, q # r PROVE Placed(q)'
  BY <1>1, <1>3, <1>6 DEF Trailed, Placed, Only, Audit
<1>7. Trailed'
  BY <1>1, <1>2, <1>4, <1>5, <1>6 DEF Trailed, Audit
<1>8. \A q \in Requests \ {r} : q \in Told' <=> q \in Told
  BY <1>3 DEF Only, Told
<1>9. r \in Told => r \in Told'
  BY DEF Trailed, Typed, Audit, Respond, Running, Told
<1>10. Told' = Told \/ Told' = Told \union {r}
  BY <1>8, <1>9 DEF Told
<1>11. Log!Record(r)
  BY <1>4, <1>10 DEF Log!Record, Log!Recorded, Recorded, Told, Audited, Audit
<1> QED
  BY <1>7, <1>11

LEMMA DisturbQuiet ==
  ASSUME Trailed, NEW r \in Requests, Disturb(r)
  PROVE  Trailed' /\ UNCHANGED Log!vars
<1>1. Typed'
  BY DEF Trailed, Typed, Disturb, Abandon, NeverRuns, Continue, Running, Steps,
         Answers
<1>2. Only(r)
  BY DEF Trailed, Typed, Disturb, Abandon, NeverRuns, Continue, Only
<1>3. UNCHANGED <<audit, op, done>> /\ UNCHANGED Recorded
  BY DEF Disturb, Abandon, NeverRuns, Recorded
<1>4. Placed(r)'
  BY <1>3 DEF Trailed, Typed, Disturb, Abandon, NeverRuns, Continue, Running,
              Placed
<1>5. r \in Told' <=> r \in Told
  BY DEF Trailed, Typed, Disturb, Abandon, NeverRuns, Continue, Running, Told
<1> QED
  BY <1>1, <1>2, <1>3, <1>4, <1>5, QuietStep

(* Every step keeps the invariant, and is one of the audit trail or none.  *)
LEMMA StepTrailed ==
  ASSUME Trailed, [Next]_vars
  PROVE  Trailed' /\ [Log!Next]_(Log!vars)
<1>1. ASSUME NEW r \in Requests, Arrive(r)
      PROVE  Trailed' /\ [Log!Next]_(Log!vars)
  <2>1. PICK o \in {"put"} \union Changes \union Readings,
             a \in Configs \union Users \union {Absent} : Receive(r, o, a)
    BY <1>1, OperationsAssumption DEF Arrive, Readings
  <2> QED
    BY <2>1, ReceiveQuiet
<1>2. ASSUME NEW r \in Requests, Proceed(r)
      PROVE  Trailed' /\ [Log!Next]_(Log!vars)
  BY <1>2, LookUpsQuiet, UpsertActs, ChangeActs, ReadingsAct, AuditRecords
     DEF Proceed, Log!Next
<1>3. ASSUME NEW r \in Requests, Disturb(r)
      PROVE  Trailed' /\ [Log!Next]_(Log!vars)
  BY <1>3, DisturbQuiet
<1>4. CASE DeleteProject \/ (\E u \in Users : AddUser(u)) \/ UNCHANGED vars
  <2>1. UNCHANGED <<audit, pc, op, answer, done>>
    BY <1>4 DEF DeleteProject, AddUser, vars
  <2>2. UNCHANGED Recorded /\ UNCHANGED Told
    BY <2>1 DEF Recorded, Told
  <2>3. Trailed'
    BY <2>1, <2>2 DEF Trailed, Typed, Placed
  <2> QED
    BY <2>1, <2>2, <2>3 DEF Log!vars, Told, Audited
<1> QED
  BY <1>1, <1>2, <1>3, <1>4 DEF Next, Rest

(* Whatever requests, users and configurations there are, user management  *)
(* implements the audit trail: no row without its change, one row a        *)
(* request, and the row before the answer.                                 *)
THEOREM UsersAudited == Spec => ImplementsAuditTrail
<1>1. Init => Log!Init
  BY DEF Init, Log!Init
<1>2. Trailed /\ [Next]_vars => Trailed' /\ [Log!Next]_(Log!vars)
  BY StepTrailed
<1> QED
  BY <1>1, <1>2, InitTrailed, PTL DEF Spec, ImplementsAuditTrail, Log!Spec

-----------------------------------------------------------------------------
(* What the answers rest on *)

Kinds == {"ban", "unban", "reset"}

Fields ==
  /\ alive \in BOOLEAN
  /\ config \in Configs \union {Absent}
  /\ table \in [Users -> [Columns -> Values] \union {Absent}]
  /\ op \in [Requests -> Operations \union {"none"}]
  /\ arg \in [Requests -> Users \union Configs \union {Absent}]
  /\ cfg \in [Requests -> Configs \union {Absent}]
  /\ count \in [Requests -> Nat]
  /\ rows \in [Requests -> SUBSET Users]
  /\ done \subseteq Requests
  /\ before \in [Requests -> SUBSET Requests]
  /\ added \subseteq Users
  /\ ~alive => config = Absent /\ Present = {}

(* What a request has read and been told, by where it is.                  *)
Informed(r) ==
  /\ pc[r] = "idle" => op[r] = "none" /\ cfg[r] = Absent
  /\ op[r] = "put" => arg[r] \in Configs
  /\ op[r] \in Changes \union {"get"} => arg[r] \in Users
  /\ \/ pc[r] \in {"schema", "change", "get", "count", "rows", "columns"}
     \/ r \in done /\ op[r] # "put"
     => cfg[r] \in Configs
  /\ pc[r] \in {"schema", "change"} => ~Unsuitable(op[r], cfg[r])
  /\ pc[r] = "rows" /\ op[r] = "export" => count[r] <= MaxRows
  /\ answer[r] # "none" =>
       \/ pc[r] = "done"
       \/ answer[r] = "lost" /\ pc[r] \in {"upsert", "change", "audit"}
  /\ answer[r] = "ok" /\ op[r] \in Audited => r \in done
  /\ r \in done /\ op[r] \in Kinds => Fits(r)
  /\ \A q \in before[r] : answer[q] # "none"

DeletedBy(q, u) == q \in done /\ op[q] = "delete" /\ arg[q] = u

(* A user whom a request has deleted is gone, or was inserted again.       *)
DeleteStays(r) ==
  op[r] = "delete" /\ r \in done => table[arg[r]] = Absent \/ arg[r] \in added

(* ChangeHolds, from the change on and told or not; and if the row is not  *)
(* there, someone has deleted it.                                          *)
Overwritten(r) ==
  \E q \in Requests : /\ op[q] \in Kinds /\ MayFollow(q, r)
                      /\ arg[q] = arg[r] /\ ColumnOf(q) = ColumnOf(r)

ChangeStays(r) ==
  r \in done /\ op[r] \in Kinds /\ alive =>
    \/ Overwritten(r)
    \/ /\ table[arg[r]] = Absent \/ arg[r] \in added
       /\ \E q \in Requests : DeletedBy(q, arg[r])
    \/ /\ table[arg[r]] # Absent
       /\ table[arg[r]][ColumnOf(r)] = Asked(r)

(* PutHolds, from the UPSERT on, unless the client has left.               *)
PutStays(r) ==
  op[r] = "put" /\ r \in done /\ answer[r] # "lost" =>
    \/ \E q \in Requests : op[q] = "put" /\ MayFollow(q, r)
    \/ /\ config \in {arg[r], Absent}
       /\ \A q \in Requests : r \in before[q] => cfg[q] \in {arg[r], Absent}

Known ==
  /\ Trailed
  /\ Fields
  /\ \A r \in Requests : Informed(r) /\ DeleteStays(r) /\ ChangeStays(r) /\ PutStays(r)
  /\ DeletedOnce
  /\ ErrorExplained

(* What no step of any request, nor of anyone else, does to request q.     *)
Steady(q) ==
  /\ answer'[q] # answer[q] => answer[q] = "none" /\ pc[q] # "idle"
  /\ q \in done => q \in done'
  /\ pc[q] # "idle" => /\ pc'[q] # "idle" /\ op'[q] = op[q]
                       /\ arg'[q] = arg[q] /\ before'[q] = before[q]
  /\ pc[q] # "config" => cfg'[q] = cfg[q]

Frame(r) ==
  \A q \in Requests \ {r} :
    /\ pc'[q] = pc[q] /\ op'[q] = op[q] /\ arg'[q] = arg[q] /\ cfg'[q] = cfg[q]
    /\ count'[q] = count[q] /\ rows'[q] = rows[q] /\ answer'[q] = answer[q]
    /\ before'[q] = before[q] /\ (q \in done' <=> q \in done)

LEMMA StepFrame ==
  ASSUME Known, NEW r \in Requests, Arrive(r) \/ Proceed(r) \/ Disturb(r)
  PROVE  Frame(r) /\ Steady(r)
<1> USE DEF Known, Trailed, Typed, Fields, Frame, Steady
<1>1. Placed(r) /\ Informed(r) OBVIOUS
<1>2. ASSUME NEW o, NEW a, Receive(r, o, a) PROVE Frame(r) /\ Steady(r)
  BY <1>2 DEF Receive
<1>3. CASE Arrive(r) BY <1>2, <1>3 DEF Arrive
<1>4. CASE CheckProject(r) BY <1>4 DEF CheckProject, Respond, Continue, Running
<1>5. CASE Upsert(r) BY <1>5 DEF Upsert, Respond, Continue, Running
<1>6. CASE ReadConfig(r) BY <1>6 DEF ReadConfig, Respond, Continue, Running
<1>7. CASE ReadSchema(r) BY <1>7 DEF ReadSchema, Respond, Continue, Running
<1>8. CASE Change(r) BY <1>8 DEF Change, Respond, Continue, Running
<1>9. CASE GetUser(r) BY <1>9 DEF GetUser, Respond, Running
<1>10. CASE CountRows(r)
  BY <1>10 DEF CountRows, AfterCount, Respond, Continue, Running
<1>11. CASE ReadRows(r) BY <1>11 DEF ReadRows, Respond, Continue, Running
<1>12. CASE ReadColumns(r) BY <1>12 DEF ReadColumns, Respond, Running
<1>13. CASE Audit(r) BY <1>13 DEF Audit, Respond, Running
<1>14. CASE Abandon(r) BY <1>14 DEF Abandon, Running
<1>15. CASE NeverRuns(r) BY <1>15 DEF NeverRuns, Continue, Running
<1> QED
  BY <1>3, <1>4, <1>5, <1>6, <1>7, <1>8, <1>9, <1>10, <1>11, <1>12, <1>13, <1>14,
     <1>15 DEF Proceed, Disturb

LEMMA OtherFrame ==
  ASSUME Known, DeleteProject \/ (\E u \in Users : AddUser(u)) \/ UNCHANGED vars
  PROVE  UNCHANGED <<audit, pc, op, arg, cfg, count, rows, answer, done, before>>
BY DEF DeleteProject, AddUser, vars

LEMMA StepSteady ==
  ASSUME Known, [Next]_vars, NEW q \in Requests
  PROVE  Steady(q)
<1>1. ASSUME NEW r \in Requests, Arrive(r) \/ Proceed(r) \/ Disturb(r)
      PROVE  Steady(q)
  <2>1. CASE q = r BY <1>1, <2>1, StepFrame
  <2>2. CASE q # r BY <1>1, <2>2, StepFrame DEF Frame, Steady
  <2> QED BY <2>1, <2>2
<1>2. ASSUME DeleteProject \/ (\E u \in Users : AddUser(u)) \/ UNCHANGED vars
      PROVE  Steady(q)
  BY <1>2, OtherFrame DEF Steady
<1> QED BY <1>1, <1>2 DEF Next, Rest

(* Who acts in a step, and how.                                            *)
Acts(r) == r \in done' /\ r \notin done

LEMMA ActFacts ==
  ASSUME Known, [Next]_vars, NEW r \in Requests, Acts(r)
  PROVE  /\ done' = done \union {r} /\ alive' = alive /\ UNCHANGED <<op, arg, cfg, before, added>>
         /\ \A q \in Requests : q # r => answer'[q] = answer[q]
         /\ \/ op[r] = "put" /\ Upsert(r) /\ alive /\ config' = arg[r] /\ table' = table
            \/ /\ op[r] \in Changes /\ Change(r) /\ alive /\ config' = config
               /\ table[arg[r]] # Absent /\ table' = Changed(r)
               /\ op[r] # "delete" => Fits(r)
            \/ op[r] = "export" /\ ReadRows(r) /\ alive /\ config' = config /\ table' = table
<1>1. ASSUME NEW q \in Requests, Arrive(q) \/ Proceed(q) \/ Disturb(q) PROVE q = r
  BY <1>1, StepFrame DEF Frame, Acts
<1>2. ~(DeleteProject \/ (\E u \in Users : AddUser(u)) \/ UNCHANGED vars)
  BY OtherFrame DEF Acts
<1>3. Arrive(r) \/ Proceed(r) \/ Disturb(r) BY <1>1, <1>2 DEF Next, Rest
<1>4. Placed(r) BY DEF Known, Trailed
<1>5. \A q \in Requests : q # r => answer'[q] = answer[q] BY <1>3, StepFrame DEF Frame
<1>6. Upsert(r) \/ Change(r) \/ ReadRows(r)
  BY <1>3 DEF Acts, Arrive, Receive, Proceed, Disturb, CheckProject, ReadConfig, ReadSchema,
              GetUser, CountRows, ReadColumns, Audit, Abandon, NeverRuns
<1>7. CASE Upsert(r)
  <2>1. op[r] = "put" BY <1>4, <1>7 DEF Upsert, Placed
  <2> QED BY <1>5, <1>7, <2>1 DEF Upsert, Upserted, Acts
<1>8. CASE Change(r)
  <2>1. op[r] \in Changes BY <1>4, <1>8 DEF Change, Placed
  <2> QED BY <1>5, <1>8, <2>1 DEF Change, Acts, NoTable, NoRow
<1>9. CASE ReadRows(r)
  <2>1. op[r] = "export" BY <1>9 DEF ReadRows, Acts
  <2> QED BY <1>5, <1>9, <2>1 DEF ReadRows, Acts, NoTable
<1> QED BY <1>6, <1>7, <1>8, <1>9

(* What becomes of a row and of the configuration.                         *)
LEMMA RowFacts ==
  ASSUME Known, [Next]_vars, NEW u \in Users
  PROVE  \/ table'[u] = table[u]
         \/ ~alive' /\ table'[u] = Absent
         \/ table[u] = Absent /\ u \notin added /\ u \in added' /\ done' = done
         \/ \E r \in Requests : Acts(r) /\ op[r] \in Changes /\ arg[r] = u
<1>1. CASE table' = table BY <1>1
<1>2. ASSUME NEW r \in Requests, Change(r), table' = Changed(r), r \in done'
      PROVE  table'[u] = table[u] \/ (Acts(r) /\ op[r] \in Changes /\ arg[r] = u)
  <2>1. op[r] \in Changes /\ r \notin done BY <1>2 DEF Known, Trailed, Placed, Change
  <2>2. arg[r] # u => table'[u] = table[u] BY <1>2 DEF Changed, Touched
  <2>3. Acts(r) BY <1>2, <2>1 DEF Acts
  <2> QED BY <2>1, <2>2, <2>3
<1>3. ASSUME NEW v \in Users, AddUser(v)
      PROVE  \/ table'[u] = table[u]
             \/ table[u] = Absent /\ u \notin added /\ u \in added' /\ done' = done
  BY <1>3 DEF AddUser, Known, Fields
<1>4. CASE DeleteProject BY <1>4 DEF DeleteProject
<1>5. table' = table
      \/ (\E r \in Requests : Change(r) /\ table' = Changed(r) /\ r \in done')
      \/ (\E v \in Users : AddUser(v)) \/ DeleteProject
  BY DEF Next, Rest, vars, Arrive, Receive, Proceed, Disturb, CheckProject, Upsert, ReadConfig,
         ReadSchema, Change, GetUser, CountRows, ReadRows, ReadColumns, Audit, Abandon, NeverRuns
<1> QED BY <1>1, <1>2, <1>3, <1>4, <1>5

LEMMA ConfigFacts ==
  ASSUME Known, [Next]_vars
  PROVE  \/ config' = config
         \/ config' = Absent
         \/ \E r \in Requests : Acts(r) /\ op[r] = "put"
<1>1. ASSUME NEW r \in Requests, Upsert(r), config' # config PROVE Acts(r) /\ op[r] = "put"
  BY <1>1 DEF Upsert, Acts, Known, Trailed, Placed
<1> QED
  BY <1>1 DEF Next, Rest, vars, Arrive, Receive, Proceed, Disturb, CheckProject, ReadConfig,
         ReadSchema, Change, GetUser, CountRows, ReadRows, ReadColumns, Audit, Abandon, NeverRuns,
         AddUser, DeleteProject

LEMMA ChangedTyped ==
  ASSUME Known, NEW r \in Requests, op[r] \in Changes
  PROVE  Changed(r) \in [Users -> [Columns -> Values] \union {Absent}]
<1>1. table \in [Users -> [Columns -> Values] \union {Absent}]
  BY DEF Known, Fields
<1>2. ValueOf(r) \in Values BY DEF ValueOf, Values
<1>3. ASSUME NEW u \in Users, table[u] # Absent
      PROVE  [table[u] EXCEPT ![ColumnOf(r)] = ValueOf(r)] \in [Columns -> Values]
  BY <1>1, <1>2, <1>3
<1> QED BY <1>1, <1>3 DEF Changed

LEMMA PresentFinite ==
  IsFiniteSet(Present) /\ Cardinality(Present) \in Nat
BY UsersAssumption, FS_Subset, FS_CardinalityType DEF Present

LEMMA StepFields ==
  ASSUME Known, [Next]_vars
  PROVE  Fields'
<1> USE DEF Known, Fields
<1>1. \A r \in Requests : Informed(r) /\ Placed(r) BY DEF Trailed
<1>2. Fresh \in [Columns -> Values] BY DEF Fresh, Values
<1>3. ASSUME NEW r \in Requests, Arrive(r) PROVE Fields'
  BY <1>3 DEF Arrive, Receive, Readings, Changes, Present
<1>4. ASSUME NEW r \in Requests,
             CheckProject(r) \/ ReadSchema(r) \/ GetUser(r) \/ ReadColumns(r) \/ Audit(r) \/ Disturb(r)
      PROVE  Fields'
  <2>1. UNCHANGED <<alive, config, table, op, arg, cfg, count, rows, done, before, added>>
    BY <1>4 DEF CheckProject, ReadSchema, GetUser, ReadColumns, Audit, Disturb, Abandon, NeverRuns
  <2> QED BY <2>1 DEF Present
<1>5. ASSUME NEW r \in Requests, Upsert(r) PROVE Fields'
  <2>1. arg[r] \in Configs BY <1>1, <1>5 DEF Upsert, Placed, Informed
  <2> QED BY <1>5, <2>1 DEF Upsert, Upserted, Present
<1>6. ASSUME NEW r \in Requests, ReadConfig(r) PROVE Fields'
  BY <1>6 DEF ReadConfig, Present
<1>7. ASSUME NEW r \in Requests, Change(r) PROVE Fields'
  <2>1. op[r] \in Changes BY <1>1, <1>7 DEF Change, Placed
  <2>2. table' \in [Users -> [Columns -> Values] \union {Absent}]
    BY <1>7, <2>1, ChangedTyped DEF Change
  <2>3. ~alive => table' = table BY <1>7 DEF Change, NoTable
  <2> QED BY <1>7, <2>2, <2>3 DEF Change, Present
<1>8. ASSUME NEW r \in Requests, CountRows(r) PROVE Fields'
  BY <1>8, PresentFinite DEF CountRows, Present
<1>9. ASSUME NEW r \in Requests, ReadRows(r) PROVE Fields'
  <2>1. rows' \in [Requests -> SUBSET Users]
    <3>1. rows' = rows \/ \E page \in SUBSET Present : rows' = [rows EXCEPT ![r] = page]
      BY <1>9 DEF ReadRows
    <3>2. \A page \in SUBSET Present : page \in SUBSET Users BY DEF Present
    <3> QED BY <3>1, <3>2
  <2> QED BY <1>9, <2>1 DEF ReadRows, Present
<1>10. ASSUME NEW u \in Users, AddUser(u) PROVE Fields'
  BY <1>2, <1>10 DEF AddUser, Present
<1>11. ASSUME DeleteProject PROVE Fields' BY <1>11 DEF DeleteProject, Present
<1>12. ASSUME UNCHANGED vars PROVE Fields' BY <1>12 DEF vars, Present
<1> QED
  BY <1>3, <1>4, <1>5, <1>6, <1>7, <1>8, <1>9, <1>10, <1>11, <1>12 DEF Next, Rest, Proceed

LEMMA OwnInformed ==
  ASSUME Known, NEW r \in Requests, Arrive(r) \/ Proceed(r) \/ Disturb(r),
         \A q \in Requests : Steady(q)
  PROVE  Informed(r)'
<1>1. /\ Informed(r) /\ Placed(r) /\ Typed /\ Fields
      /\ pc[r] # "done" /\ pc[r] # "idle" => Running(r) \/ answer[r] = "lost"
  BY DEF Known, Trailed, Running, Informed
<1>2. \A q \in before[r] : answer'[q] # "none"
  BY <1>1 DEF Informed, Steady, Fields
<1>3. before'[r] = before[r] \/ \E o, a : Receive(r, o, a)
  BY DEF Arrive, Proceed, Disturb, CheckProject, Upsert, ReadConfig, ReadSchema, Change, GetUser,
         CountRows, ReadRows, ReadColumns, Audit, Abandon, NeverRuns
<1>4. ASSUME NEW o \in Operations, NEW a, Receive(r, o, a),
             o = "put" => a \in Configs, o \in Changes \union {"get"} => a \in Users
      PROVE  Informed(r)'
  <2>1. /\ op'[r] = o /\ arg'[r] = a /\ answer'[r] = answer[r] /\ done' = done
        /\ before'[r] = {q \in Requests : answer[q] # "none"}
        /\ pc[r] = "idle" /\ pc'[r] \in {"exists", "config"} /\ answer' = answer
    BY <1>1, <1>4 DEF Receive, Typed, Fields
  <2>2. answer[r] = "none" /\ r \notin done BY <1>1, <2>1 DEF Placed
  <2> QED BY <1>4, <2>1, <2>2 DEF Informed
<1>5. CASE Arrive(r)
  <2>1. PICK o, a : /\ o \in Operations /\ Receive(r, o, a)
                    /\ o = "put" => a \in Configs
                    /\ o \in Changes \union {"get"} => a \in Users
    BY <1>5 DEF Arrive, Changes
  <2> QED BY <1>4, <2>1
<1>6. ASSUME UNCHANGED <<op, arg, cfg, done, before>>, pc'[r] = "done" \/ UNCHANGED <<pc, count>>,
             pc'[r] # "done" => answer'[r] = answer[r] \/ answer'[r] = "lost",
             pc'[r] # "done" => pc[r] \in {"upsert", "change", "audit"},
             pc[r] # "idle",
             answer'[r] = "ok" => answer[r] = "ok" \/ op[r] \notin Audited \/ r \in done
      PROVE  Informed(r)'
  <2>1. Fits(r)' = Fits(r) BY <1>6 DEF Fits, ColumnOf
  <2> QED BY <1>1, <1>2, <1>6, <2>1 DEF Informed, Running
<1>7. CASE CheckProject(r)
  <2>1. answer[r] = "none" BY <1>1, <1>7 DEF CheckProject, Informed
  <2>2. /\ op[r] = "put" /\ UNCHANGED <<op, arg, cfg, done, before>>
        /\ \/ pc'[r] = "done" /\ answer'[r] # "ok"
           \/ pc'[r] = "upsert" /\ answer'[r] = "none"
    BY <1>1, <1>7, <2>1 DEF CheckProject, Respond, Continue, Running, Typed, Placed
  <2>3. r \notin done BY <1>1, <1>7 DEF CheckProject, Placed
  <2> QED BY <1>1, <1>2, <2>2, <2>3 DEF Informed
<1>8. CASE Upsert(r)
  <2>1. answer[r] \in {"none", "lost"} /\ op[r] = "put" /\ UNCHANGED <<op, arg, cfg, before>>
    BY <1>1, <1>8 DEF Upsert, Informed, Placed
  <2>2. \/ pc'[r] = "done" /\ answer'[r] # "ok"
        \/ pc'[r] = "audit" /\ answer'[r] = answer[r]
    BY <1>1, <1>8, <2>1 DEF Upsert, Respond, Continue, Running, Typed
  <2> QED BY <1>1, <1>2, <2>1, <2>2 DEF Informed, Kinds, Changes, Audited
<1>9. CASE ReadConfig(r)
  <2>1. answer[r] = "none" /\ r \notin done /\ UNCHANGED <<op, arg, done, before>>
    BY <1>1, <1>9 DEF ReadConfig, Informed, Placed
  <2>2. \/ pc'[r] = "done" /\ (answer'[r] = "ok" => op[r] = "config")
        \/ /\ pc'[r] = "schema" /\ answer'[r] = "none"
           /\ cfg'[r] \in Configs /\ ~Unsuitable(op[r], cfg'[r])
    BY <1>1, <1>9, <2>1 DEF ReadConfig, Respond, Continue, Running, Typed, Fields
  <2> QED BY <1>1, <1>2, <2>1, <2>2 DEF Informed, Audited, Changes
<1>10. CASE ReadSchema(r)
  <2>1. /\ answer[r] = "none" /\ r \notin done /\ UNCHANGED <<op, arg, cfg, done, before>>
        /\ cfg[r] \in Configs /\ ~Unsuitable(op[r], cfg[r])
    BY <1>1, <1>10 DEF ReadSchema, Informed, Placed
  <2>2. \/ pc'[r] = "done" /\ answer'[r] # "ok"
        \/ pc'[r] \in {"change", "get", "count"} /\ answer'[r] = "none"
    BY <1>1, <1>10, <2>1 DEF ReadSchema, Respond, Continue, Running, Typed
  <2> QED BY <1>1, <1>2, <2>1, <2>2 DEF Informed
<1>11. CASE Change(r)
  <2>1. /\ answer[r] \in {"none", "lost"} /\ op[r] \in Changes /\ cfg[r] \in Configs
        /\ UNCHANGED <<op, arg, cfg, before>>
    BY <1>1, <1>11 DEF Change, Informed, Placed
  <2>2. \/ pc'[r] = "done" /\ answer'[r] # "ok" /\ done' = done
        \/ /\ \/ pc'[r] = "audit" /\ answer'[r] = answer[r]
              \/ pc'[r] = "done" /\ answer'[r] = "lost"
           /\ op[r] # "delete" => Fits(r)
    <3>1. \/ done' = done /\ \E a \in {"error", "not found"} : Respond(r, a)
          \/ Continue(r, "audit") /\ (op[r] # "delete" => Fits(r))
      BY <1>11 DEF Change
    <3>2. pc[r] = "change" BY <1>11 DEF Change
    <3>3. CASE done' = done /\ \E a \in {"error", "not found"} : Respond(r, a)
      BY <1>1, <2>1, <3>2, <3>3 DEF Respond, Typed
    <3>4. CASE Continue(r, "audit") /\ (op[r] # "delete" => Fits(r))
      <4>1. answer'[r] = answer[r] BY <3>4 DEF Continue
      <4>2. pc'[r] \in {"audit", "done"} BY <1>1, <3>4 DEF Continue, Typed
      <4>3. pc'[r] = "done" => answer[r] = "lost"
        BY <1>1, <2>1, <3>2, <3>4 DEF Continue, Running, Typed
      <4> QED BY <3>4, <4>1, <4>2, <4>3
    <3> QED BY <3>1, <3>3, <3>4
  <2>3. Fits(r)' = Fits(r) BY <2>1 DEF Fits, ColumnOf
  <2>4. r \notin done BY <1>1, <1>11 DEF Change, Placed
  <2>5. op[r] \notin {"put", "get", "export"} BY <2>1 DEF Changes
  <2> QED BY <1>1, <1>2, <2>1, <2>2, <2>3, <2>4, <2>5 DEF Informed, Kinds
<1>12. CASE GetUser(r)
  <2>1. answer[r] = "none" /\ op[r] = "get" BY <1>1, <1>12 DEF GetUser, Informed, Placed
  <2>2. pc'[r] = "done" BY <1>1, <1>12 DEF GetUser, Respond, Typed
  <2> QED BY <1>6, <1>12, <2>1, <2>2 DEF GetUser, Audited, Changes
<1>13. CASE CountRows(r)
  <2>1. /\ answer[r] = "none" /\ r \notin done /\ UNCHANGED <<op, arg, cfg, done, before>>
        /\ cfg[r] \in Configs /\ op[r] \in {"list", "export"}
    BY <1>1, <1>13 DEF CountRows, Informed, Placed
  <2>2. \/ pc'[r] = "done" /\ answer'[r] # "ok"
        \/ /\ pc'[r] = "rows" /\ answer'[r] = "none"
           /\ count'[r] = Cardinality(Present) /\ ~TooMany(op[r], Cardinality(Present))
    BY <1>1, <1>13, <2>1
       DEF CountRows, AfterCount, Respond, Continue, Running, Typed, Fields
  <2>3. pc'[r] = "rows" /\ op[r] = "export" => count'[r] <= MaxRows
    BY <2>2, PresentFinite, OperationsAssumption DEF TooMany
  <2> QED BY <1>1, <1>2, <2>1, <2>2, <2>3 DEF Informed
<1>14. CASE ReadRows(r)
  <2>1. /\ answer[r] = "none" /\ UNCHANGED <<op, arg, cfg, before>>
        /\ cfg[r] \in Configs /\ op[r] \in {"list", "export"}
    BY <1>1, <1>14 DEF ReadRows, Informed, Placed
  <2>2. \/ pc'[r] = "done" /\ answer'[r] # "ok"
        \/ pc'[r] \in {"audit", "columns"} /\ answer'[r] = "none"
    BY <1>1, <1>14, <2>1 DEF ReadRows, Respond, Continue, Running, Typed
  <2> QED BY <1>1, <1>2, <2>1, <2>2 DEF Informed, Kinds, Changes
<1>15. CASE ReadColumns(r)
  <2>1. answer[r] = "none" /\ op[r] = "list" BY <1>1, <1>15 DEF ReadColumns, Informed, Placed
  <2>2. pc'[r] = "done" BY <1>1, <1>15 DEF ReadColumns, Respond, Typed
  <2> QED BY <1>6, <1>15, <2>1, <2>2 DEF ReadColumns, Audited, Changes
<1>16. CASE Audit(r)
  <2>1. r \in done BY <1>1, <1>16 DEF Audit, Placed
  <2>2. pc'[r] = "done" BY <1>1, <1>16 DEF Audit, Respond, Typed
  <2> QED BY <1>6, <1>16, <2>1, <2>2 DEF Audit
<1>17. CASE Abandon(r)
  <2>1. /\ answer'[r] = "lost" /\ pc[r] # "idle"
        /\ \/ pc[r] \in {"upsert", "change", "audit"} /\ pc' = pc
           \/ pc'[r] = "done"
    BY <1>1, <1>17 DEF Abandon, Running, Typed
  <2> QED BY <1>6, <1>17, <2>1 DEF Abandon
<1>18. CASE NeverRuns(r)
  <2>1. pc'[r] = "done" /\ answer' = answer
    BY <1>1, <1>18 DEF NeverRuns, Continue, Typed
  <2> QED BY <1>6, <1>18, <2>1 DEF NeverRuns
<1> QED
  BY <1>5, <1>7, <1>8, <1>9, <1>10, <1>11, <1>12, <1>13, <1>14, <1>15, <1>16, <1>17, <1>18
     DEF Proceed, Disturb

LEMMA StepInformed ==
  ASSUME Known, [Next]_vars, NEW q \in Requests
  PROVE  Informed(q)'
<1>1. Informed(q) /\ before[q] \subseteq Requests BY DEF Known, Fields
<1>2. \A x \in Requests : Steady(x) BY StepSteady
<1>3. ASSUME UNCHANGED <<pc[q], op[q], arg[q], cfg[q], count[q], answer[q], before[q]>>,
             q \in done' <=> q \in done
      PROVE  Informed(q)'
  <2>1. \A x \in before[q] : answer'[x] # "none"
    BY <1>1, <1>2 DEF Informed, Steady
  <2>2. Fits(q)' <=> Fits(q) BY <1>3 DEF Fits, ColumnOf
  <2> QED BY <1>1, <1>3, <2>1, <2>2 DEF Informed
<1>4. ASSUME NEW r \in Requests, Arrive(r) \/ Proceed(r) \/ Disturb(r)
      PROVE  Informed(q)'
  <2>1. CASE q = r BY <1>2, <1>4, <2>1, OwnInformed
  <2>2. CASE q # r BY <1>3, <1>4, <2>2, StepFrame DEF Frame
  <2> QED BY <2>1, <2>2
<1>5. ASSUME DeleteProject \/ (\E u \in Users : AddUser(u)) \/ UNCHANGED vars
      PROVE  Informed(q)'
  BY <1>3, <1>5, OtherFrame
<1> QED BY <1>4, <1>5 DEF Next, Rest

LEMMA OnlyGrows ==
  ASSUME Known, [Next]_vars
  PROVE  added \subseteq added' /\ (alive' => alive)
<1>1. ASSUME NEW r \in Requests, Arrive(r) \/ Proceed(r) \/ Disturb(r)
      PROVE  UNCHANGED <<alive, added>>
  BY <1>1
     DEF Arrive, Receive, Proceed, Disturb, CheckProject, Upsert, ReadConfig, ReadSchema,
         Change, GetUser, CountRows, ReadRows, ReadColumns, Audit, Abandon, NeverRuns
<1>2. ASSUME NEW u \in Users, AddUser(u) PROVE added \subseteq added' /\ (alive' => alive)
  BY <1>2 DEF AddUser
<1>3. ASSUME DeleteProject PROVE added \subseteq added' /\ (alive' => alive)
  BY <1>3 DEF DeleteProject
<1>4. ASSUME UNCHANGED vars PROVE UNCHANGED <<alive, added>> BY <1>4 DEF vars
<1> QED BY <1>1, <1>2, <1>3, <1>4 DEF Next, Rest

LEMMA CfgFacts ==
  ASSUME Known, [Next]_vars, NEW q \in Requests
  PROVE  cfg'[q] = cfg[q] \/ cfg'[q] = config
<1>1. ASSUME NEW r \in Requests, ReadConfig(r) PROVE cfg'[q] = cfg[q] \/ cfg'[q] = config
  BY <1>1 DEF ReadConfig, Known, Fields
<1> QED
  BY <1>1 DEF Next, Rest, vars, Arrive, Receive, Proceed, Disturb, CheckProject, Upsert,
         ReadSchema, Change, GetUser, CountRows, ReadRows, ReadColumns, Audit, Abandon, NeverRuns,
         AddUser, DeleteProject

(* A request that has had its effect stays what it is.                     *)
LEMMA DoneStays ==
  ASSUME Known, [Next]_vars, NEW r \in Requests, r \in done
  PROVE  /\ r \in done' /\ pc[r] # "idle"
         /\ op'[r] = op[r] /\ arg'[r] = arg[r] /\ cfg'[r] = cfg[r] /\ before'[r] = before[r]
<1>1. Placed(r) BY DEF Known, Trailed
<1>2. pc[r] \notin {"idle", "config"} BY <1>1 DEF Placed
<1> QED BY <1>2, StepSteady DEF Steady

LEMMA MayFollowStays ==
  ASSUME Known, [Next]_vars, NEW q \in Requests, NEW r \in Requests, pc[r] # "idle",
         MayFollow(q, r)
  PROVE  MayFollow(q, r)'
<1>1. q \in done' BY StepSteady DEF MayFollow, Steady
<1>2. before'[r] = before[r] BY StepSteady DEF Steady
<1>3. answer[q] = "lost" => answer'[q] = "lost" BY StepSteady DEF Steady
<1> QED BY <1>1, <1>2, <1>3 DEF MayFollow

(* Whoever acts after r has had its effect was not over when r arrived, or *)
(* had lost its client by then.                                            *)
LEMMA LaterFollows ==
  ASSUME Known, [Next]_vars, NEW q \in Requests, NEW r \in Requests,
         Acts(q), op[q] # "export", r # q, pc[r] # "idle"
  PROVE  MayFollow(q, r)'
<1>1. pc[q] \in {"upsert", "change"} BY ActFacts DEF Upsert, Change
<1>2. answer[q] # "none" => answer[q] = "lost" /\ answer'[q] = "lost"
  BY <1>1, StepSteady DEF Known, Informed, Steady
<1>3. q \in before[r] => answer[q] # "none" BY DEF Known, Informed
<1>4. before'[r] = before[r] BY StepSteady DEF Steady
<1> QED BY <1>2, <1>3, <1>4 DEF MayFollow, Acts

LEMMA StepDelete ==
  ASSUME Known, [Next]_vars, NEW r \in Requests
  PROVE  DeleteStays(r)'
<1> SUFFICES ASSUME op'[r] = "delete", r \in done'
             PROVE  table'[arg'[r]] = Absent \/ arg'[r] \in added'
  BY DEF DeleteStays
<1>1. CASE Acts(r)
  <2>1. /\ op[r] = "delete" /\ arg'[r] = arg[r] /\ table' = Changed(r)
        /\ table[arg[r]] # Absent
    BY <1>1, ActFacts DEF Changes
  <2>2. arg[r] \in Users BY <2>1 DEF Known, Informed, Changes
  <2> QED BY <2>1, <2>2 DEF Changed, Touched
<1>2. CASE ~Acts(r)
  <2>1. r \in done BY <1>2 DEF Acts
  <2>2. op[r] = "delete" /\ arg'[r] = arg[r] BY <2>1, DoneStays
  <2>3. arg[r] \in Users /\ DeleteStays(r) BY <2>2 DEF Known, Informed, Changes
  <2>4. table[arg[r]] = Absent \/ arg[r] \in added BY <2>1, <2>2, <2>3 DEF DeleteStays
  <2>5. ASSUME NEW q \in Requests, Acts(q), op[q] \in Changes, arg[q] = arg[r]
        PROVE  arg[r] \in added
    <3>1. table[arg[q]] # Absent BY <2>5, ActFacts DEF Changes
    <3> QED BY <2>4, <2>5, <3>1
  <2> QED BY <2>2, <2>3, <2>4, <2>5, RowFacts, OnlyGrows
<1> QED BY <1>1, <1>2

LEMMA StepDeletedOnce ==
  ASSUME Known, [Next]_vars
  PROVE  DeletedOnce'
<1>1. ASSUME NEW r \in Requests, NEW q \in Requests, r # q, op'[r] = "delete", op'[q] = "delete",
             arg'[r] = arg'[q], Acts(r), q \in done'
      PROVE  arg'[r] \in added'
  <2>1. /\ op[r] = "delete" /\ arg'[r] = arg[r] /\ table[arg[r]] # Absent
        /\ done' = done \union {r}
    BY <1>1, ActFacts DEF Changes
  <2>2. q \in done BY <1>1, <2>1
  <2>3. op[q] = "delete" /\ arg'[q] = arg[q] BY <1>1, <2>2, DoneStays
  <2>4. DeleteStays(q) BY DEF Known
  <2> QED BY <1>1, <2>1, <2>2, <2>3, <2>4, OnlyGrows DEF DeleteStays
<1>2. ASSUME NEW r \in Requests, NEW q \in Requests, r # q, op'[r] = "delete", op'[q] = "delete",
             arg'[r] = arg'[q], r \in done, q \in done
      PROVE  arg'[r] \in added'
  <2>1. /\ op[r] = "delete" /\ arg'[r] = arg[r]
        /\ op[q] = "delete" /\ arg'[q] = arg[q]
    BY <1>2, DoneStays
  <2>2. arg[r] \in added BY <1>2, <2>1 DEF Known, DeletedOnce
  <2> QED BY <2>1, <2>2, OnlyGrows
<1> SUFFICES ASSUME NEW r \in Requests, NEW q \in Requests, r # q,
                    op'[r] = "delete", op'[q] = "delete", arg'[r] = arg'[q],
                    r \in done', q \in done'
             PROVE  arg'[r] \in added'
  BY DEF DeletedOnce
<1>3. CASE Acts(r) BY <1>1, <1>3
<1>4. CASE Acts(q) BY <1>1, <1>4
<1> QED BY <1>2, <1>3, <1>4 DEF Acts

LEMMA DeletedByStays ==
  ASSUME Known, [Next]_vars, NEW u, \E q \in Requests : DeletedBy(q, u)
  PROVE  \E q \in Requests : DeletedBy(q, u)'
<1>1. PICK q \in Requests : DeletedBy(q, u) OBVIOUS
<1>2. DeletedBy(q, u)' BY <1>1, DoneStays DEF DeletedBy
<1> QED BY <1>2

LEMMA OverwrittenStays ==
  ASSUME Known, [Next]_vars, NEW r \in Requests, r \in done, Overwritten(r)
  PROVE  Overwritten(r)'
<1>1. PICK q \in Requests : /\ op[q] \in Kinds /\ MayFollow(q, r)
                            /\ arg[q] = arg[r] /\ ColumnOf(q) = ColumnOf(r)
  BY DEF Overwritten
<1>2. q \in done BY <1>1 DEF MayFollow
<1>3. /\ op'[q] = op[q] /\ arg'[q] = arg[q] /\ cfg'[q] = cfg[q]
      /\ op'[r] = op[r] /\ arg'[r] = arg[r] /\ cfg'[r] = cfg[r] /\ pc[r] # "idle"
  BY <1>2, DoneStays
<1>4. ColumnOf(q)' = ColumnOf(r)' BY <1>1, <1>3 DEF ColumnOf
<1>5. MayFollow(q, r)' BY <1>1, <1>3, MayFollowStays
<1> QED BY <1>1, <1>3, <1>4, <1>5 DEF Overwritten

(* What a ban, an unban or a reset leaves in the row.                      *)
LEMMA ChangedRow ==
  ASSUME Known, [Next]_vars, NEW r \in Requests, Acts(r), op[r] \in Kinds
  PROVE  /\ arg[r] \in Users /\ ColumnOf(r) \in Columns
         /\ table[arg[r]] \in [Columns -> Values]
         /\ table'[arg[r]] = [table[arg[r]] EXCEPT ![ColumnOf(r)] = Asked(r)]
         /\ table'[arg[r]] # Absent
<1>1. op[r] \in Changes /\ op[r] # "delete" /\ op[r] \notin {"put", "export"}
  BY DEF Kinds, Changes
<1>2. table[arg[r]] # Absent /\ table' = Changed(r) /\ Fits(r)
  BY <1>1, ActFacts
<1>3. arg[r] \in Users BY <1>1 DEF Known, Informed
<1>4. ColumnOf(r) \in Columns BY <1>2 DEF Fits, Columns
<1>5. table[arg[r]] \in [Columns -> Values] BY <1>2, <1>3 DEF Known, Fields
<1>6. Asked(r) = ValueOf(r) /\ ValueOf(r) \in Values
  BY DEF Asked, ValueOf, Kinds, Values
<1>7. table'[arg[r]] = [table[arg[r]] EXCEPT ![ColumnOf(r)] = Asked(r)]
  BY <1>1, <1>2, <1>3, <1>6 DEF Changed, Touched
<1>8. table'[arg[r]] \in [Columns -> Values] BY <1>5, <1>6, <1>7
<1>9. table'[arg[r]] # Absent BY <1>8, SentinelAssumption DEF Values
<1> QED BY <1>3, <1>4, <1>5, <1>7, <1>9

LEMMA StepChange ==
  ASSUME Known, [Next]_vars, NEW r \in Requests
  PROVE  ChangeStays(r)'
<1> SUFFICES ASSUME r \in done', op'[r] \in Kinds, alive' PROVE ChangeStays(r)'
  BY DEF ChangeStays
<1>1. alive BY OnlyGrows
<1>2. CASE Acts(r)
  <2>1. UNCHANGED <<op, arg, cfg>> BY <1>2, ActFacts
  <2>2. /\ ColumnOf(r) \in Columns /\ table[arg[r]] \in [Columns -> Values]
        /\ table'[arg[r]] = [table[arg[r]] EXCEPT ![ColumnOf(r)] = Asked(r)]
        /\ table'[arg[r]] # Absent
    BY <1>2, <2>1, ChangedRow
  <2>3. table'[arg[r]][ColumnOf(r)] = Asked(r) BY <2>2
  <2>4. ColumnOf(r)' = ColumnOf(r) /\ Asked(r)' = Asked(r) BY <2>1 DEF ColumnOf, Asked
  <2> QED BY <2>1, <2>2, <2>3, <2>4 DEF ChangeStays
<1>3. CASE ~Acts(r)
  <2>1. r \in done BY <1>3 DEF Acts
  <2>10. PICK u \in Users : u = arg[r]
    BY <2>1, DoneStays DEF Known, Informed, Kinds, Changes
  <2>2. /\ op'[r] = op[r] /\ arg[r] = u /\ arg'[r] = u /\ cfg'[r] = cfg[r]
        /\ pc[r] # "idle"
    BY <2>10, <2>1, DoneStays
  <2>3. ColumnOf(r)' = ColumnOf(r) /\ Asked(r)' = Asked(r) BY <2>2 DEF ColumnOf, Asked
  <2>4. u \in Users /\ ColumnOf(r) \in Columns
    BY <2>1, <2>2 DEF Known, Informed, Kinds, Changes, Fits, Columns
  <2>5. \/ Overwritten(r)
        \/ /\ table[u] = Absent \/ u \in added
           /\ \E q \in Requests : DeletedBy(q, u)
        \/ table[u] # Absent /\ table[u][ColumnOf(r)] = Asked(r)
    BY <1>1, <2>1, <2>2 DEF Known, ChangeStays
  <2>6. CASE Overwritten(r) BY <2>1, <2>6, OverwrittenStays DEF ChangeStays
  <2>7. CASE /\ table[u] = Absent \/ u \in added
             /\ \E q \in Requests : DeletedBy(q, u)
    <3>1. \E q \in Requests : DeletedBy(q, u)' BY <2>7, DeletedByStays
    <3>2. table'[u] = Absent \/ u \in added'
      <4>1. ASSUME NEW q \in Requests, Acts(q), op[q] \in Changes, arg[q] = u
            PROVE  u \in added
        <5>1. table[arg[q]] # Absent BY <4>1, ActFacts DEF Changes
        <5> QED BY <2>7, <4>1, <5>1
      <4> QED BY <2>4, <2>7, <4>1, RowFacts, OnlyGrows
    <3> QED BY <2>2, <3>1, <3>2 DEF ChangeStays, DeletedBy
  <2>8. CASE table[u] # Absent /\ table[u][ColumnOf(r)] = Asked(r)
    <3>1. CASE table'[u] = table[u] BY <2>2, <2>3, <2>8, <3>1 DEF ChangeStays
    <3>2. ASSUME NEW q \in Requests, Acts(q), op[q] \in Changes, arg[q] = u
          PROVE  ChangeStays(r)'
      <4>1. q # r /\ UNCHANGED <<op, arg, cfg>> /\ q \in done'
        BY <2>1, <3>2, ActFacts DEF Acts
      <4>2. CASE op[q] = "delete"
        <5>1. table' = Changed(q) BY <3>2, <4>2, ActFacts DEF Changes
        <5>2. table'[u] = Absent BY <2>4, <3>2, <4>2, <5>1 DEF Changed, Touched
        <5>3. DeletedBy(q, u)' BY <3>2, <4>1, <4>2 DEF DeletedBy
        <5> QED BY <2>2, <5>2, <5>3 DEF ChangeStays, DeletedBy
      <4>3. CASE op[q] \in Kinds
        <5>1. /\ ColumnOf(q) \in Columns /\ table[u] \in [Columns -> Values]
              /\ table'[u] = [table[u] EXCEPT ![ColumnOf(q)] = Asked(q)]
              /\ table'[u] # Absent
          BY <3>2, <4>3, ChangedRow
        <5>2. CASE ColumnOf(q) = ColumnOf(r)
          <6>1. MayFollow(q, r)'
            BY <2>2, <3>2, <4>1, <4>3, LaterFollows DEF Kinds
          <6>2. ColumnOf(q)' = ColumnOf(r)' BY <2>3, <4>1, <5>2 DEF ColumnOf
          <6>3. op'[q] \in Kinds /\ arg'[q] = arg'[r] BY <2>2, <3>2, <4>1, <4>3
          <6>4. Overwritten(r)' BY <6>1, <6>2, <6>3 DEF Overwritten
          <6> QED BY <6>4 DEF ChangeStays
        <5>3. CASE ColumnOf(q) # ColumnOf(r)
          <6>1. table'[u][ColumnOf(r)] = table[u][ColumnOf(r)]
            BY <2>4, <5>1, <5>3
          <6> QED BY <2>2, <2>3, <2>8, <5>1, <6>1 DEF ChangeStays
        <5> QED BY <5>2, <5>3
      <4> QED BY <3>2, <4>2, <4>3 DEF Changes, Kinds
    <3> QED BY <2>4, <2>8, <3>1, <3>2, RowFacts
  <2> QED BY <2>5, <2>6, <2>7, <2>8
<1> QED BY <1>2, <1>3

LEMMA StepPut ==
  ASSUME Known, [Next]_vars, NEW r \in Requests
  PROVE  PutStays(r)'
<1> SUFFICES ASSUME op'[r] = "put", r \in done', answer'[r] # "lost" PROVE PutStays(r)'
  BY DEF PutStays
<1>1. answer[r] # "lost" BY StepSteady DEF Steady
<1>2. CASE Acts(r)
  <2>1. UNCHANGED <<op, arg, cfg, before>> BY <1>2, ActFacts
  <2>2. Upsert(r) /\ config' = arg[r] BY <1>2, <2>1, ActFacts DEF Changes
  <2>3. answer[r] = "none" BY <1>1, <2>2 DEF Known, Informed, Upsert
  <2>4. \A q \in Requests : r \notin before[q] BY <2>3 DEF Known, Informed
  <2> QED BY <2>1, <2>2, <2>4 DEF PutStays
<1>3. CASE ~Acts(r)
  <2>1. r \in done BY <1>3 DEF Acts
  <2>2. op[r] = "put" /\ arg'[r] = arg[r] /\ pc[r] # "idle" BY <2>1, DoneStays
  <2>3. \/ \E q \in Requests : op[q] = "put" /\ MayFollow(q, r)
        \/ /\ config \in {arg[r], Absent}
           /\ \A q \in Requests : r \in before[q] => cfg[q] \in {arg[r], Absent}
    BY <1>1, <2>1, <2>2 DEF Known, PutStays
  <2>4. ASSUME NEW q \in Requests, op[q] = "put", MayFollow(q, r) PROVE PutStays(r)'
    <3>1. MayFollow(q, r)' BY <2>2, <2>4, MayFollowStays
    <3>2. op'[q] = "put" BY <2>4, DoneStays DEF MayFollow
    <3> QED BY <3>1, <3>2 DEF PutStays
  <2>5. CASE /\ config \in {arg[r], Absent}
             /\ \A q \in Requests : r \in before[q] => cfg[q] \in {arg[r], Absent}
    <3>1. ASSUME NEW q \in Requests, Acts(q), op[q] = "put" PROVE PutStays(r)'
      <4>1. MayFollow(q, r)' BY <2>1, <2>2, <3>1, LaterFollows DEF Acts
      <4>2. op'[q] = "put" BY <3>1, ActFacts
      <4> QED BY <4>1, <4>2 DEF PutStays
    <3>2. ASSUME config' = config \/ config' = Absent PROVE PutStays(r)'
      <4>1. ASSUME NEW q \in Requests, r \in before'[q]
            PROVE  cfg'[q] \in {arg[r], Absent}
        <5>1. CASE pc[q] = "idle"
          <6>1. cfg'[q] = cfg[q] BY <5>1, StepSteady DEF Steady
          <6> QED BY <5>1, <6>1 DEF Known, Informed
        <5>2. CASE pc[q] # "idle"
          <6>1. before'[q] = before[q] BY <5>2, StepSteady DEF Steady
          <6> QED BY <2>5, <4>1, <6>1, CfgFacts
        <5> QED BY <5>1, <5>2
      <4> QED BY <2>2, <2>5, <3>2, <4>1 DEF PutStays
    <3> QED BY <3>1, <3>2, ConfigFacts
  <2> QED BY <2>3, <2>4, <2>5
<1> QED BY <1>2, <1>3

Cause(r) ==
  \/ ~alive
  \/ /\ op[r] # "put"
     /\ \/ cfg[r].table # "users"
        \/ ColumnOf(r) # "none" /\ ~Fits(r)

LEMMA OwnError ==
  ASSUME Known, NEW r \in Requests, Arrive(r) \/ Proceed(r) \/ Disturb(r),
         answer[r] # "error", answer'[r] = "error"
  PROVE  Cause(r) /\ UNCHANGED <<alive, op, cfg>>
<1>1. Placed(r) /\ Informed(r) /\ Typed BY DEF Known, Trailed
<1>2. CASE Upsert(r)
  BY <1>1, <1>2 DEF Upsert, Respond, Continue, Typed, Cause
<1>3. CASE Change(r)
  <2>1. op[r] \in Changes /\ ~Unsuitable(op[r], cfg[r]) /\ UNCHANGED <<alive, op, cfg>>
    BY <1>1, <1>3 DEF Change, Placed, Informed
  <2>2. NoTable(r) \/ (op[r] # "delete" /\ ~Fits(r))
    BY <1>1, <1>3 DEF Change, Respond, Continue, Typed
  <2>3. op[r] # "delete" => ColumnOf(r) # "none"
    BY <2>1 DEF Unsuitable, ColumnOf, Changes
  <2> QED BY <2>1, <2>2, <2>3 DEF NoTable, Cause, Changes
<1>4. CASE GetUser(r) \/ CountRows(r) \/ ReadRows(r)
  <2>1. op[r] # "put" /\ UNCHANGED <<alive, op, cfg>>
    BY <1>1, <1>4 DEF GetUser, CountRows, ReadRows, Placed
  <2>2. NoTable(r)
    BY <1>1, <1>4 DEF GetUser, CountRows, ReadRows, AfterCount, Respond, Continue, Typed
  <2> QED BY <2>1, <2>2 DEF NoTable, Cause
<1>5. CASE \/ Arrive(r) \/ CheckProject(r) \/ ReadConfig(r) \/ ReadSchema(r) \/ ReadColumns(r)
           \/ Audit(r) \/ Disturb(r)
  BY <1>1, <1>5
     DEF Arrive, Receive, CheckProject, ReadConfig, ReadSchema, ReadColumns, Audit, Disturb,
         Abandon, NeverRuns, Respond, Continue, Typed
<1> QED BY <1>2, <1>3, <1>4, <1>5 DEF Proceed

LEMMA StepError ==
  ASSUME Known, [Next]_vars
  PROVE  ErrorExplained'
<1>1. ASSUME NEW r \in Requests, answer'[r] = "error" PROVE Cause(r)'
  <2>1. CASE answer[r] = "error"
    <3>1. pc[r] = "done" BY <2>1 DEF Known, Informed
    <3>2. op'[r] = op[r] /\ cfg'[r] = cfg[r] BY <3>1, StepSteady DEF Steady
    <3>3. Cause(r) BY <2>1 DEF Known, ErrorExplained, Cause
    <3> QED BY <3>2, <3>3, OnlyGrows DEF Cause, Fits, ColumnOf
  <2>2. CASE answer[r] # "error"
    <3>1. ASSUME NEW q \in Requests, Arrive(q) \/ Proceed(q) \/ Disturb(q) PROVE q = r
      BY <1>1, <2>2, <3>1, StepFrame DEF Frame
    <3>2. ~(DeleteProject \/ (\E u \in Users : AddUser(u)) \/ UNCHANGED vars)
      BY <1>1, <2>2, OtherFrame
    <3>3. Cause(r) /\ UNCHANGED <<alive, op, cfg>>
      BY <1>1, <2>2, <3>1, <3>2, OwnError DEF Next, Rest
    <3> QED BY <3>3 DEF Cause, Fits, ColumnOf
  <2> QED BY <2>1, <2>2
<1> QED BY <1>1 DEF ErrorExplained, Cause

LEMMA InitKnown == Init => Known
<1> SUFFICES ASSUME Init PROVE Known OBVIOUS
<1>1. Fields
  <2>1. Fresh \in [Columns -> Values] BY DEF Fresh, Values
  <2>2. table \in [Users -> [Columns -> Values] \union {Absent}] BY <2>1 DEF Init
  <2> QED BY <2>2 DEF Init, Fields
<1>2. \A r \in Requests : Informed(r) BY DEF Init, Informed, Changes
<1>3. \A r \in Requests : DeleteStays(r) /\ ChangeStays(r) /\ PutStays(r)
  BY DEF Init, DeleteStays, ChangeStays, PutStays
<1>4. DeletedOnce /\ ErrorExplained BY DEF Init, DeletedOnce, ErrorExplained
<1> QED BY <1>1, <1>2, <1>3, <1>4, InitTrailed DEF Known

LEMMA StepKnown == Known /\ [Next]_vars => Known'
<1> SUFFICES ASSUME Known, [Next]_vars PROVE Known' OBVIOUS
<1>1. Trailed' BY StepTrailed DEF Known
<1>2. \A r \in Requests : Informed(r)' /\ DeleteStays(r)' /\ ChangeStays(r)' /\ PutStays(r)'
  BY StepInformed, StepDelete, StepChange, StepPut
<1> QED BY <1>1, <1>2, StepFields, StepDeletedOnce, StepError DEF Known

LEMMA AlwaysKnown == Spec => []Known
BY InitKnown, StepKnown, PTL DEF Spec

(* Types; and who awaits the audit row has acted (services/users.rs).      *)
THEOREM UsersTyped == Spec => []TypeOK
<1>1. Known => TypeOK
  <2> SUFFICES ASSUME Known PROVE TypeOK OBVIOUS
  <2>1. Trailed /\ Fields /\ \A r \in Requests : Placed(r) BY DEF Known, Trailed
  <2>2. Recorded \subseteq Requests BY <2>1 DEF Trailed, Fields
  <2> QED BY <2>1, <2>2 DEF TypeOK, Trailed, Typed, Fields, Placed, Steps, Answers
<1> QED BY <1>1, AlwaysKnown, PTL

(* A ban, an unban, a password and a configuration that were answered stay *)
(* until another request, or the project's application, replaces them.     *)
THEOREM UsersAnswersHold == Spec => []AnswersHold
<1>1. Known => AnswersHold
  <2> SUFFICES ASSUME Known PROVE AnswersHold OBVIOUS
  <2>1. ASSUME NEW r \in Requests, op[r] \in {"ban", "unban", "reset"}, answer[r] = "ok",
               alive, table[arg[r]] # Absent
        PROVE  \/ table[arg[r]][ColumnOf(r)] = Asked(r)
               \/ \E q \in Requests : /\ op[q] \in {"ban", "unban", "reset"}
                                      /\ MayFollow(q, r)
                                      /\ arg[q] = arg[r] /\ ColumnOf(q) = ColumnOf(r)
               \/ arg[r] \in added /\ \E q \in done : op[q] = "delete" /\ arg[q] = arg[r]
    <3>1. r \in done BY <2>1 DEF Known, Informed, Audited, Changes
    <3>2. ChangeStays(r) BY DEF Known
    <3>3. done \subseteq Requests BY DEF Known, Fields
    <3> QED BY <2>1, <3>1, <3>2, <3>3 DEF ChangeStays, Overwritten, DeletedBy, Kinds
  <2>2. ChangeHolds BY <2>1 DEF ChangeHolds
  <2>3. PutHolds
    <3>1. ASSUME NEW r \in Requests, op[r] = "put", answer[r] = "ok" PROVE r \in done
      BY <3>1 DEF Known, Informed, Audited
    <3> QED BY <3>1 DEF Known, PutStays, PutHolds
  <2> QED BY <2>2, <2>3 DEF AnswersHold
<1> QED BY <1>1, AlwaysKnown, PTL

(* No two requests both delete, and tell of, the same row.                 *)
THEOREM UserDeletedOnce == Spec => []DeletedOnce
BY AlwaysKnown, PTL DEF Known

(* A 500 without a failure is the project's or the configuration's fault.  *)
THEOREM UserErrors == Spec => []ErrorExplained
BY AlwaysKnown, PTL DEF Known

(* An export that leaves rows out has filled max_rows, and the table has   *)
(* grown since export_users counted it.                                    *)
THEOREM ExportCutOff == Spec => CutOffExplained
<1>1. ASSUME Known, [Next]_vars, NEW r \in Requests, pc[r] = "rows", pc'[r] = "audit",
             rows'[r] # Present
      PROVE  Cardinality(Present) > count[r] /\ Cardinality(rows'[r]) >= count[r]
  <2>1. ASSUME NEW q \in Requests, Arrive(q) \/ Proceed(q) \/ Disturb(q) PROVE q = r
    BY <1>1, <2>1, StepFrame DEF Frame
  <2>2. ~(DeleteProject \/ (\E u \in Users : AddUser(u)) \/ UNCHANGED vars)
    BY <1>1, OtherFrame
  <2>3. ReadRows(r)
    <3>1. Arrive(r) \/ Proceed(r) \/ Disturb(r) BY <1>1, <2>1, <2>2 DEF Next, Rest
    <3>2. ~Disturb(r)
      BY <1>1 DEF Disturb, Abandon, NeverRuns, Known, Trailed, Typed
    <3> QED
      BY <1>1, <3>1, <3>2
         DEF Arrive, Receive, Proceed, CheckProject, Upsert, ReadConfig, ReadSchema, Change,
             GetUser, CountRows, ReadColumns, Audit
  <2>4. op[r] = "export" /\ ~NoTable(r)
    BY <1>1, <2>3 DEF ReadRows, Respond, Continue, Known, Trailed, Typed
  <2>5. PICK page \in SUBSET Present :
          /\ Cardinality(page) = Smaller(MaxRows, Cardinality(Present))
          /\ rows' = [rows EXCEPT ![r] = page]
    BY <2>3, <2>4 DEF ReadRows, Limit
  <2>6. rows'[r] = page
    <3>1. rows \in [Requests -> SUBSET Users] BY <1>1 DEF Known, Fields
    <3> QED BY <2>5, <3>1
  <2>7. Cardinality(page) # Cardinality(Present)
    BY <1>1, <2>6, PresentFinite, FS_Subset
  <2>8. Cardinality(page) = MaxRows /\ MaxRows < Cardinality(Present)
    BY <2>5, <2>7, PresentFinite, OperationsAssumption DEF Smaller
  <2>9. count[r] <= MaxRows /\ count[r] \in Nat
    BY <1>1, <2>4 DEF Known, Informed, Fields
  <2> QED BY <2>6, <2>8, <2>9, PresentFinite, OperationsAssumption
<1>2. Known /\ [Next]_vars => [GrownPastCount]_vars
  BY <1>1 DEF GrownPastCount
<1> QED BY <1>2, AlwaysKnown, PTL DEF Spec, CutOffExplained
===============================================================================
