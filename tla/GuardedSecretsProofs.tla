-------------------------- MODULE GuardedSecretsProofs --------------------------
(***************************************************************************)
(* Secrets and GuardedSecrets.                                             *)
(*                                                                         *)
(* First the module Secrets by itself: types, the audit trail, and what a  *)
(* stored and what a deleted secret promise, for any requests, projects    *)
(* and keys.  The invariant comes in layers: Base says for each statement  *)
(* what its request has done so far; Stored, Gone and Later say what the   *)
(* rows and the reveals owe to the creates and deletes that have run, each *)
(* from Base and from the few effects a step may have (StepEffect); Sure   *)
(* says that a value stays with its id from the INSERT to the answer.      *)
(*                                                                         *)
(* Then GuardedSecrets for any configurations, passwords, requests and     *)
(* clocks: constant_time_eq is equality, the guarded secrets are the       *)
(* secrets of the module Secrets and keep what was proved of those, and    *)
(* whoever is told a plain text came with a token from a login with the    *)
(* password.                                                               *)
(***************************************************************************)
EXTENDS GuardedSecrets, SequenceTheorems, WellFoundedInduction, TLAPS
Steps == {"idle", "insert", "select", "delete", "list", "audit", "done"}
Answers == {"none", "ok", "not found", "bad request", "unauthorized", "error",
            "lost"}

Typed ==
  /\ key \in Keys \union {None}
  /\ projects \subseteq Projects
  /\ secrets \in [Ids -> Secret \union {None}]
  /\ audit \in Seq(Requests)
  /\ pc \in [Requests -> Steps]
  /\ op \in [Requests -> Operations \union {"none"}]
  /\ arg \in [Requests -> Ids \union Projects \union {None}]
  /\ row \in [Requests -> Secret \union {None}]
  /\ told \in [Requests -> Ids \union {None}]
  /\ answer \in [Requests -> Answers]
  /\ done \subseteq Requests
  /\ before \in [Requests -> SUBSET Requests]

(* Who has acted, and who has not yet; what each statement works with; and *)
(* who has been told.                                                      *)
Placed(r) ==
  /\ pc[r] \in {"idle", "insert", "select", "delete"} => r \notin done
  /\ pc[r] = "audit" => r \in done \ Recorded
  /\ pc[r] = "idle" => answer[r] = "none" /\ op[r] = "none"
  /\ pc[r] = "insert" => /\ op[r] = "create" /\ row[r] \in Secret
                         /\ row[r].project = arg[r]
  /\ pc[r] = "select" => op[r] = "reveal" /\ arg[r] \in Known
  /\ pc[r] = "delete" => op[r] = "delete" /\ arg[r] \in Known
  /\ pc[r] = "list" => op[r] = "list"
  /\ pc[r] = "audit" /\ op[r] = "reveal" => row[r] \in Secret
  /\ told[r] # None => r \in Recorded /\ answer[r] = "ok"
  /\ op[r] \in Changes /\ answer[r] = "ok" => r \in Recorded

Base == Typed /\ Recorded \subseteq done /\ \A r \in Requests : Placed(r)

(* Who was told of a success.                                              *)
Told == {r \in Requests : op[r] \in Changes /\ answer[r] = "ok"}

(* A step of request r alone, on what Placed looks at.                     *)
Only(r) ==
  \A q \in Requests \ {r} :
    /\ pc'[q] = pc[q] /\ op'[q] = op[q] /\ arg'[q] = arg[q]
    /\ row'[q] = row[q] /\ told'[q] = told[q] /\ answer'[q] = answer[q]

-----------------------------------------------------------------------------

LEMMA InitBase == Init => Base
<1> SUFFICES ASSUME Init PROVE Base
  OBVIOUS
<1>1. secrets \in [Ids -> Secret \union {None}]
  BY DEF Init, Secret, Ids
<1>2. Typed
  BY <1>1 DEF Init, Typed, Steps, Answers
<1>3. \A r \in Requests : Placed(r)
  BY DEF Init, Placed, Changes
<1>4. Recorded = {}
  BY DEF Init, Recorded
<1> QED
  BY <1>2, <1>3, <1>4 DEF Base

(* A row id that is known stays known.                                     *)
LEMMA KnownGrows ==
  ASSUME NEW r \in Requests, done \subseteq done',
         \A q \in done : op'[q] = op[q]
  PROVE  Known \subseteq Known'
BY DEF Known

(* What a step of r that neither acts nor records leaves behind.           *)
LEMMA QuietStep ==
  ASSUME Base, NEW r \in Requests, Typed', Only(r), Placed(r)',
         UNCHANGED <<audit, done>>, r \in done => op'[r] = op[r],
         r \in Told' <=> r \in Told
  PROVE  Base' /\ UNCHANGED Log!vars
<1>1. UNCHANGED Recorded
  BY DEF Recorded
<1>2. \A q \in done : op'[q] = op[q]
  BY DEF Only, Base, Typed
<1>3. Known \subseteq Known'
  BY <1>2, KnownGrows
<1>4. ASSUME NEW q \in Requests, q # r PROVE Placed(q)'
  BY <1>1, <1>3, <1>4 DEF Base, Placed, Only
<1>5. Base'
  BY <1>1, <1>4 DEF Base
<1>6. \A q \in Requests : q \in Told' <=> q \in Told
  BY DEF Only, Told
<1>7. UNCHANGED Told
  BY <1>6 DEF Told
<1> QED
  BY <1>5, <1>7 DEF Log!vars, Told

LEMMA RefuseQuiet ==
  ASSUME Base, NEW r \in Requests, Refuse(r)
  PROVE  Base' /\ UNCHANGED Log!vars
<1>1. Typed'
  BY DEF Base, Typed, Refuse, Steps, Answers
<1>2. Only(r)
  BY DEF Base, Typed, Refuse, Only
<1>3. answer[r] = "none" /\ op[r] = "none" /\ r \notin done
  BY DEF Base, Refuse, Placed
<1>4. Placed(r)'
  BY <1>3 DEF Base, Typed, Refuse, Placed, Changes
<1>5. r \notin Told /\ r \notin Told'
  BY <1>3 DEF Base, Typed, Refuse, Told, Changes
<1> QED
  BY <1>1, <1>2, <1>3, <1>4, <1>5, QuietStep DEF Refuse

(* Which arguments the three kinds of requests come with.                  *)
Fitting(o, a) ==
  \/ o = "create" /\ a \in Projects \union {None}
  \/ o \in {"reveal", "delete"} /\ a \in Known
  \/ o = "list" /\ a = None

LEMMA ReceiveQuiet ==
  ASSUME Base, NEW r \in Requests, NEW o \in Operations,
         NEW a, Fitting(o, a), Receive(r, o, a)
  PROVE  Base' /\ UNCHANGED Log!vars
<1>1. answer[r] = "none" /\ r \notin done /\ pc[r] = "idle" /\ key \in Keys
  BY DEF Base, Typed, Receive, Placed
<1>2. /\ a \in Ids \union Projects \union {None}
      /\ o = "create" =>
           [value |-> r, key |-> key, project |-> a] \in Secret
  <2>1. Known \subseteq Ids
    BY DEF Base, Typed, Known, Ids
  <2> QED
    BY <1>1, <2>1 DEF Fitting, Secret, Ids
<1>3. Typed'
  <2>1. row' \in [Requests -> Secret \union {None}]
    BY <1>2 DEF Base, Typed, Receive
  <2>2. FirstStep(o) \in Steps /\ "done" \in Steps
    BY DEF FirstStep, Fitting, Steps
  <2>3. pc' \in [Requests -> Steps]
    BY <2>2 DEF Base, Typed, Receive
  <2>4. answer' \in [Requests -> Answers]
    BY DEF Base, Typed, Receive, Answers
  <2>5. /\ op' \in [Requests -> Operations \union {"none"}]
        /\ arg' \in [Requests -> Ids \union Projects \union {None}]
        /\ before' \in [Requests -> SUBSET Requests]
    BY <1>2 DEF Base, Typed, Receive
  <2> QED
    BY <2>1, <2>3, <2>4, <2>5 DEF Base, Typed, Receive
<1>4. Only(r)
  BY DEF Base, Typed, Receive, Only
<1>5. Known \subseteq Known'
  BY <1>1, KnownGrows DEF Base, Typed, Receive
<1>6. op'[r] = o /\ arg'[r] = a
  BY DEF Base, Typed, Receive
<1>7. Placed(r)'
  <2>1. r \notin done' /\ told'[r] = told[r] /\ UNCHANGED Recorded
    BY <1>1 DEF Receive, Recorded
  <2>2. told[r] = None
    BY <1>1 DEF Base, Placed
  <2>3. answer'[r] # "ok"
    BY <1>1 DEF Base, Typed, Receive
  <2>4. CASE pc'[r] = FirstStep(o) /\ o = "create"
    <3>1. row'[r] = [value |-> r, key |-> key, project |-> a]
      BY <2>4 DEF Base, Typed, Receive, FirstStep
    <3>2. pc'[r] = "insert"
      BY <2>4 DEF FirstStep
    <3> QED
      BY <1>2, <1>6, <2>1, <2>2, <2>3, <2>4, <3>1, <3>2 DEF Placed
  <2>5. CASE pc'[r] = FirstStep(o) /\ o # "create"
    BY <1>5, <1>6, <2>1, <2>2, <2>3, <2>5 DEF Placed, FirstStep, Fitting
  <2>6. CASE pc'[r] = "done"
    BY <2>1, <2>2, <2>3, <2>6 DEF Placed
  <2> QED
    BY <2>4, <2>5, <2>6 DEF Base, Typed, Receive
<1>8. r \notin Told /\ r \notin Told'
  BY <1>1 DEF Base, Typed, Receive, Told
<1> QED
  BY <1>1, <1>3, <1>4, <1>7, <1>8, QuietStep DEF Receive

LEMMA ListQuiet ==
  ASSUME Base, NEW r \in Requests, List(r)
  PROVE  Base' /\ UNCHANGED Log!vars
<1>1. Typed'
  BY DEF Base, Typed, List, Respond, Steps, Answers
<1>2. Only(r)
  BY DEF Base, Typed, List, Respond, Only
<1>3. op[r] = "list"
  BY DEF Base, List, Placed
<1>4. Placed(r)'
  <2>1. /\ pc'[r] = "done" /\ op'[r] = "list"
        /\ UNCHANGED <<told, Recorded>>
    BY <1>3 DEF Base, Typed, List, Respond, Recorded
  <2>2. told[r] # None => r \in Recorded /\ answer'[r] = "ok"
    BY DEF Base, Typed, List, Respond, Placed, Running
  <2> QED
    BY <2>1, <2>2 DEF Placed, Changes
<1>5. r \notin Told /\ r \notin Told'
  BY <1>3 DEF List, Told, Changes
<1> QED
  BY <1>1, <1>2, <1>4, <1>5, QuietStep DEF List

LEMMA DisturbQuiet ==
  ASSUME Base, NEW r \in Requests, Disturb(r)
  PROVE  Base' /\ UNCHANGED Log!vars
<1>1. Typed'
  BY DEF Base, Typed, Disturb, Abandon, NeverRuns, Continue, Steps, Answers
<1>2. Only(r)
  BY DEF Base, Typed, Disturb, Abandon, NeverRuns, Continue, Only
<1>3. UNCHANGED <<audit, done, op, arg, row, told>> /\ UNCHANGED Recorded
  BY DEF Disturb, Abandon, NeverRuns, Recorded
<1>4. Placed(r)'
  <2>1. UNCHANGED Known
    BY <1>3 DEF Known
  <2>2. told[r] # None => answer'[r] = "ok"
    BY DEF Base, Typed, Placed, Disturb, Abandon, NeverRuns, Continue, Running
  <2> QED
    BY <1>3, <2>1, <2>2 DEF Base, Typed, Disturb, Abandon, NeverRuns, Continue,
       Running, Placed, Writing
<1>5. r \in Told' <=> r \in Told
  BY DEF Base, Typed, Disturb, Abandon, NeverRuns, Continue, Running, Told
<1> QED
  BY <1>1, <1>2, <1>3, <1>4, <1>5, QuietStep

(* The effect of a statement is the act of the trail.                      *)
LEMMA ActStep ==
  ASSUME Base, NEW r \in Requests, Typed', Only(r), Placed(r)',
         UNCHANGED audit, r \notin done, done' = done \union {r},
         r \in Told' <=> r \in Told
  PROVE  Base' /\ Log!Act(r)
<1>1. UNCHANGED Recorded
  BY DEF Recorded
<1>2. \A q \in done : op'[q] = op[q]
  BY DEF Only, Base, Typed
<1>3. Known \subseteq Known'
  BY <1>2, KnownGrows
<1>4. ASSUME NEW q \in Requests, q # r PROVE Placed(q)'
  BY <1>1, <1>3, <1>4 DEF Base, Placed, Only
<1>5. Base'
  BY <1>1, <1>4 DEF Base
<1>6. \A q \in Requests : q \in Told' <=> q \in Told
  BY DEF Only, Told
<1>7. UNCHANGED Told
  BY <1>6 DEF Told
<1> QED
  BY <1>5, <1>7 DEF Log!Act, Told

LEMMA InsertActs ==
  ASSUME Base, NEW r \in Requests, Insert(r)
  PROVE  Base' /\ (Log!Act(r) \/ UNCHANGED Log!vars)
<1>1. op[r] = "create" /\ row[r] \in Secret /\ r \notin done /\ told[r] = None
  BY DEF Base, Typed, Insert, Placed, Recorded
<1>2. Typed'
  <2>1. secrets' \in [Ids -> Secret \union {None}]
    BY <1>1 DEF Base, Typed, Insert, Ids
  <2>2. pc' \in [Requests -> Steps] /\ answer' \in [Requests -> Answers]
    BY DEF Base, Typed, Insert, Respond, Continue, Steps, Answers
  <2>3. done' \subseteq Requests
    BY DEF Base, Typed, Insert
  <2>4. UNCHANGED <<key, projects, audit, op, arg, row, told, before>>
    BY DEF Insert
  <2> QED
    BY <2>1, <2>2, <2>3, <2>4 DEF Base, Typed
<1>3. Only(r)
  BY DEF Base, Typed, Insert, Respond, Continue, Only
<1>4. UNCHANGED <<op, told, audit>> /\ UNCHANGED Recorded
  BY DEF Insert, Recorded
<1>5. r \in Told' <=> r \in Told
  BY DEF Base, Typed, Insert, Respond, Continue, Running, Told
<1>6. CASE UNCHANGED done /\ Respond(r, "error")
  <2>1. Placed(r)'
    BY <1>1, <1>4, <1>6 DEF Base, Typed, Respond, Running, Placed
  <2> QED
    BY <1>2, <1>3, <1>4, <1>5, <1>6, <2>1, QuietStep
<1>7. CASE done' = done \union {r} /\ Continue(r, "audit")
  <2>1. Placed(r)'
    BY <1>1, <1>4, <1>7 DEF Base, Typed, Continue, Placed
  <2> QED
    BY <1>1, <1>2, <1>3, <1>4, <1>5, <1>7, <2>1, ActStep
<1> QED
  BY <1>6, <1>7 DEF Insert

LEMMA SelectActs ==
  ASSUME Base, NEW r \in Requests, Select(r)
  PROVE  Base' /\ (Log!Act(r) \/ UNCHANGED Log!vars)
<1>1. /\ op[r] = "reveal" /\ arg[r] \in Ids
      /\ r \notin done /\ told[r] = None
  <2>1. Known \subseteq Ids
    BY DEF Base, Typed, Known, Ids
  <2> QED
    BY <2>1 DEF Base, Typed, Select, Placed, Recorded
<1>2. Typed'
  <2>1. row' \in [Requests -> Secret \union {None}]
    BY <1>1 DEF Base, Typed, Select
  <2>2. /\ done' = done \/ done' = done \union {r}
        /\ \/ Respond(r, "not found") \/ Respond(r, "error")
           \/ Continue(r, "audit")
    BY DEF Select
  <2>3. pc' \in [Requests -> Steps] /\ answer' \in [Requests -> Answers]
    BY <2>2 DEF Base, Typed, Respond, Continue, Steps, Answers
  <2> QED
    BY <2>1, <2>2, <2>3 DEF Base, Typed, Select
<1>3. Only(r)
  BY DEF Base, Typed, Select, Respond, Continue, Only
<1>4. UNCHANGED <<op, told, audit>> /\ UNCHANGED Recorded
  BY DEF Select, Recorded
<1>5. r \in Told' <=> r \in Told
  BY DEF Base, Typed, Select, Respond, Continue, Running, Told
<1>6. ASSUME UNCHANGED done,
             Respond(r, "not found") \/ Respond(r, "error")
      PROVE  Base' /\ UNCHANGED Log!vars
  <2>1. Placed(r)'
    BY <1>1, <1>4, <1>6 DEF Base, Typed, Respond, Running, Placed
  <2> QED
    BY <1>2, <1>3, <1>4, <1>5, <1>6, <2>1, QuietStep
<1>7. ASSUME done' = done \union {r}, Continue(r, "audit"),
             secrets[arg[r]] # None
      PROVE  Base' /\ Log!Act(r)
  <2>1. row'[r] \in Secret
    BY <1>1, <1>7 DEF Base, Typed, Select
  <2>2. Placed(r)'
    BY <1>1, <1>4, <1>7, <2>1 DEF Base, Typed, Continue, Placed
  <2> QED
    BY <1>1, <1>2, <1>3, <1>4, <1>5, <1>7, <2>2, ActStep
<1> QED
  BY <1>6, <1>7 DEF Select

LEMMA DeleteActs ==
  ASSUME Base, NEW r \in Requests, Delete(r)
  PROVE  Base' /\ (Log!Act(r) \/ UNCHANGED Log!vars)
<1>1. op[r] = "delete" /\ r \notin done /\ told[r] = None
  BY DEF Base, Typed, Delete, Placed, Recorded
<1>2. Typed'
  <2>1. secrets' \in [Ids -> Secret \union {None}]
    BY DEF Base, Typed, Delete
  <2> QED
    BY <2>1 DEF Base, Typed, Delete, Respond, Continue, Steps, Answers
<1>3. Only(r)
  BY DEF Base, Typed, Delete, Respond, Continue, Only
<1>4. UNCHANGED <<op, told, audit>> /\ UNCHANGED Recorded
  BY DEF Delete, Recorded
<1>5. r \in Told' <=> r \in Told
  BY DEF Base, Typed, Delete, Respond, Continue, Running, Told
<1>6. CASE UNCHANGED done /\ Respond(r, "not found")
  <2>1. Placed(r)'
    BY <1>1, <1>4, <1>6 DEF Base, Typed, Respond, Running, Placed
  <2> QED
    BY <1>2, <1>3, <1>4, <1>5, <1>6, <2>1, QuietStep
<1>7. CASE done' = done \union {r} /\ Continue(r, "audit")
  <2>1. Placed(r)'
    BY <1>1, <1>4, <1>7 DEF Base, Typed, Continue, Placed
  <2> QED
    BY <1>1, <1>2, <1>3, <1>4, <1>5, <1>7, <2>1, ActStep
<1> QED
  BY <1>6, <1>7 DEF Delete

(* The INSERT is the record, and only then comes the answer.               *)
LEMMA AuditRecords ==
  ASSUME Base, NEW r \in Requests, Audit(r)
  PROVE  Base' /\ Log!Record(r)
<1>1. audit' \in Seq(Requests) /\ Recorded' = Recorded \union {r}
  <2>1. audit \in Seq(Requests) /\ audit' = Append(audit, r)
    BY DEF Base, Typed, Audit
  <2> QED
    BY <2>1 DEF Recorded
<1>2. Plain(r) \in Ids \union {None}
  BY DEF Base, Audit, Placed, Plain, Secret
<1>3. Typed'
  <2>1. told' \in [Requests -> Ids \union {None}]
    BY <1>2 DEF Base, Typed, Audit
  <2> QED
    BY <1>1, <2>1 DEF Base, Typed, Audit, Respond, Steps, Answers
<1>4. Only(r)
  BY DEF Base, Typed, Audit, Respond, Only
<1>5. r \in done \ Recorded /\ UNCHANGED done
  BY DEF Base, Audit, Placed
<1>6. Placed(r)'
  <2>1. told'[r] # None => answer'[r] = "ok"
    BY DEF Base, Typed, Audit, Respond, Plain
  <2> QED
    BY <1>1, <1>5, <2>1 DEF Base, Typed, Audit, Respond, Placed
<1>7. UNCHANGED Known
  BY DEF Audit, Known
<1>8. ASSUME NEW q \in Requests, q # r PROVE Placed(q)'
  BY <1>1, <1>4, <1>7, <1>8 DEF Base, Placed, Only, Audit
<1>9. Base'
  BY <1>1, <1>3, <1>5, <1>6, <1>8 DEF Base
<1>10. \A q \in Requests \ {r} : q \in Told' <=> q \in Told
  BY <1>4 DEF Only, Told
<1>11. r \in Told => r \in Told'
  BY DEF Base, Typed, Audit, Respond, Running, Told
<1>12. Told' = Told \/ Told' = Told \union {r}
  BY <1>10, <1>11 DEF Told
<1>13. Log!Record(r)
  BY <1>5, <1>12 DEF Log!Record, Log!Recorded, Recorded, Told, Audit
<1> QED
  BY <1>9, <1>13

(* What happens to no request, or to all of them.                          *)
LEMMA OutsideQuiet ==
  ASSUME Base,
         \/ StopAll \/ UNCHANGED vars
         \/ \E k \in Keys : StartWith(k)
         \/ \E p \in Projects : DeleteProject(p)
  PROVE  Base' /\ UNCHANGED Log!vars
<1>1. UNCHANGED <<audit, op, arg, row, told, done, before>>
  BY DEF StopAll, StartWith, DeleteProject, vars, secretVars
<1>2. UNCHANGED <<Recorded, Known>>
  BY <1>1 DEF Recorded, Known
<1>3. \A r \in Requests :
        /\ \/ pc'[r] = pc[r] /\ answer'[r] = answer[r]
           \/ /\ Running(r) /\ answer'[r] = "lost"
              /\ pc'[r] = "done" \/ pc'[r] = pc[r]
  <2>1. CASE StopAll
    BY <2>1 DEF Base, Typed, StopAll
  <2>2. CASE ~StopAll
    BY <2>2 DEF StartWith, DeleteProject, vars, secretVars
  <2> QED
    BY <2>1, <2>2
<1>4. Typed'
  <2>1. /\ pc' \in [Requests -> Steps] /\ answer' \in [Requests -> Answers]
        /\ key' \in Keys \union {None} /\ projects' \subseteq Projects
    BY DEF Base, Typed, StopAll, StartWith, DeleteProject, vars, secretVars,
           Steps, Answers
  <2>2. secrets' \in [Ids -> Secret \union {None}]
    BY DEF Base, Typed, StopAll, StartWith, DeleteProject, vars, secretVars,
           OrphanOf, Secret
  <2> QED
    BY <1>1, <2>1, <2>2 DEF Base, Typed
<1>5. \A r \in Requests : Placed(r)'
  BY <1>1, <1>2, <1>3 DEF Base, Placed, Running
<1>6. \A r \in Requests : r \in Told' <=> r \in Told
  BY <1>1, <1>3 DEF Told, Running
<1>7. UNCHANGED Told
  BY <1>6 DEF Told
<1> QED
  BY <1>1, <1>2, <1>4, <1>5, <1>7 DEF Base, Log!vars, Told

(* Every step keeps Base, and is one of the audit trail or none.           *)
LEMMA StepBase ==
  ASSUME Base, [Next]_vars
  PROVE  Base' /\ [Log!Next]_(Log!vars)
<1>1. ASSUME NEW r \in Requests, Ask(r)
      PROVE  Base' /\ UNCHANGED Log!vars
  <2>1. \E o \in Operations, a \in Ids \union Projects \union {None} :
          Fitting(o, a) /\ Receive(r, o, a)
    BY <1>1 DEF Base, Typed, Ask, Fitting, Known, Ids
  <2> QED
    BY <2>1, ReceiveQuiet
<1>2. ASSUME NEW r \in Requests, Proceed(r)
      PROVE  Base' /\ [Log!Next]_(Log!vars)
  BY <1>2, InsertActs, SelectActs, DeleteActs, ListQuiet, AuditRecords
     DEF Proceed, Log!Next
<1>3. ASSUME NEW r \in Requests, Refuse(r) \/ Disturb(r)
      PROVE  Base' /\ UNCHANGED Log!vars
  BY <1>3, RefuseQuiet, DisturbQuiet
<1> QED
  BY <1>1, <1>2, <1>3, OutsideQuiet DEF Next, Rest

(* Types, for any requests, projects, keys and rows of before; and who     *)
(* awaits an audit row has had an effect without a row yet, and a plain    *)
(* text is only with those whose reveal is recorded and answered.          *)
THEOREM SecretsTyped == Spec => []TypeOK
<1>1. Base => TypeOK
  BY DEF Base, Typed, TypeOK, Placed, Steps, Answers
<1>2. Base /\ [Next]_vars => Base'
  BY StepBase
<1> QED
  BY <1>1, <1>2, InitBase, PTL DEF Spec

(* "ALWAYS writes an audit log so every plaintext read is traceable": for  *)
(* any requests the secrets implement the audit trail, with creates and    *)
(* deletes, over restarts of the server too.                               *)
THEOREM SecretsAudited == Spec => ImplementsAuditTrail
<1>1. Init => Log!Init
  BY DEF Init, Log!Init
<1>2. Base /\ [Next]_vars => Base' /\ [Log!Next]_(Log!vars)
  BY StepBase
<1> QED
  BY <1>1, <1>2, InitBase, PTL DEF Spec, ImplementsAuditTrail, Log!Spec

-----------------------------------------------------------------------------
(* What a step may do to the rows, and who has done it.                    *)
Nothing == UNCHANGED <<secrets, done>> /\ projects' = projects
Inserted(r) ==
  /\ r \notin done /\ op[r] = "create" /\ done' = done \union {r}
  /\ row[r] \in Secret /\ row[r].project = arg[r]
  /\ arg[r] \in projects \union {None} /\ projects' = projects
  /\ secrets' = [secrets EXCEPT ![r] = row[r]]
Revealed(r) ==
  /\ r \notin done /\ op[r] = "reveal" /\ done' = done \union {r}
  /\ secrets[arg[r]] # None
  /\ UNCHANGED <<secrets, projects>>
Deleted(r) ==
  /\ r \notin done /\ op[r] = "delete" /\ done' = done \union {r}
  /\ arg[r] \in Known /\ secrets[arg[r]] # None
  /\ secrets' = [secrets EXCEPT ![arg[r]] = None]
  /\ UNCHANGED projects

(* What no step changes: who has acted, for whom, with what; and answers.  *)
Stable ==
  /\ done \subseteq done'
  /\ \A q \in done : op'[q] = op[q] /\ arg'[q] = arg[q]
  /\ \A q \in done : op[q] = "create" => row'[q] = row[q]
  /\ \A q \in Requests : answer[q] # "none" => answer'[q] = answer[q]

(* ... nor a request that acts in the step.                                *)
Same(r) == op'[r] = op[r] /\ arg'[r] = arg[r]
           /\ (op[r] = "create" => row'[r] = row[r])

LEMMA StepStable ==
  ASSUME Base, [Next]_vars
  PROVE  Stable
<1>1. ASSUME NEW r \in Requests, Ask(r) PROVE Stable
  <2>1. PICK o, a : Receive(r, o, a)
    BY <1>1 DEF Ask
  <2>2. r \notin done /\ answer[r] = "none"
    BY <2>1 DEF Base, Receive, Placed
  <2> QED
    BY <2>1, <2>2 DEF Base, Typed, Receive, Stable
<1>2. ASSUME NEW r \in Requests, Refuse(r) PROVE Stable
  <2>1. answer[r] = "none"
    BY <1>2 DEF Base, Refuse, Placed
  <2> QED
    BY <1>2, <2>1 DEF Base, Typed, Refuse, Stable
<1>3. ASSUME NEW r \in Requests, Proceed(r) PROVE Stable
  <2>1. /\ UNCHANGED <<op, arg>>
        /\ done' = done \/ done' = done \union {r}
        /\ \/ UNCHANGED answer
           \/ \E a : Respond(r, a)
        /\ UNCHANGED row \/ Select(r)
    BY <1>3 DEF Proceed, Insert, Select, Delete, List, Audit, Continue
  <2>2. \A q \in done : op[q] = "create" => row'[q] = row[q]
    BY <2>1 DEF Base, Typed, Select, Placed
  <2> QED
    BY <2>1, <2>2 DEF Base, Typed, Respond, Running, Stable
<1>4. ASSUME NEW r \in Requests, Disturb(r) PROVE Stable
  BY <1>4 DEF Base, Typed, Disturb, Abandon, NeverRuns, Continue, Running, Stable
<1>5. CASE StopAll
  BY <1>5 DEF Base, Typed, StopAll, Running, Stable
<1>6. CASE \/ UNCHANGED vars \/ \E k \in Keys : StartWith(k)
           \/ \E p \in Projects : DeleteProject(p)
  BY <1>6 DEF vars, secretVars, StartWith, DeleteProject, Stable
<1> QED
  BY <1>1, <1>2, <1>3, <1>4, <1>5, <1>6 DEF Next, Rest

LEMMA StepEffect ==
  ASSUME Base, [Next]_vars
  PROVE  \/ Nothing
         \/ \E r \in Requests :
              Same(r) /\ (Inserted(r) \/ Revealed(r) \/ Deleted(r))
         \/ \E p \in Projects : DeleteProject(p)
<1>1. ASSUME NEW r \in Requests, Insert(r)
      PROVE  Nothing \/ (Same(r) /\ Inserted(r))
  <2>1. /\ r \notin done /\ op[r] = "create"
        /\ row[r] \in Secret /\ row[r].project = arg[r]
    BY <1>1 DEF Base, Insert, Placed
  <2> QED
    BY <1>1, <2>1 DEF Insert, Insertable, Nothing, Inserted, Same
<1>2. ASSUME NEW r \in Requests, Select(r)
      PROVE  Nothing \/ (Same(r) /\ Revealed(r))
  <2>1. r \notin done /\ op[r] = "reveal"
    BY <1>2 DEF Base, Select, Placed
  <2>2. /\ UNCHANGED <<secrets, projects, op, arg>>
        /\ \/ UNCHANGED done
           \/ done' = done \union {r} /\ secrets[arg[r]] # None
    BY <1>2 DEF Select
  <2> QED
    BY <2>1, <2>2 DEF Nothing, Revealed, Same
<1>3. ASSUME NEW r \in Requests, Delete(r)
      PROVE  Nothing \/ (Same(r) /\ Deleted(r))
  <2>1. r \notin done /\ op[r] = "delete" /\ arg[r] \in Known
    BY <1>3 DEF Base, Delete, Placed
  <2> QED
    BY <1>3, <2>1 DEF Delete, NoRow, Nothing, Deleted, Same
<1>4. ASSUME NEW r \in Requests,
             \/ Ask(r) \/ Refuse(r) \/ List(r) \/ Audit(r) \/ Disturb(r)
      PROVE  Nothing
  BY <1>4 DEF Ask, Receive, Refuse, List, Audit, Disturb, Abandon, NeverRuns,
              Nothing
<1>5. ASSUME \/ UNCHANGED vars \/ StopAll \/ \E k \in Keys : StartWith(k)
      PROVE  Nothing
  BY <1>5 DEF vars, secretVars, StopAll, StartWith, Nothing
<1> QED
  BY <1>1, <1>2, <1>3, <1>4, <1>5 DEF Next, Proceed, Rest

-----------------------------------------------------------------------------
(* Stored and deleted *)

(* A secret that has been stored is there, whether its client was told or  *)
(* not, unless a delete has run.                                           *)
There(r) ==
  /\ secrets[r] # None
  /\ secrets[r] \in {row[r], [row[r] EXCEPT !.project = None]}
  /\ secrets[r].project \in projects \union {None}
Removed(i) == \E q \in done : op[q] = "delete" /\ arg[q] = i
Stored ==
  \A r \in done : op[r] = "create" =>
    row[r] \in Secret /\ (There(r) \/ Removed(r))

LEMMA StepStored ==
  ASSUME Base, Base', Stored, [Next]_vars
  PROVE  Stored'
<1>1. Stable
  BY StepStable
<1>2. \A i \in Ids : Removed(i) => Removed(i)'
  BY <1>1 DEF Removed, Stable
<1>3. CASE Nothing
  BY <1>1, <1>2, <1>3 DEF Stored, There, Nothing, Stable, Base, Typed, Ids
<1>4. ASSUME NEW r \in Requests, Same(r), Inserted(r) PROVE Stored'
  <2>1. ASSUME NEW q \in done, op[q] = "create"
        PROVE  row'[q] \in Secret /\ (There(q)' \/ Removed(q)')
    BY <1>1, <1>2, <1>4, <2>1
       DEF Stored, There, Inserted, Stable, Base, Typed, Ids
  <2>2. row'[r] \in Secret /\ There(r)'
    BY <1>4, SecretsAssumption DEF There, Inserted, Same, Base, Typed, Ids
  <2> QED
    BY <1>1, <1>4, <2>1, <2>2 DEF Stored, Inserted, Stable
<1>5. ASSUME NEW r \in Requests, Same(r), Revealed(r) PROVE Stored'
  BY <1>1, <1>2, <1>5
     DEF Stored, There, Revealed, Same, Stable, Base, Typed, Ids
<1>6. ASSUME NEW r \in Requests, Same(r), Deleted(r) PROVE Stored'
  <2>1. Removed(arg[r])'
    BY <1>6 DEF Removed, Deleted, Same
  <2>2. ASSUME NEW q \in done, op[q] = "create"
        PROVE  row'[q] \in Secret /\ (There(q)' \/ Removed(q)')
    <3>1. q \in Ids /\ row'[q] = row[q] /\ row[q] \in Secret
      BY <1>1, <2>2 DEF Stored, Stable, Base, Typed, Ids
    <3>2. CASE q = arg[r]
      BY <1>6, <2>1, <3>1, <3>2 DEF Same, Removed
    <3>3. CASE q # arg[r] /\ There(q)
      <4>1. secrets'[q] = secrets[q] /\ UNCHANGED projects
        BY <1>6, <3>1, <3>3 DEF Deleted, Base, Typed
      <4> QED
        BY <3>1, <3>3, <4>1 DEF There
    <3>4. CASE Removed(q)
      BY <1>2, <3>1, <3>4
    <3> QED
      BY <2>2, <3>1, <3>2, <3>3, <3>4 DEF Stored
  <2> QED
    BY <1>1, <1>6, <2>2 DEF Stored, Deleted, Same, Stable
<1>7. ASSUME NEW p \in Projects, DeleteProject(p) PROVE Stored'
  <2>1. ASSUME NEW q \in done, op[q] = "create", There(q)
        PROVE  There(q)'
    <3>1. /\ row[q] \in Secret /\ secrets[q] \in Secret /\ row' = row
          /\ projects' = projects \ {p}
          /\ secrets'[q] = IF secrets[q].project = p
                           THEN [secrets[q] EXCEPT !.project = None]
                           ELSE secrets[q]
      BY <1>7, <2>1 DEF Stored, There, DeleteProject, OrphanOf, Base, Typed, Ids
    <3>2. [secrets[q] EXCEPT !.project = None]
            = [row[q] EXCEPT !.project = None]
      BY <2>1, <3>1 DEF There, Secret
    <3>3. /\ secrets'[q] \in Secret
          /\ secrets'[q] \in {row'[q], [row'[q] EXCEPT !.project = None]}
      BY <2>1, <3>1, <3>2 DEF There, Secret
    <3>4. secrets'[q].project \in projects' \union {None}
      BY <2>1, <3>1 DEF There, Secret
    <3> QED
      BY <3>3, <3>4, SecretsAssumption DEF There
  <2> QED
    BY <1>1, <1>2, <1>7, <2>1
       DEF Stored, DeleteProject, Stable, Base, Typed, Ids
<1> QED
  BY <1>3, <1>4, <1>5, <1>6, <1>7, StepEffect

(* What was answered with 201 is stored, with its value, under the key it  *)
(* was given, and outlives its project, until it is deleted: however many  *)
(* requests, projects and keys there are, and whatever fails.              *)
THEOREM SecretsHold == Spec => []SecretHolds
<1>1. Init => Stored
  BY DEF Init, Stored
<1>2. Base /\ Stored /\ [Next]_vars => Base' /\ Stored'
  BY StepBase, StepStored
<1>3. Base /\ Stored => SecretHolds
  BY DEF Base, Placed, Stored, There, Removed, SecretHolds, Changes
<1> QED
  BY <1>1, <1>2, <1>3, InitBase, PTL DEF Spec

(* What has been deleted was known, is gone, and was deleted once.         *)
Gone ==
  /\ \A q \in done : op[q] = "delete" => /\ arg[q] \in Known
                                         /\ secrets[arg[q]] = None
  /\ \A q, r \in done :
       op[q] = "delete" /\ op[r] = "delete" /\ arg[q] = arg[r] => q = r

LEMMA StepGone ==
  ASSUME Base, Gone, [Next]_vars
  PROVE  Gone'
<1>1. Stable
  BY StepStable
<1>2. Known \subseteq Known' /\ Known \subseteq Ids
  BY <1>1 DEF Stable, Known, Ids, Base, Typed
<1>3. ASSUME NEW q \in done, op[q] = "delete"
      PROVE  /\ op'[q] = "delete" /\ arg'[q] = arg[q]
             /\ arg[q] \in Known /\ arg[q] \in Ids /\ secrets[arg[q]] = None
  BY <1>1, <1>2, <1>3 DEF Gone, Stable
<1>4. ASSUME UNCHANGED done,
             \A q \in done : op[q] = "delete" => secrets'[arg[q]] = None
      PROVE  Gone'
  BY <1>1, <1>2, <1>4 DEF Gone, Stable
<1>5. CASE Nothing
  BY <1>3, <1>4, <1>5 DEF Nothing
<1>6. ASSUME NEW r \in Requests, Same(r), Revealed(r) PROVE Gone'
  <2>1. op'[r] = "reveal" /\ done' = done \union {r} /\ secrets' = secrets
    BY <1>6 DEF Same, Revealed
  <2> QED
    BY <1>1, <1>2, <2>1 DEF Gone, Stable
<1>7. ASSUME NEW r \in Requests, Same(r), Inserted(r) PROVE Gone'
  <2>1. op'[r] = "create" /\ done' = done \union {r} /\ r \notin done
    BY <1>7 DEF Same, Inserted
  <2>2. ASSUME NEW q \in done, op[q] = "delete"
        PROVE  secrets'[arg[q]] = None
    <3>1. arg[q] # r
      BY <1>3, <2>1, <2>2, SecretsAssumption DEF Known
    <3> QED
      BY <1>3, <1>7, <2>2, <3>1 DEF Inserted, Base, Typed
  <2> QED
    BY <1>1, <1>2, <2>1, <2>2 DEF Gone, Stable
<1>8. ASSUME NEW r \in Requests, Same(r), Deleted(r) PROVE Gone'
  <2>1. /\ op[r] = "delete" /\ op'[r] = "delete" /\ arg'[r] = arg[r]
        /\ done' = done \union {r} /\ r \notin done
        /\ arg[r] \in Known /\ secrets[arg[r]] # None
    BY <1>8 DEF Same, Deleted
  <2>2. ASSUME NEW q \in done, op[q] = "delete"
        PROVE  arg[q] # arg[r] /\ secrets'[arg[q]] = None
    BY <1>3, <1>8, <2>1, <2>2 DEF Deleted, Base, Typed
  <2>3. secrets'[arg[r]] = None
    BY <1>2, <1>8, <2>1 DEF Deleted, Base, Typed
  <2> QED
    BY <1>1, <1>2, <2>1, <2>2, <2>3 DEF Gone, Stable
<1>9. ASSUME NEW p \in Projects, DeleteProject(p) PROVE Gone'
  <2>1. \A i \in Ids : secrets[i] = None => secrets'[i] = None
    BY <1>9 DEF DeleteProject
  <2> QED
    BY <1>3, <1>4, <1>9, <2>1 DEF DeleteProject
<1> QED
  BY <1>5, <1>6, <1>7, <1>8, <1>9, StepEffect

(* Who arrived after a delete was answered does not reveal what is gone.   *)
Later ==
  /\ \A r \in Requests : \A q \in before[r] : answer[q] # "none"
  /\ \A r, q \in Requests :
       /\ op[q] = "delete" /\ answer[q] = "ok" /\ q \in before[r]
       /\ op[r] = "reveal" /\ arg[r] = arg[q]
       => r \notin done

(* A request that was answered is past its arrival; one that arrives now   *)
(* comes after those that were answered.                                   *)
LEMMA StepBefore ==
  ASSUME Base, [Next]_vars, NEW r \in Requests
  PROVE  /\ answer[r] # "none" => op'[r] = op[r] /\ arg'[r] = arg[r]
         /\ \/ /\ before'[r] = before[r]
               /\ op'[r] = op[r] /\ arg'[r] = arg[r]
            \/ r \notin done' /\ \A q \in before'[r] : answer[q] # "none"
<1>1. CASE UNCHANGED <<op, arg, before>>
  BY <1>1
<1>2. ASSUME NEW q \in Requests, Ask(q)
      PROVE  /\ answer[r] # "none" => op'[r] = op[r] /\ arg'[r] = arg[r]
             /\ \/ /\ before'[r] = before[r]
                   /\ op'[r] = op[r] /\ arg'[r] = arg[r]
                \/ r \notin done' /\ \A p \in before'[r] : answer[p] # "none"
  <2>1. PICK o, a : Receive(q, o, a)
    BY <1>2 DEF Ask
  <2>2. q \notin done /\ answer[q] = "none"
    BY <2>1 DEF Base, Receive, Placed
  <2> QED
    BY <2>1, <2>2 DEF Base, Typed, Receive
<1>3. \/ UNCHANGED <<op, arg, before>>
      \/ \E q \in Requests : Ask(q)
  BY DEF Next, vars, secretVars, Refuse, Proceed, Insert, Select, Delete, List,
         Audit, Disturb, Abandon, NeverRuns, StopAll, StartWith, DeleteProject,
         Rest
<1> QED
  BY <1>1, <1>2, <1>3

LEMMA StepLater ==
  ASSUME Base, Base', Gone, Later, [Next]_vars
  PROVE  Later'
<1>1. Stable
  BY StepStable
<1>2. ASSUME NEW r \in Requests, NEW q \in before'[r]
      PROVE  answer'[q] # "none" /\ answer[q] # "none" /\ q \in Requests
  <2>1. answer[q] # "none"
    BY <1>2, StepBefore DEF Later
  <2>2. q \in Requests
    BY <1>2 DEF Base, Typed
  <2> QED
    BY <1>1, <2>1, <2>2 DEF Stable
<1>3. ASSUME NEW r \in Requests, NEW q \in Requests,
             op'[q] = "delete", answer'[q] = "ok", q \in before'[r],
             op'[r] = "reveal", arg'[r] = arg'[q]
      PROVE  r \notin done'
  <2>1. CASE r \notin done'
    BY <2>1
  <2>2. CASE /\ before'[r] = before[r]
             /\ op'[r] = op[r] /\ arg'[r] = arg[r]
    <3>1. /\ answer[q] = "ok" /\ op[q] = "delete"
          /\ arg'[q] = arg[q] /\ q \in before[r]
      BY <1>1, <1>2, <1>3, <2>2, StepBefore DEF Stable
    <3>2. r \notin done
      BY <1>3, <2>2, <3>1 DEF Later
    <3>3. secrets[arg[r]] = None
      <4>1. q \in done
        BY <3>1 DEF Base, Placed, Changes
      <4>2. arg[r] = arg[q]
        BY <1>3, <2>2, <3>1
      <4> QED
        BY <3>1, <4>1, <4>2 DEF Gone
    <3>4. ~Inserted(r) /\ ~Revealed(r) /\ ~Deleted(r)
      BY <1>3, <2>2, <3>3 DEF Inserted, Revealed, Deleted
    <3>5. \/ UNCHANGED done
          \/ \E p \in Requests : p # r /\ done' = done \union {p}
      BY <3>4, StepEffect DEF Nothing, Inserted, Revealed, Deleted, DeleteProject
    <3> QED
      BY <3>2, <3>5
  <2> QED
    BY <2>1, <2>2, StepBefore
<1> QED
  BY <1>2, <1>3 DEF Later

(* A secret is deleted once, and no reveal that arrives after the answer   *)
(* of the delete has its value, for any requests and whatever fails.       *)
THEOREM DeletesFinal == Spec => []DeleteIsFinal
<1>1. Init => Gone /\ Later
  BY DEF Init, Gone, Later
<1>2. Base /\ Gone /\ Later /\ [Next]_vars => Base' /\ Gone' /\ Later'
  BY StepBase, StepGone, StepLater
<1>3. Base /\ Gone /\ Later => DeleteIsFinal
  BY DEF Base, Typed, Gone, Later, DeleteIsFinal
<1> QED
  BY <1>1, <1>2, <1>3, InitBase, PTL DEF Spec

-----------------------------------------------------------------------------
(* Values and errors *)

(* A row holds the value of its own id, a reveal that is to be answered    *)
(* the value it asked for, decrypted with the key the server still has.    *)
Own(i) == secrets[i] # None => secrets[i].value = i
Read(r) ==
  pc[r] = "audit" /\ op[r] = "reveal" /\ answer[r] = "none" =>
    row[r].value = arg[r] /\ row[r].key = key
Valued(r) ==
  /\ pc[r] = "insert" => row[r].value = r
  /\ Read(r)
  /\ op[r] = "create" /\ answer[r] = "error" => arg[r] \in Projects \ projects
Sure ==
  /\ \A i \in Ids : Own(i)
  /\ \A r \in Requests : Valued(r)

LEMMA StepAlone ==
  ASSUME Base, NEW r \in Requests, Ask(r) \/ Refuse(r) \/ Proceed(r) \/ Disturb(r)
  PROVE  Only(r) /\ UNCHANGED <<key, projects>>
<1>1. CASE Ask(r)
  <2>1. PICK o, a : Receive(r, o, a)
    BY <1>1 DEF Ask
  <2> QED
    BY <2>1 DEF Base, Typed, Receive, Only
<1>2. CASE Refuse(r)
  BY <1>2 DEF Base, Typed, Refuse, Only
<1>3. CASE Proceed(r)
  BY <1>3 DEF Base, Typed, Proceed, Insert, Select, Delete, List, Audit, Respond,
              Continue, Only
<1>4. CASE Disturb(r)
  BY <1>4 DEF Base, Typed, Disturb, Abandon, NeverRuns, Continue, Only
<1> QED
  BY <1>1, <1>2, <1>3, <1>4

LEMMA StepOwn ==
  ASSUME Base, Sure, [Next]_vars, NEW i \in Ids
  PROVE  Own(i)'
<1>1. Own(i) /\ secrets[i] \in Secret \union {None}
  BY DEF Sure, Base, Typed
<1>2. CASE UNCHANGED secrets
  BY <1>1, <1>2 DEF Own
<1>3. ASSUME NEW r \in Requests, Insert(r)
      PROVE  Own(i)'
  <2>1. row[r].value = r
    BY <1>3 DEF Insert, Sure, Valued
  <2>2. secrets'[i] = secrets[i] \/ (i = r /\ secrets'[i] = row[r])
    BY <1>3 DEF Insert, Base, Typed
  <2> QED
    BY <1>1, <2>1, <2>2 DEF Own
<1>4. ASSUME NEW r \in Requests, Delete(r)
      PROVE  Own(i)'
  <2>1. secrets'[i] = secrets[i] \/ secrets'[i] = None
    BY <1>4 DEF Delete, Base, Typed
  <2> QED
    BY <1>1, <2>1 DEF Own
<1>5. ASSUME NEW p \in Projects, DeleteProject(p)
      PROVE  Own(i)'
  BY <1>1, <1>5 DEF DeleteProject, OrphanOf, Own, Secret
<1>6. \/ UNCHANGED secrets
      \/ \E r \in Requests : Insert(r) \/ Delete(r)
      \/ \E p \in Projects : DeleteProject(p)
  BY DEF Next, Refuse, Ask, Receive, Proceed, Select, List, Audit, Disturb, Abandon,
         NeverRuns, StopAll, StartWith, Rest, vars, secretVars
<1> QED
  BY <1>2, <1>3, <1>4, <1>5, <1>6

(* A step of its own leaves r as Valued says.                              *)
LEMMA OwnValued ==
  ASSUME Base, Sure, NEW r \in Requests,
         Ask(r) \/ Refuse(r) \/ Proceed(r) \/ Disturb(r)
  PROVE  Valued(r)'
<1>1. Typed /\ Placed(r) /\ Valued(r) /\ UNCHANGED <<key, projects>>
  BY StepAlone DEF Base, Sure
<1>2. CASE Ask(r)
  <2>1. PICK o, a : o \in Changes \union {"list"} /\ Receive(r, o, a)
    BY <1>2 DEF Ask, Changes
  <2>2. /\ answer[r] = "none" /\ op'[r] = o
        /\ \/ answer'[r] = "none" /\ pc'[r] = FirstStep(o)
           \/ answer'[r] = "bad request" /\ pc'[r] = "done"
    BY <1>1, <2>1 DEF Receive, Typed, Placed
  <2>3. FirstStep(o) # "audit" /\ (FirstStep(o) = "insert" => o = "create")
    BY <2>1 DEF FirstStep, Changes
  <2>4. ASSUME pc'[r] = "insert"
        PROVE  row'[r].value = r
    <3>1. o = "create" /\ pc'[r] # "done"
      BY <2>2, <2>3, <2>4
    <3>2. row' = [row EXCEPT ![r] = [value |-> r, key |-> key, project |-> a]]
      BY <1>1, <2>1, <3>1 DEF Receive, Typed
    <3> QED
      BY <1>1, <3>2 DEF Typed
  <2> QED
    BY <2>2, <2>3, <2>4 DEF Valued, Read
<1>3. CASE Refuse(r)
  BY <1>1, <1>3 DEF Refuse, Typed, Placed, Valued, Read
<1>4. CASE Insert(r)
  <2>1. op[r] = "create" /\ arg[r] \in Projects \union {None}
    BY <1>1, <1>4 DEF Insert, Placed, Secret
  <2>2. CASE Respond(r, "error")
    <3>1. answer'[r] = "error" => answer[r] = "error" \/ arg[r] \notin projects \union {None}
      BY <1>1, <1>4, <2>2 DEF Insert, Insertable, Typed, Respond, Continue, Running
    <3> QED
      BY <1>1, <1>4, <2>1, <2>2, <3>1 DEF Insert, Respond, Typed, Valued, Read
  <2>3. CASE Continue(r, "audit")
    BY <1>1, <1>4, <2>1, <2>3 DEF Insert, Continue, Typed, Valued, Read
  <2> QED
    BY <1>4, <2>2, <2>3 DEF Insert
<1>5. CASE Select(r)
  <2>1. op[r] = "reveal" /\ arg[r] \in Ids
    BY <1>1, <1>5 DEF Select, Placed, Known, Typed, Ids
  <2>2. row'[r] = secrets[arg[r]] /\ op'[r] = op[r] /\ arg'[r] = arg[r]
    BY <1>1, <1>5 DEF Select, Typed
  <2>3. pc'[r] = "audit" => secrets[arg[r]] # None /\ secrets[arg[r]].key = key
    BY <1>1, <1>5 DEF Select, Decrypts, Typed, Respond, Continue
  <2>4. pc'[r] \in {"audit", "done"}
    BY <1>1, <1>5 DEF Select, Typed, Respond, Continue
  <2>5. secrets[arg[r]] # None => secrets[arg[r]].value = arg[r]
    BY <2>1 DEF Sure, Own
  <2> QED
    BY <1>1, <2>1, <2>2, <2>3, <2>4, <2>5 DEF Valued, Read
<1>6. CASE Delete(r) \/ List(r) \/ Audit(r)
  <2>1. op'[r] = op[r] /\ (op[r] # "reveal" \/ Audit(r))
    BY <1>1, <1>6 DEF Delete, List, Audit, Placed
  <2>2. pc'[r] \in {"audit", "done"} /\ (Audit(r) => pc'[r] = "done")
    BY <1>1, <1>6 DEF Delete, List, Audit, Respond, Continue, Typed
  <2>3. answer'[r] = "error" => answer[r] = "error"
    BY <1>1, <1>6 DEF Delete, List, Audit, Respond, Continue, Typed
  <2>4. arg'[r] = arg[r]
    BY <1>6 DEF Delete, List, Audit
  <2> QED
    BY <1>1, <2>1, <2>2, <2>3, <2>4 DEF Valued, Read
<1>7. CASE Disturb(r)
  <2>1. UNCHANGED <<op, arg, row>>
    BY <1>7 DEF Disturb, Abandon, NeverRuns
  <2>2. \/ answer'[r] = "lost" /\ (pc'[r] = pc[r] \/ pc'[r] = "done")
        \/ answer'[r] = answer[r] /\ pc'[r] = "done"
    BY <1>1, <1>7 DEF Disturb, Abandon, NeverRuns, Continue, Typed, Running
  <2> QED
    BY <1>1, <2>1, <2>2 DEF Valued, Read
<1> QED
  BY <1>2, <1>3, <1>4, <1>5, <1>6, <1>7 DEF Proceed

LEMMA StepSure ==
  ASSUME Base, Sure, [Next]_vars
  PROVE  Sure'
<1>1. \A i \in Ids : Own(i)'
  BY StepOwn
<1>2. ASSUME NEW r \in Requests, NEW q \in Requests,
             Ask(q) \/ Refuse(q) \/ Proceed(q) \/ Disturb(q)
      PROVE  Valued(r)'
  <2>1. CASE q = r
    BY <1>2, <2>1, OwnValued
  <2>2. CASE q # r
    BY <1>2, <2>2, StepAlone DEF Only, Sure, Valued, Read
  <2> QED
    BY <2>1, <2>2
<1>3. ASSUME NEW r \in Requests,
             \/ StopAll \/ UNCHANGED vars
             \/ \E k \in Keys : StartWith(k)
             \/ \E p \in Projects : DeleteProject(p)
      PROVE  Valued(r)'
  <2>1. Typed /\ Placed(r) /\ Valued(r)
    BY DEF Base, Sure
  <2>2. UNCHANGED <<op, arg, row>> /\ projects' \subseteq projects
    BY <1>3 DEF StopAll, StartWith, DeleteProject, vars, secretVars
  <2>3. /\ pc'[r] = pc[r] \/ pc'[r] = "done"
        /\ answer'[r] = answer[r] \/ answer'[r] = "lost"
    BY <1>3, <2>1 DEF StopAll, StartWith, DeleteProject, vars, secretVars, Typed
  <2>4. Read(r)'
    <3>1. CASE StopAll
      BY <2>1, <2>2, <3>1 DEF StopAll, Running, Read, Typed
    <3>2. ASSUME NEW k \in Keys, StartWith(k)
          PROVE  Read(r)'
      <4>1. UNCHANGED <<pc, op, arg, row, answer>> /\ key = None
        BY <3>2 DEF StartWith, secretVars
      <4>2. ~(pc[r] = "audit" /\ op[r] = "reveal" /\ answer[r] = "none")
        BY <2>1, <4>1, SecretsAssumption DEF Placed, Valued, Read, Secret
      <4> QED
        BY <4>1, <4>2 DEF Read
    <3>3. CASE UNCHANGED vars \/ \E p \in Projects : DeleteProject(p)
      BY <2>1, <3>3 DEF DeleteProject, vars, secretVars, Valued, Read
    <3> QED
      BY <1>3, <3>1, <3>2, <3>3
  <2> QED
    BY <2>1, <2>2, <2>3, <2>4 DEF Valued
<1>4. \A r \in Requests : Valued(r)'
  BY <1>2, <1>3 DEF Next, Rest
<1> QED
  BY <1>1, <1>4 DEF Sure

LEMMA InitSure == Init => Sure
<1> SUFFICES ASSUME Init PROVE Sure
  OBVIOUS
<1>1. \A i \in Ids : Own(i)
  BY DEF Init, Own, Ids
<1> QED
  BY <1>1 DEF Init, Sure, Valued, Read

(* Who answers a reveal is the one who has read the row.                   *)
LEMMA StepReveal == Base /\ Sure /\ [Next]_vars => RevealExplained
<1> SUFFICES ASSUME Base, Sure, [Next]_vars, NEW r \in Requests,
                    op[r] = "reveal", answer'[r] # answer[r]
             PROVE  /\ answer'[r] = "ok" => told'[r] = arg[r] /\ row[r].key = key
                    /\ answer'[r] = "error" => secrets[arg[r]].key # key
  BY DEF RevealExplained
<1>1. Typed /\ Placed(r) /\ Valued(r)
  BY DEF Base, Sure
<1>2. ASSUME NEW q \in Requests, Ask(q) \/ Refuse(q) \/ Proceed(q) \/ Disturb(q)
      PROVE  q = r
  BY <1>2, StepAlone DEF Only
<1>3. CASE \/ StopAll \/ UNCHANGED vars
           \/ \E k \in Keys : StartWith(k)
           \/ \E p \in Projects : DeleteProject(p)
  BY <1>1, <1>3 DEF StopAll, StartWith, DeleteProject, vars, secretVars, Typed
<1>4. ~Ask(r) /\ ~Refuse(r)
  BY <1>1 DEF Ask, Receive, Refuse, Placed
<1>5. CASE Disturb(r)
  BY <1>1, <1>5 DEF Disturb, Abandon, NeverRuns, Continue, Typed
<1>6. CASE Proceed(r)
  <2>1. Select(r) \/ Audit(r)
    BY <1>1, <1>6 DEF Proceed, Insert, Delete, List, Placed
  <2>2. CASE Select(r)
    <3>1. answer'[r] \in {"not found", "error"}
      BY <1>1, <2>2 DEF Select, Respond, Continue, Typed
    <3>2. answer'[r] = "error" => ~Decrypts(secrets[arg[r]])
      BY <1>1, <2>2 DEF Select, Respond, Continue, Typed
    <3> QED
      BY <3>1, <3>2 DEF Decrypts
  <2>3. CASE Audit(r)
    <3>1. answer'[r] = "ok" /\ Running(r) /\ told'[r] = Plain(r) /\ pc[r] = "audit"
      BY <1>1, <2>3 DEF Audit, Respond, Typed
    <3>2. row[r].value = arg[r] /\ row[r].key = key
      BY <1>1, <3>1 DEF Valued, Read, Running
    <3> QED
      BY <3>1, <3>2 DEF Plain
  <2> QED
    BY <2>1, <2>2, <2>3
<1> QED
  BY <1>2, <1>3, <1>4, <1>5, <1>6 DEF Next, Rest

(* A reveal answers the value stored under its id, decrypted with the key  *)
(* the server has; and without a failure a reveal is answered with 500 only *)
(* for another key, a create only for a project that is gone.              *)
THEOREM SecretAnswers == Spec => AnswersExplained
<1>1. Base /\ Sure /\ [Next]_vars => Base' /\ Sure'
  BY StepBase, StepSure
<1>2. Spec => [](Base /\ Sure)
  BY <1>1, InitBase, InitSure, PTL DEF Spec
<1>3. Sure => CreateErrorExplained
  BY DEF Sure, Valued, CreateErrorExplained
<1>4. (Sure => CreateErrorExplained)'
  BY <1>3, PTL
<1>5. Base /\ Sure /\ Sure' /\ [Next]_vars => AnswerExplained
  BY <1>4, StepReveal DEF AnswerExplained
<1> QED
  BY <1>2, <1>5, PTL DEF AnswersExplained, Spec

-----------------------------------------------------------------------------
(* Bits *)

LEMMA Least ==
  ASSUME NEW T \in SUBSET Nat, T # {}
  PROVE  \E n \in T : \A m \in T : n <= m
<1>1. PICK n \in T : \A m \in T : <<m, n>> \notin OpToRel(<, Nat)
  BY NatLessThanWellFounded, WFMin
<1>2. \A m \in T : ~(m < n)
  BY <1>1 DEF OpToRel
<1> QED
  BY <1>2

Shifted(B) == {k + 1 : k \in B}
Parity(m) == IF m % 2 = 1 THEN {0} ELSE {}
BitsUpTo(f, n) ==
  f = [m \in 0 .. n |->
         IF m = 0 THEN {} ELSE Parity(m) \union Shifted(f[m \div 2])]

LEMMA BitsAt ==
  ASSUME NEW f, NEW n \in Nat, BitsUpTo(f, n), NEW m \in 0 .. n
  PROVE  f[m] = IF m = 0 THEN {} ELSE Parity(m) \union Shifted(f[m \div 2])
<1> DEFINE Value(i) == IF i = 0 THEN {} ELSE Parity(i) \union Shifted(f[i \div 2])
<1>1. f = [i \in 0 .. n |-> Value(i)]
  BY DEF BitsUpTo
<1>2. f[m] = Value(m)
  <2> HIDE DEF Value
  <2> QED
    BY <1>1
<1> QED
  BY <1>2

LEMMA BitsExist ==
  ASSUME NEW n \in Nat
  PROVE  \E f : BitsUpTo(f, n)
<1> DEFINE T == {m \in Nat : ~\E f : BitsUpTo(f, m)}
<1> SUFFICES ASSUME T # {} PROVE FALSE
  OBVIOUS
<1>1. PICK m \in T : \A i \in T : m <= i
  BY Least
<1>2. m # 0
  <2> DEFINE f == [i \in 0 .. 0 |-> {}]
  <2>1. BitsUpTo(f, 0)
    BY DEF BitsUpTo
  <2> QED
    BY <2>1
<1>3. PICK g : BitsUpTo(g, m - 1)
  BY <1>1, <1>2
<1> DEFINE last == Parity(m) \union Shifted(g[m \div 2])
           h == [i \in 0 .. m |-> IF i = m THEN last ELSE g[i]]
           k == [i \in 0 .. m |->
                   IF i = 0 THEN {} ELSE Parity(i) \union Shifted(h[i \div 2])]
<1>4. \A i \in 0 .. m : h[i] = k[i]
  <2> SUFFICES ASSUME NEW i \in 0 .. m PROVE h[i] = k[i]
    OBVIOUS
  <2>1. i # 0 => i \div 2 \in 0 .. m /\ i \div 2 # m
    OBVIOUS
  <2>2. i # 0 => h[i \div 2] = g[i \div 2]
    BY <2>1
  <2>3. CASE i = m
    BY <1>2, <2>2, <2>3
  <2>4. CASE i # m
    <3>1. g[i] = IF i = 0 THEN {} ELSE Parity(i) \union Shifted(g[i \div 2])
      <4>1. m - 1 \in Nat /\ i \in 0 .. m - 1
        BY <1>2, <2>4
      <4> QED
        BY <1>3, <4>1, BitsAt
    <3> QED
      BY <2>2, <2>4, <3>1
  <2> QED
    BY <2>3, <2>4
<1>5. h = k
  BY <1>4
<1>6. BitsUpTo(h, m)
  BY <1>5 DEF BitsUpTo
<1> QED
  BY <1>1, <1>6

LEMMA BitsAgree ==
  ASSUME NEW f, NEW g, NEW n \in Nat, NEW p \in Nat, BitsUpTo(f, n), BitsUpTo(g, p),
         NEW i \in Nat, i <= n, i <= p
  PROVE  f[i] = g[i]
<1> DEFINE T == {m \in Nat : m <= n /\ m <= p /\ f[m] # g[m]}
<1> SUFFICES ASSUME T # {} PROVE FALSE
  OBVIOUS
<1>1. PICK m \in T : \A j \in T : m <= j
  BY Least
<1>2. /\ f[m] = IF m = 0 THEN {} ELSE Parity(m) \union Shifted(f[m \div 2])
      /\ g[m] = IF m = 0 THEN {} ELSE Parity(m) \union Shifted(g[m \div 2])
  <2>1. m \in 0 .. n /\ m \in 0 .. p
    OBVIOUS
  <2> QED
    BY <2>1, BitsAt
<1>3. m # 0 => m \div 2 \in Nat /\ m \div 2 < m
  OBVIOUS
<1>4. m # 0 => f[m \div 2] = g[m \div 2]
  BY <1>1, <1>3
<1> QED
  BY <1>2, <1>4

LEMMA BitsAre ==
  ASSUME NEW n \in Nat
  PROVE  Bits(n) = IF n = 0 THEN {} ELSE Parity(n) \union Shifted(Bits(n \div 2))
<1>1. ASSUME NEW m \in Nat
      PROVE  \E f : BitsUpTo(f, m) /\ Bits(m) = f[m]
  <2> DEFINE f == CHOOSE f : BitsUpTo(f, m)
  <2>1. BitsUpTo(f, m)
    BY BitsExist
  <2>2. Bits(m) = f[m]
    BY DEF Bits, BitsUpTo, Parity, Shifted
  <2> QED
    BY <2>1, <2>2
<1>2. PICK f : BitsUpTo(f, n) /\ Bits(n) = f[n]
  BY <1>1
<1>3. n \div 2 \in Nat /\ n \div 2 <= n
  OBVIOUS
<1>4. PICK g : BitsUpTo(g, n \div 2) /\ Bits(n \div 2) = g[n \div 2]
  BY <1>1, <1>3
<1>5. f[n \div 2] = g[n \div 2]
  BY <1>2, <1>3, <1>4, BitsAgree
<1>6. f[n] = IF n = 0 THEN {} ELSE Parity(n) \union Shifted(f[n \div 2])
  <2>1. n \in 0 .. n
    OBVIOUS
  <2> QED
    BY <1>2, <2>1, BitsAt
<1> QED
  BY <1>2, <1>4, <1>5, <1>6

LEMMA BitsNat ==
  ASSUME NEW n \in Nat
  PROVE  Bits(n) \in SUBSET Nat
<1> DEFINE T == {m \in Nat : Bits(m) \notin SUBSET Nat}
<1> SUFFICES ASSUME T # {} PROVE FALSE
  OBVIOUS
<1>1. PICK m \in T : \A j \in T : m <= j
  BY Least
<1>2. Bits(m) = IF m = 0 THEN {} ELSE Parity(m) \union Shifted(Bits(m \div 2))
  BY BitsAre
<1>3. m # 0 => m \div 2 \in Nat /\ m \div 2 < m
  OBVIOUS
<1>4. m # 0 => Bits(m \div 2) \in SUBSET Nat
  BY <1>1, <1>3
<1> QED
  BY <1>2, <1>4 DEF Parity, Shifted

(* The lowest bit is the parity, and the others are those of the half.     *)
LEMMA BitsHalve ==
  ASSUME NEW n \in Nat, n # 0
  PROVE  /\ 0 \in Bits(n) <=> n % 2 = 1
         /\ \A k \in Nat : k + 1 \in Bits(n) <=> k \in Bits(n \div 2)
<1>1. Bits(n) = Parity(n) \union Shifted(Bits(n \div 2))
  BY BitsAre
<1>2. n \div 2 \in Nat
  OBVIOUS
<1>3. Bits(n \div 2) \in SUBSET Nat
  BY <1>2, BitsNat
<1> QED
  BY <1>1, <1>3 DEF Parity, Shifted

LEMMA BitsOfNone ==
  ASSUME NEW n \in Nat, Bits(n) = {}
  PROVE  n = 0
<1> DEFINE T == {m \in Nat : m # 0 /\ Bits(m) = {}}
<1> SUFFICES ASSUME T # {} PROVE FALSE
  OBVIOUS
<1>1. PICK m \in T : \A j \in T : m <= j
  BY Least
<1>2. m % 2 # 1 /\ \A k \in Nat : k \notin Bits(m \div 2)
  BY BitsHalve
<1>3. m \div 2 \in Nat /\ m \div 2 # 0 /\ m \div 2 < m
  BY <1>2
<1>4. Bits(m \div 2) = {}
  BY <1>2, <1>3, BitsNat
<1> QED
  BY <1>1, <1>3, <1>4

(* Different numbers differ in a bit.                                      *)
LEMMA BitsTell ==
  ASSUME NEW m \in Nat, NEW n \in Nat, Bits(m) = Bits(n)
  PROVE  m = n
<1> DEFINE T == {i \in Nat : \E j \in Nat : i # j /\ Bits(i) = Bits(j)}
<1> SUFFICES ASSUME T # {} PROVE FALSE
  OBVIOUS
<1>1. PICK i \in T : \A j \in T : i <= j
  BY Least
<1>2. PICK j \in Nat : i # j /\ Bits(i) = Bits(j)
  OBVIOUS
<1>3. Bits(0) = {}
  BY BitsAre
<1>4. i # 0 /\ j # 0
  BY <1>2, <1>3, BitsOfNone
<1>5. i % 2 = 1 <=> j % 2 = 1
  BY <1>2, <1>4, BitsHalve
<1>6. i \div 2 \in Nat /\ j \div 2 \in Nat /\ i \div 2 < i
  BY <1>4
<1>7. Bits(i \div 2) = Bits(j \div 2)
  <2>1. \A k \in Nat : k \in Bits(i \div 2) <=> k \in Bits(j \div 2)
    BY <1>2, <1>4, BitsHalve
  <2>2. Bits(i \div 2) \in SUBSET Nat /\ Bits(j \div 2) \in SUBSET Nat
    BY <1>6, BitsNat
  <2> QED
    BY <2>1, <2>2
<1>8. i \div 2 = j \div 2
  BY <1>1, <1>6, <1>7
<1> QED
  BY <1>2, <1>5, <1>8

(* constant_time_eq says whether the two are equal, whatever bytes and     *)
(* lengths they have.                                                      *)
THEOREM ConstantTimeEqExact ==
  ASSUME NEW left \in Seq(Byte), NEW right \in Seq(Byte)
  PROVE  ConstantTimeEq(left, right) <=> left = right
<1>1. Len(left) \in Nat /\ Len(right) \in Nat
  OBVIOUS
<1>2. ASSUME NEW a \in Nat, NEW b \in Nat
      PROVE  Xor(a, b) = {} <=> a = b
  <2>1. Xor(a, b) = {} => Bits(a) = Bits(b)
    BY DEF Xor
  <2>2. a = b => Xor(a, b) = {}
    BY DEF Xor
  <2> QED
    BY <2>1, <2>2, BitsTell
<1> DEFINE longest == IF Len(left) > Len(right) THEN Len(left) ELSE Len(right)
<1>3. ConstantTimeEq(left, right) <=>
        /\ Xor(Len(left), Len(right)) = {}
        /\ \A i \in 1 .. longest : Xor(ByteAt(left, i), ByteAt(right, i)) = {}
  BY DEF ConstantTimeEq
<1>4. ASSUME NEW i \in 1 .. longest
      PROVE  ByteAt(left, i) \in Nat /\ ByteAt(right, i) \in Nat
  <2>1. ASSUME NEW s \in Seq(Byte)
        PROVE  ByteAt(s, i) \in Nat
    <3>1. CASE i \in DOMAIN s
      <4>1. s[i] \in Byte
        BY <3>1, LenProperties, ElementOfSeq
      <4>2. ByteAt(s, i) = s[i]
        BY <3>1 DEF ByteAt
      <4>3. Byte \in SUBSET Nat
        BY DEF Byte
      <4> QED
        BY <4>1, <4>2, <4>3
    <3>2. CASE i \notin DOMAIN s
      BY <3>2 DEF ByteAt
    <3> QED
      BY <3>1, <3>2
  <2> QED
    BY <2>1
<1>5. ConstantTimeEq(left, right) <=>
        /\ Len(left) = Len(right)
        /\ \A i \in 1 .. longest : ByteAt(left, i) = ByteAt(right, i)
  <2> HIDE DEF longest
  <2> QED
    BY <1>1, <1>2, <1>3, <1>4
<1>6. CASE Len(left) = Len(right)
  <2>1. \A i \in 1 .. Len(left) : ByteAt(left, i) = left[i] /\ ByteAt(right, i) = right[i]
    BY <1>6, LenProperties DEF ByteAt
  <2>2. left = right <=> \A i \in 1 .. Len(left) : left[i] = right[i]
    BY <1>6, SeqEqual
  <2>3. longest = Len(left)
    BY <1>1, <1>6
  <2> QED
    BY <1>5, <1>6, <2>1, <2>2, <2>3
<1>7. CASE Len(left) # Len(right)
  BY <1>5, <1>7
<1> QED
  BY <1>6, <1>7

-----------------------------------------------------------------------------
(* The guarded secrets are secrets *)

LEMMA StepSecrets == [GuardedNext]_guardedVars => [Next]_vars
<1>1. ASSUME NEW r \in Requests, NEW t, Arrive(r, t)
      PROVE  Next
  BY <1>1 DEF Arrive, Next
<1>2. ASSUME NEW r \in Requests, Handle(r)
      PROVE  Next
  BY <1>2 DEF Handle, Next
<1>3. CASE StopServer
  BY <1>3 DEF StopServer, Next
<1>4. CASE StartServer
  <2>1. PICK c \in Configs : Start(c) /\ StartWith(c.key)
    BY <1>4 DEF StartServer
  <2>2. c.key \in Keys
    BY <2>1, GuardedAssumption DEF Start
  <2> QED
    BY <2>1, <2>2 DEF Next
<1>5. CASE RemoveProject
  BY <1>5 DEF RemoveProject, Next
<1>6. CASE LogIn \/ Pass \/ AllRest \/ UNCHANGED guardedVars
  BY <1>6 DEF LogIn, Pass, AllRest, guardedVars
<1> QED
  BY <1>1, <1>2, <1>3, <1>4, <1>5, <1>6 DEF GuardedNext

(* Whatever the server is started with and whoever arrives with a token or *)
(* without, what happens to the secrets is what the module Secrets says.   *)
THEOREM GuardedImplements == GuardedSpec => Spec
<1>1. GuardedInit => Init
  BY DEF GuardedInit
<1> QED
  BY <1>1, StepSecrets, PTL DEF GuardedSpec, Spec

(* ... and so everything that was proved of it holds behind require_auth.  *)
THEOREM GuardedHolds ==
  GuardedSpec => /\ [](TypeOK /\ SecretHolds /\ DeleteIsFinal)
                 /\ AnswersExplained
                 /\ ImplementsAuditTrail
BY GuardedImplements, SecretsTyped, SecretsHold, DeletesFinal, SecretAnswers,
   SecretsAudited, PTL

-----------------------------------------------------------------------------
(* Tokens *)

(* A token is of a login with the password that was set, and lives from    *)
(* then on for the Lifetime; whoever was let through has had one.          *)
TokensSound ==
  \A t \in tokens : /\ t.typed = t.set
                    /\ t.iat \in Nat /\ t.exp = t.iat + Lifetime
Admitted ==
  \A r \in Requests :
    pc[r] # "idle" /\ answer[r] # "unauthorized" =>
      gate[r] \in tokens /\ gate[r] # NoToken
Guarded ==
  /\ Base
  /\ now \in Nat
  /\ server = Down \/ server \in Configs
  /\ DOMAIN gate = Requests
  /\ TokensSound /\ Admitted

LEMMA InitGuarded == GuardedInit => Guarded
<1> SUFFICES ASSUME GuardedInit PROVE Guarded
  OBVIOUS
<1>1. Base
  BY InitBase DEF GuardedInit
<1>2. \A r \in Requests : pc[r] = "idle"
  BY DEF GuardedInit, Init
<1> QED
  BY <1>1, <1>2 DEF GuardedInit, AuthInit, Guarded, TokensSound, Admitted

(* What a login adds.                                                      *)
LEMMA LoginSound ==
  ASSUME Guarded, LogIn
  PROVE  /\ TokensSound' /\ tokens \subseteq tokens'
         /\ UNCHANGED <<now, server, vars, gate>>
<1>1. PICK a \in Attempts : Login(a)
  BY DEF LogIn
<1>2. /\ a \in Seq(Byte) /\ server \in Configs /\ server.password \in Seq(Byte)
  BY <1>1, AuthenticationAssumption DEF Login, Guarded
<1>3. a = server.password
  BY <1>1, <1>2, ConstantTimeEqExact DEF Login
<1> DEFINE new == [iat |-> now, exp |-> Expiry(now), jwt |-> server.jwt,
                   typed |-> a, set |-> server.password]
<1>4. tokens' = tokens \union {new} /\ UNCHANGED <<now, server>>
  BY <1>1 DEF Login
<1>5. /\ new.typed = new.set
      /\ new.iat \in Nat /\ new.exp = new.iat + Lifetime
  BY <1>3 DEF Expiry, Guarded
<1>6. TokensSound'
  <2> HIDE DEF new
  <2> QED
    BY <1>4, <1>5 DEF Guarded, TokensSound
<1> QED
  BY <1>4, <1>6 DEF LogIn

(* require_auth, for one request.                                          *)
LEMMA ArriveFacts ==
  ASSUME Guarded, NEW r \in Requests, NEW t \in tokens \union {NoToken},
         Arrive(r, t)
  PROVE  /\ pc[r] = "idle" /\ gate'[r] = t /\ UNCHANGED authVars
         /\ \A q \in Requests \ {r} :
              pc'[q] = pc[q] /\ answer'[q] = answer[q] /\ gate'[q] = gate[q]
         /\ DOMAIN gate' = Requests
         /\ IF Passes(t) THEN answer'[r] # "unauthorized"
                         ELSE answer'[r] = "unauthorized"
<1>1. gate' = [gate EXCEPT ![r] = t] /\ DOMAIN gate = Requests /\ Typed
  BY DEF Arrive, Guarded, Base
<1>2. Ask(r) \/ Refuse(r)
  BY DEF Arrive
<1>3. pc[r] = "idle" /\ answer[r] = "none"
  BY <1>2 DEF Guarded, Base, Placed, Ask, Receive, Refuse
<1>4. Only(r)
  BY <1>2, StepAlone DEF Guarded
<1>5. CASE Passes(t)
  <2>1. PICK o, a : Receive(r, o, a)
    BY <1>5 DEF Arrive, Ask
  <2>2. answer'[r] \in {"none", "bad request"}
    BY <1>1, <1>3, <2>1 DEF Receive, Typed
  <2> QED
    BY <1>1, <1>3, <1>4, <1>5, <2>2 DEF Arrive, Only
<1>6. CASE ~Passes(t)
  <2>1. answer'[r] = "unauthorized"
    BY <1>1, <1>6 DEF Arrive, Refuse, Typed
  <2> QED
    BY <1>1, <1>3, <1>4, <1>6, <2>1 DEF Arrive, Only
<1> QED
  BY <1>5, <1>6

(* No other step begins a request, or takes an answer back.                *)
LEMMA OtherSteps ==
  ASSUME Guarded, [GuardedNext]_guardedVars,
         ~ \E r \in Requests, t \in tokens \union {NoToken} : Arrive(r, t)
  PROVE  /\ UNCHANGED gate
         /\ \A r \in Requests :
              /\ pc[r] = "idle" => pc'[r] = "idle"
              /\ answer'[r] # "unauthorized" => answer[r] # "unauthorized"
<1>1. ASSUME NEW r \in Requests, Handle(r), NEW q \in Requests
      PROVE  /\ UNCHANGED gate /\ (pc[q] = "idle" => pc'[q] = "idle")
             /\ answer'[q] # "unauthorized" => answer[q] # "unauthorized"
  <2>1. Only(r) /\ UNCHANGED gate /\ Typed
    BY <1>1, StepAlone DEF Handle, Guarded, Base
  <2>2. Stable
    <3>1. [Next]_vars
      BY StepSecrets
    <3> QED
      BY <3>1, StepStable DEF Guarded
  <2>3. pc[r] # "idle"
    BY <1>1 DEF Handle, Proceed, Insert, Select, Delete, List, Audit, Disturb, Abandon,
                NeverRuns, Running, Writing
  <2> QED
    BY <2>1, <2>2, <2>3 DEF Only, Stable
<1>2. CASE LogIn \/ Pass \/ AllRest \/ RemoveProject \/ UNCHANGED guardedVars
  BY <1>2 DEF LogIn, Pass, AllRest, RemoveProject, DeleteProject, Rest, guardedVars,
              vars, secretVars
<1>3. CASE StartServer
  BY <1>3 DEF StartServer, StartWith, secretVars
<1>4. CASE StopServer
  BY <1>4 DEF StopServer, StopAll, Running, Guarded, Base, Typed
<1> QED
  BY <1>1, <1>2, <1>3, <1>4 DEF GuardedNext

LEMMA StepGuarded ==
  ASSUME Guarded, [GuardedNext]_guardedVars
  PROVE  Guarded'
<1>1. Base'
  BY StepSecrets, StepBase DEF Guarded
<1>2. ASSUME NEW r \in Requests, NEW t \in tokens \union {NoToken}, Arrive(r, t)
      PROVE  Guarded'
  <2>1. UNCHANGED <<now, server, tokens>>
    BY <1>2, ArriveFacts DEF authVars
  <2>2. Passes(t) => t \in tokens /\ t # NoToken
    BY DEF Passes
  <2>3. Admitted'
    <3> SUFFICES ASSUME NEW q \in Requests, pc'[q] # "idle", answer'[q] # "unauthorized"
                 PROVE  gate'[q] \in tokens' /\ gate'[q] # NoToken
      BY DEF Admitted, NoToken
    <3>1. CASE q = r
      BY <1>2, <2>1, <2>2, <3>1, ArriveFacts
    <3>2. CASE q # r
      BY <1>2, <2>1, <3>2, ArriveFacts DEF Guarded, Admitted
    <3> QED
      BY <3>1, <3>2
  <2> QED
    BY <1>1, <1>2, <2>1, <2>3, ArriveFacts DEF Guarded, TokensSound
<1>3. ASSUME ~ \E r \in Requests, t \in tokens \union {NoToken} : Arrive(r, t)
      PROVE  Guarded'
  <2>1. /\ now' \in Nat /\ (server' = Down \/ server' \in Configs)
        /\ TokensSound' /\ tokens \subseteq tokens'
    <3>1. CASE LogIn
      BY <3>1, LoginSound DEF Guarded
    <3>2. CASE Pass
      BY <3>2 DEF Pass, Tick, Guarded, TokensSound
    <3>3. CASE StopServer
      BY <3>3 DEF StopServer, Stop, Guarded, TokensSound
    <3>4. CASE StartServer
      BY <3>4 DEF StartServer, Start, Guarded, TokensSound
    <3>5. CASE UNCHANGED authVars
      BY <3>5 DEF authVars, Guarded, TokensSound
    <3>6. CASE RemoveProject \/ AllRest \/ UNCHANGED guardedVars \/ \E r \in Requests : Handle(r)
      BY <3>5, <3>6 DEF RemoveProject, AllRest, guardedVars, Handle
    <3> QED
      BY <1>3, <3>1, <3>2, <3>3, <3>4, <3>6 DEF GuardedNext
  <2>2. Admitted'
    <3> SUFFICES ASSUME NEW r \in Requests, pc'[r] # "idle", answer'[r] # "unauthorized"
                 PROVE  gate'[r] \in tokens' /\ gate'[r] # NoToken
      BY DEF Admitted, NoToken
    <3> QED
      BY <1>3, <2>1, OtherSteps DEF Guarded, Admitted
  <2> QED
    BY <1>1, <1>3, <2>1, <2>2, OtherSteps DEF Guarded
<1> QED
  BY <1>2, <1>3

LEMMA AlwaysGuarded == GuardedSpec => []Guarded
BY InitGuarded, StepGuarded, PTL DEF GuardedSpec

(* A plain text has left the panel only for a request that is recorded in  *)
(* the audit log and came with a token of a login with the password of its *)
(* time, byte for byte: for any passwords, tokens, restarts and requests.  *)
THEOREM PlaintextsTraceable == GuardedSpec => []PlaintextTraceable
<1>1. Guarded => PlaintextTraceable
  <2> SUFFICES ASSUME Guarded, NEW r \in Requests, told[r] # None
               PROVE  /\ r \in Recorded /\ gate[r] # NoToken
                      /\ gate[r].typed = gate[r].set
    BY DEF PlaintextTraceable
  <2>1. r \in Recorded /\ answer[r] = "ok" /\ pc[r] # "idle"
    BY DEF Guarded, Base, Placed
  <2>2. gate[r] \in tokens /\ gate[r] # NoToken
    BY <2>1 DEF Guarded, Admitted
  <2> QED
    BY <2>1, <2>2 DEF Guarded, TokensSound
<1> QED
  BY <1>1, AlwaysGuarded, PTL

LEMMA StepTokens == Guarded /\ [GuardedNext]_guardedVars => TokenLives
<1> SUFFICES ASSUME Guarded, [GuardedNext]_guardedVars, NEW r \in Requests,
                    pc[r] = "idle", pc'[r] # "idle", gate'[r] # NoToken
             PROVE  LET age == now - gate'[r].iat IN
                    IF answer'[r] = "unauthorized"
                    THEN gate'[r].jwt # server.jwt \/ age > Lifetime
                    ELSE gate'[r].jwt = server.jwt /\ age <= Lifetime + Leeway
  BY DEF TokenLives
<1>1. PICK q \in Requests, t \in tokens \union {NoToken} : Arrive(q, t)
  BY OtherSteps
<1>2. q = r
  BY <1>1, ArriveFacts
<1>3. /\ gate'[r] = t /\ t \in tokens
      /\ IF Passes(t) THEN answer'[r] # "unauthorized"
                      ELSE answer'[r] = "unauthorized"
  BY <1>1, <1>2, ArriveFacts
<1>4. /\ now \in Nat /\ t.iat \in Nat /\ t.exp = t.iat + Lifetime
      /\ Lifetime \in Nat /\ Leeway \in Nat
  BY <1>3, AuthenticationAssumption DEF Guarded, TokensSound
<1>5. Passes(t) <=> t.jwt = server.jwt /\ now <= t.iat + Lifetime + Leeway
  BY <1>3, <1>4 DEF Passes, Verifies
<1> QED
  BY <1>3, <1>4, <1>5

(* A token opens the panel for its 24 hours and not beyond the leeway,     *)
(* over restarts and changed passwords, and with another JWT_SECRET never. *)
THEOREM TokensLive == GuardedSpec => TokenLife
BY StepTokens, AlwaysGuarded, PTL DEF TokenLife, GuardedSpec
=================================================================================
