-------------------------- MODULE ProjectRecordsProofs --------------------------
(***************************************************************************)
(* ProjectRecords for any requests, rows and pages.                        *)
(*                                                                         *)
(* It implements AuditTrail: the statement is the act, a DELETE that finds *)
(* nothing included, and the INSERT into audit_logs its record.  Then, by  *)
(* the invariant Coherent, the properties its run checks: types and foreign *)
(* keys, what an update leaves behind, what a page shows, and the causes of *)
(* a 204 without an effect and of a 500.                                   *)
(***************************************************************************)
EXTENDS ProjectRecords, SequenceTheorems, WellFoundedInduction, TLAPS

Steps == {"idle", "exists", "insert", "update", "delete", "get", "list",
          "count", "rows", "audit", "done"}
Answers == {"none", "ok", "not found", "bad request", "error", "lost"}

(* The requests whose statement has run.                                   *)
Effective == done \union void

Typed ==
  /\ pc \in [Requests -> Steps]
  /\ op \in [Requests -> Operations \union {"none"}]
  /\ answer \in [Requests -> Answers]
  /\ audit \in Seq(Requests)

(* Who has acted, who has not yet, and who only reads.                     *)
Placed(r) ==
  /\ pc[r] \in {"idle", "exists", "insert", "update", "delete"}
       => r \notin Effective
  /\ pc[r] = "audit" => r \in Effective \ Recorded
  /\ pc[r] \in {"get", "list", "count", "rows"} => op[r] \in Readings
  /\ pc[r] = "idle" => answer[r] = "none"

Trailed ==
  /\ Typed
  /\ Recorded \subseteq Effective
  /\ \A r \in Requests : Placed(r)

(* Who was told of a success.                                              *)
Told == {r \in Requests : op[r] \in Changes /\ answer[r] = "ok"}

(* A step of request r alone.                                              *)
Only(r) ==
  \A q \in Requests \ {r} : /\ pc'[q] = pc[q] /\ op'[q] = op[q]
                            /\ answer'[q] = answer[q]

-----------------------------------------------------------------------------

LEMMA InitTrailed == Init => Trailed
<1> SUFFICES ASSUME Init PROVE Trailed
  OBVIOUS
<1>1. Typed
  BY DEF Init, Typed, Steps, Answers
<1>2. \A r \in Requests : Placed(r)
  BY DEF Init, Placed, Effective
<1>3. Recorded = {}
  BY DEF Init, Recorded
<1> QED
  BY <1>1, <1>2, <1>3 DEF Trailed

(* What a step of r that neither acts nor records leaves behind.           *)
LEMMA QuietStep ==
  ASSUME Trailed, NEW r \in Requests, Typed', Only(r), Placed(r)',
         UNCHANGED <<audit, done, void>>, r \in Told' <=> r \in Told
  PROVE  Trailed' /\ UNCHANGED Log!vars
<1>1. UNCHANGED <<Recorded, Effective>>
  BY DEF Recorded, Effective
<1>2. ASSUME NEW q \in Requests, q # r PROVE Placed(q)'
  BY <1>1, <1>2 DEF Trailed, Placed, Only
<1>3. Trailed'
  BY <1>1, <1>2 DEF Trailed
<1>4. \A q \in Requests : q \in Told' <=> q \in Told
  BY DEF Only, Told
<1>5. UNCHANGED Told
  BY <1>4 DEF Told
<1> QED
  BY <1>3, <1>5 DEF Log!vars, Told

(* The effect of a statement is the act of the trail.                      *)
LEMMA ActStep ==
  ASSUME Trailed, NEW r \in Requests, Typed', Only(r), Continue(r, "audit"),
         UNCHANGED audit, r \notin Effective,
         Effective' = Effective \union {r}, r \in Told' <=> r \in Told
  PROVE  Trailed' /\ Log!Act(r)
<1>1. UNCHANGED Recorded
  BY DEF Recorded
<1>2. Placed(r)'
  BY <1>1 DEF Trailed, Typed, Placed, Continue
<1>3. ASSUME NEW q \in Requests, q # r PROVE Placed(q)'
  BY <1>1, <1>3 DEF Trailed, Placed, Only
<1>4. Trailed'
  BY <1>1, <1>2, <1>3 DEF Trailed
<1>5. \A q \in Requests : q \in Told' <=> q \in Told
  BY DEF Only, Told
<1>6. UNCHANGED Told
  BY <1>5 DEF Told
<1> QED
  BY <1>4, <1>6 DEF Log!Act, Told, Effective

(* Which statement an operation begins with.                               *)
LEMMA FirstSteps ==
  ASSUME NEW o \in Changes \union Readings
  PROVE  /\ FirstStep(o) \in Steps \ {"idle", "audit", "done"}
         /\ o \in Changes => FirstStep(o) \in {"exists", "update"}
         /\ o \in Readings => FirstStep(o) \in {"get", "list", "count", "rows"}
BY DEF FirstStep, Changes, Readings, Steps

LEMMA ReceiveQuiet ==
  ASSUME Trailed, NEW r \in Requests, NEW o \in Operations, NEW t, NEW w,
         Receive(r, o, t, w, FirstStep(o)), o \in Changes \union Readings
  PROVE  Trailed' /\ UNCHANGED Log!vars
<1>1. answer[r] = "none" /\ r \notin Effective
  BY DEF Trailed, Receive, Placed
<1>2. Typed'
  BY FirstSteps DEF Trailed, Typed, Receive
<1>3. Only(r)
  BY DEF Trailed, Typed, Receive, Only
<1>4. Placed(r)'
  <2>1. /\ pc'[r] = FirstStep(o) /\ op'[r] = o /\ answer'[r] = "none"
        /\ r \notin Effective'
    BY <1>1 DEF Trailed, Typed, Receive, Effective
  <2>2. pc'[r] # "audit"
    BY <2>1, FirstSteps
  <2>3. pc'[r] \in {"get", "list", "count", "rows"} => o \in Readings
    BY <2>1, FirstSteps
  <2> QED
    BY <2>1, <2>2, <2>3 DEF Placed
<1>5. r \notin Told /\ r \notin Told'
  BY <1>1 DEF Receive, Told
<1> QED
  BY <1>2, <1>3, <1>4, <1>5, QuietStep DEF Receive

LEMMA RefusedQuiet ==
  ASSUME Trailed, NEW r \in Requests, pc[r] = "idle",
         pc' = [pc EXCEPT ![r] = "done"],
         answer' = [answer EXCEPT ![r] = "bad request"],
         UNCHANGED <<op, audit, done, void>>
  PROVE  Trailed' /\ UNCHANGED Log!vars
<1>1. Typed'
  BY DEF Trailed, Typed, Steps, Answers
<1>2. Only(r)
  BY DEF Trailed, Typed, Only
<1>3. Placed(r)'
  BY DEF Trailed, Typed, Placed
<1>4. r \notin Told /\ r \notin Told'
  BY DEF Trailed, Typed, Placed, Told
<1> QED
  BY <1>1, <1>2, <1>3, <1>4, QuietStep

LEMMA AskQuiet ==
  ASSUME Trailed, NEW r \in Requests, AskChange(r) \/ AskReading(r)
  PROVE  Trailed' /\ UNCHANGED Log!vars
<1>1. CASE AskChange(r)
  <2>1. \/ \E o \in Operations : \E t, w :
             /\ o \in Changes
             /\ Receive(r, o, t, w, FirstStep(o))
        \/ /\ pc[r] = "idle"
           /\ pc' = [pc EXCEPT ![r] = "done"]
           /\ answer' = [answer EXCEPT ![r] = "bad request"]
           /\ UNCHANGED <<op, audit, done, void>>
    BY <1>1 DEF AskChange
  <2> QED
    BY <2>1, ReceiveQuiet, RefusedQuiet
<1>2. CASE AskReading(r)
  <2>1. FirstStep("get") = "get" /\ FirstStep("list") = "list"
    BY DEF FirstStep
  <2>2. \E o \in Operations : \E t, w :
          o \in Readings /\ Receive(r, o, t, w, FirstStep(o))
    BY <1>2, <2>1 DEF AskReading, Readings
  <2> QED
    BY <2>2, ReceiveQuiet
<1> QED
  BY <1>1, <1>2

(* Looking whether a row is there.                                         *)
LEMMA CheckQuiet ==
  ASSUME Trailed, NEW r \in Requests, CheckExists(r)
  PROVE  Trailed' /\ UNCHANGED Log!vars
<1>1. Typed'
  BY DEF Trailed, Typed, CheckExists, Respond, Continue, Steps, Answers
<1>2. Only(r)
  BY DEF Trailed, Typed, CheckExists, Respond, Continue, Only
<1>3. r \notin Effective'
  BY DEF Trailed, Placed, CheckExists, Effective
<1>4. Placed(r)'
  BY <1>3 DEF Trailed, Typed, CheckExists, Respond, Continue, Placed
<1>5. r \in Told' <=> r \in Told
  BY DEF Trailed, Typed, CheckExists, Respond, Continue, Running, Told
<1> QED
  BY <1>1, <1>2, <1>4, <1>5, QuietStep DEF CheckExists

(* A statement that is refused answers at once; one that runs is the act.  *)
LEMMA StatementActs ==
  ASSUME Trailed, NEW r \in Requests, Insert(r) \/ Update(r) \/ Delete(r)
  PROVE  Trailed' /\ (Log!Act(r) \/ UNCHANGED Log!vars)
<1>1. UNCHANGED <<audit, op>> /\ r \notin Effective
  BY DEF Trailed, Placed, Insert, Update, Delete
<1>2. \/ /\ UNCHANGED <<done, void>>
         /\ Respond(r, "error") \/ Respond(r, "not found")
      \/ Effective' = Effective \union {r} /\ Continue(r, "audit")
  BY DEF Insert, Update, Delete, Effective
<1>3. Typed'
  BY <1>1, <1>2 DEF Trailed, Typed, Respond, Continue, Steps, Answers
<1>4. Only(r)
  BY <1>1, <1>2 DEF Trailed, Typed, Respond, Continue, Only
<1>5. r \in Told' <=> r \in Told
  BY <1>1, <1>2 DEF Trailed, Typed, Respond, Continue, Running, Told
<1>6. ASSUME UNCHANGED <<done, void>>,
             Respond(r, "error") \/ Respond(r, "not found")
      PROVE  Trailed' /\ UNCHANGED Log!vars
  <2>1. Placed(r)'
    BY <1>6 DEF Trailed, Typed, Respond, Placed
  <2> QED
    BY <1>1, <1>3, <1>4, <1>5, <1>6, <2>1, QuietStep
<1> QED
  BY <1>1, <1>2, <1>3, <1>4, <1>5, <1>6, ActStep

(* The INSERT is the record, and only then comes the answer.               *)
LEMMA AuditRecords ==
  ASSUME Trailed, NEW r \in Requests, Audit(r)
  PROVE  Trailed' /\ Log!Record(r)
<1>1. audit' \in Seq(Requests) /\ Recorded' = Recorded \union {r}
  <2>1. audit \in Seq(Requests) /\ audit' = Append(audit, r)
    BY DEF Trailed, Typed, Audit
  <2> QED
    BY <2>1 DEF Recorded
<1>2. Typed'
  BY <1>1 DEF Trailed, Typed, Audit, Respond, Steps, Answers
<1>3. Only(r)
  BY DEF Trailed, Typed, Audit, Respond, Only
<1>4. r \in Effective \ Recorded /\ UNCHANGED Effective
  BY DEF Trailed, Audit, Placed, Effective
<1>5. Placed(r)'
  BY <1>4 DEF Trailed, Typed, Audit, Respond, Placed
<1>6. ASSUME NEW q \in Requests, q # r PROVE Placed(q)'
  BY <1>1, <1>3, <1>4, <1>6 DEF Trailed, Placed, Only
<1>7. Trailed'
  BY <1>1, <1>2, <1>4, <1>5, <1>6 DEF Trailed
<1>8. \A q \in Requests \ {r} : q \in Told' <=> q \in Told
  BY <1>3 DEF Only, Told
<1>9. r \in Told => r \in Told'
  BY DEF Trailed, Typed, Audit, Respond, Running, Told
<1>10. Told' = Told \/ Told' = Told \union {r}
  BY <1>8, <1>9 DEF Told
<1>11. Log!Record(r)
  BY <1>4, <1>10 DEF Log!Record, Log!Recorded, Recorded, Told, Effective, Audit
<1> QED
  BY <1>7, <1>11

(* The operations that only read neither act nor record.                   *)
LEMMA ReadingQuiet ==
  ASSUME Trailed, NEW r \in Requests,
         \/ Get(r) \/ List(r) \/ CountRows(r) \/ ReadRows(r) \/ Panic(r)
  PROVE  Trailed' /\ UNCHANGED Log!vars
<1>1. /\ Continue(r, "rows") \/ \E a \in Answers : Respond(r, a)
      /\ UNCHANGED <<audit, op, done, void>>
  BY DEF Get, List, CountRows, ReadRows, Panic, Answers
<1>2. op[r] \in Readings
  BY DEF Trailed, Placed, Get, List, CountRows, ReadRows, Panic, Readings
<1>3. Typed'
  BY <1>1 DEF Trailed, Typed, Respond, Continue, Steps, Answers
<1>4. Only(r)
  BY <1>1 DEF Trailed, Typed, Respond, Continue, Only
<1>5. Placed(r)'
  BY <1>1, <1>2 DEF Trailed, Typed, Respond, Continue, Placed
<1>6. r \notin Told /\ r \notin Told'
  BY <1>1, <1>2 DEF Told, Changes, Readings
<1> QED
  BY <1>1, <1>3, <1>4, <1>5, <1>6, QuietStep

LEMMA DisturbQuiet ==
  ASSUME Trailed, NEW r \in Requests, Abandon(r) \/ NeverRuns(r)
  PROVE  Trailed' /\ UNCHANGED Log!vars
<1>1. Typed'
  BY DEF Trailed, Typed, Abandon, NeverRuns, Continue, Steps, Answers
<1>2. Only(r)
  BY DEF Trailed, Typed, Abandon, NeverRuns, Continue, Only
<1>3. UNCHANGED <<audit, op, done, void>> /\ UNCHANGED <<Recorded, Effective>>
  BY DEF Abandon, NeverRuns, Recorded, Effective
<1>4. Placed(r)'
  BY <1>3 DEF Trailed, Typed, Abandon, NeverRuns, Continue, Running, Placed
<1>5. r \in Told' <=> r \in Told
  BY DEF Trailed, Typed, Abandon, NeverRuns, Continue, Running, Told
<1> QED
  BY <1>1, <1>2, <1>3, <1>4, <1>5, QuietStep

(* Every step keeps the invariant, and is one of the audit trail or none.  *)
LEMMA StepTrailed ==
  ASSUME Trailed, [Next]_vars
  PROVE  Trailed' /\ [Log!Next]_(Log!vars)
<1>1. ASSUME NEW r \in Requests, AskChange(r) \/ AskReading(r)
      PROVE  Trailed' /\ UNCHANGED Log!vars
  BY <1>1, AskQuiet
<1>2. ASSUME NEW r \in Requests, Proceed(r)
      PROVE  Trailed' /\ [Log!Next]_(Log!vars)
  BY <1>2, CheckQuiet, StatementActs, AuditRecords, ReadingQuiet
     DEF Proceed, Log!Next
<1>3. ASSUME NEW r \in Requests, Disturb(r)
      PROVE  Trailed' /\ UNCHANGED Log!vars
  BY <1>3, DisturbQuiet, ReadingQuiet DEF Disturb
<1>4. CASE \/ UNCHANGED vars
           \/ \E p \in Projects : RecordQuery(p) \/ DeleteProject(p)
  <2>1. UNCHANGED <<audit, pc, op, answer, done, void>>
    BY <1>4 DEF RecordQuery, DeleteProject, vars
  <2>2. UNCHANGED <<Recorded, Effective, Told>>
    BY <2>1 DEF Recorded, Effective, Told
  <2>3. Trailed'
    BY <2>1, <2>2 DEF Trailed, Typed, Placed
  <2> QED
    BY <2>1, <2>2, <2>3 DEF Log!vars, Told
<1> QED
  BY <1>1, <1>2, <1>3, <1>4 DEF Next, Rest

(* Whatever requests there are, saved queries and project updates implement *)
(* the audit trail: no row without its statement, one row a request, and    *)
(* the row before the answer.                                               *)
THEOREM RecordsAudited == Spec => ImplementsAuditTrail
<1>1. Init => Log!Init
  BY DEF Init, Log!Init
<1>2. Trailed /\ [Next]_vars => Trailed' /\ [Log!Next]_(Log!vars)
  BY StepTrailed
<1> QED
  BY <1>1, <1>2, InitTrailed, PTL DEF Spec, ImplementsAuditTrail, Log!Spec

-----------------------------------------------------------------------------
(* Induction over a set of numbers or of sequences, from the least of them *)

LEMMA Least ==
  ASSUME NEW T \in SUBSET Nat, T # {}
  PROVE  \E n \in T : \A m \in T : n <= m
<1>1. PICK n \in T : \A m \in T : <<m, n>> \notin OpToRel(<, Nat)
  BY NatLessThanWellFounded, WFMin
<1>2. \A m \in T : ~(m < n)
  BY <1>1 DEF OpToRel
<1> QED
  BY <1>2

LEMMA NumbersFromZero ==
  ASSUME NEW P \in SUBSET Nat, 0 \in P, \A n \in P : n + 1 \in P
  PROVE  P = Nat
<1> SUFFICES ASSUME Nat \ P # {} PROVE FALSE
  OBVIOUS
<1>1. PICK n \in Nat \ P : \A m \in Nat \ P : n <= m
  BY Least
<1>2. n - 1 \in P
  BY <1>1
<1> QED
  BY <1>1, <1>2

LEMMA SequencesFromEmpty ==
  ASSUME NEW S, NEW P \in SUBSET Seq(S), << >> \in P,
         \A s \in P, e \in S : Append(s, e) \in P
  PROVE  P = Seq(S)
<1> DEFINE N == {n \in Nat : \A s \in Seq(S) : Len(s) = n => s \in P}
<1>1. 0 \in N
  OBVIOUS
<1>2. ASSUME NEW n \in N PROVE n + 1 \in N
  <2> SUFFICES ASSUME NEW s \in Seq(S), Len(s) = n + 1 PROVE s \in P
    OBVIOUS
  <2> DEFINE front == SubSeq(s, 1, n)
  <2>1. front \in Seq(S) /\ Len(front) = n /\ s[n + 1] \in S
    BY <1>2
  <2>2. front \in P
    BY <1>2, <2>1
  <2>3. /\ Append(front, s[n + 1]) \in Seq(S)
        /\ Len(Append(front, s[n + 1])) = n + 1
        /\ \A i \in 1 .. n + 1 : Append(front, s[n + 1])[i] = s[i]
    BY <1>2, <2>1
  <2>4. s = Append(front, s[n + 1])
    BY <1>2, <2>3, SeqEqual
  <2> QED
    BY <2>1, <2>2, <2>4
<1>3. N = Nat
  <2> HIDE DEF N
  <2> QED
    BY <1>1, <1>2, NumbersFromZero DEF N
<1>4. \A s \in Seq(S) : Len(s) \in N
  BY <1>3
<1> QED
  BY <1>4

-----------------------------------------------------------------------------
(* WHERE *)

Begins(g, n, s, T) ==
  g = [i \in 0 .. n |->
         IF i = 0 THEN << >>
         ELSE IF s[i] \in T THEN Append(g[i - 1], s[i]) ELSE g[i - 1]]

LEMMA Begun ==
  ASSUME NEW s, NEW T, NEW n \in Nat
  PROVE  \E g : Begins(g, n, s, T)
<1> DEFINE P == {m \in Nat : \E g : Begins(g, m, s, T)}
<1>1. 0 \in P
  <2> DEFINE g == [i \in 0 .. 0 |-> << >>]
  <2>1. Begins(g, 0, s, T)
    BY DEF Begins
  <2> QED
    BY <2>1
<1>2. ASSUME NEW m \in P PROVE m + 1 \in P
  <2>1. PICK g : Begins(g, m, s, T)
    OBVIOUS
  <2> DEFINE last == IF s[m + 1] \in T THEN Append(g[m], s[m + 1]) ELSE g[m]
             h == [i \in 0 .. m + 1 |-> IF i = m + 1 THEN last ELSE g[i]]
  <2>2. \A i \in 0 .. m : h[i] = g[i]
    OBVIOUS
  <2>3. h[m + 1] = last
    OBVIOUS
  <2>4. \A i \in 0 .. m :
          g[i] = IF i = 0 THEN << >>
                 ELSE IF s[i] \in T THEN Append(g[i - 1], s[i]) ELSE g[i - 1]
    BY <2>1 DEF Begins
  <2> DEFINE k == [i \in 0 .. m + 1 |->
                     IF i = 0 THEN << >>
                     ELSE IF s[i] \in T THEN Append(h[i - 1], s[i])
                     ELSE h[i - 1]]
  <2>5. \A i \in 0 .. m + 1 : h[i] = k[i]
    <3> SUFFICES ASSUME NEW i \in 0 .. m + 1 PROVE h[i] = k[i]
      OBVIOUS
    <3>1. CASE i = m + 1
      <4>1. h[i - 1] = g[m] /\ i # 0
        BY <2>2, <3>1
      <4> QED
        BY <2>3, <3>1, <4>1
    <3>2. CASE i \in 0 .. m
      <4>1. h[i] = g[i] /\ (i # 0 => h[i - 1] = g[i - 1])
        BY <2>2, <3>2
      <4> QED
        BY <2>4, <3>2, <4>1
    <3> QED
      BY <3>1, <3>2
  <2>6. h = k
    BY <2>5
  <2>7. Begins(h, m + 1, s, T)
    BY <2>6 DEF Begins
  <2> QED
    BY <2>7
<1>3. P = Nat
  <2> HIDE DEF P
  <2> QED
    BY <1>1, <1>2, NumbersFromZero DEF P
<1> QED
  BY <1>3

LEMMA BeginsStep ==
  ASSUME NEW g, NEW s, NEW T, NEW n \in Nat, Begins(g, n, s, T),
         NEW i \in Nat, i + 1 <= n
  PROVE  g[i + 1] = IF s[i + 1] \in T THEN Append(g[i], s[i + 1]) ELSE g[i]
<1>1. i + 1 \in 0 .. n /\ i + 1 # 0 /\ (i + 1) - 1 = i
  OBVIOUS
<1>2. g[i + 1] = IF s[i + 1] \in T THEN Append(g[(i + 1) - 1], s[i + 1])
                 ELSE g[(i + 1) - 1]
  BY <1>1 DEF Begins
<1> QED
  BY <1>1, <1>2

LEMMA SelectedBegins ==
  ASSUME NEW s, NEW T, Len(s) \in Nat
  PROVE  \E g : Begins(g, Len(s), s, T) /\ Selected(s, T) = g[Len(s)]
<1> DEFINE f == CHOOSE g : Begins(g, Len(s), s, T)
<1>1. Begins(f, Len(s), s, T)
  BY Begun
<1>2. Selected(s, T) = f[Len(s)]
  BY DEF Selected, Begins
<1> QED
  BY <1>1, <1>2

Alike(s, t, m) == \A i \in 1 .. m : s[i] = t[i]

LEMMA BeginAlike ==
  ASSUME NEW s, NEW t, NEW T, NEW g, NEW h, NEW m \in Nat, NEW n \in Nat,
         m <= n, Begins(g, m, s, T), Begins(h, n, t, T), Alike(s, t, m)
  PROVE  g[m] = h[m]
<1> DEFINE P == {i \in Nat : i <= m => g[i] = h[i]}
<1>1. 0 \in P
  BY DEF Begins
<1>2. ASSUME NEW i \in P PROVE i + 1 \in P
  <2> SUFFICES ASSUME i + 1 <= m PROVE g[i + 1] = h[i + 1]
    OBVIOUS
  <2>1. g[i] = h[i] /\ s[i + 1] = t[i + 1]
    BY DEF Alike
  <2>2. g[i + 1] = IF s[i + 1] \in T THEN Append(g[i], s[i + 1]) ELSE g[i]
    BY BeginsStep
  <2>3. h[i + 1] = IF t[i + 1] \in T THEN Append(h[i], t[i + 1]) ELSE h[i]
    BY BeginsStep
  <2> QED
    BY <2>1, <2>2, <2>3
<1>3. P = Nat
  <2> HIDE DEF P
  <2> QED
    BY <1>1, <1>2, NumbersFromZero DEF P
<1> QED
  BY <1>3

LEMMA SelectedFromNone ==
  ASSUME NEW T
  PROVE  Selected(<< >>, T) = << >>
<1>1. PICK g : /\ Begins(g, Len(<< >>), << >>, T)
               /\ Selected(<< >>, T) = g[Len(<< >>)]
  BY SelectedBegins
<1> QED
  BY <1>1 DEF Begins

(* A row that is added is selected or not, and disturbs no other.          *)
LEMMA SelectedFromMore ==
  ASSUME NEW S, NEW s \in Seq(S), NEW e \in S, NEW T
  PROVE  Selected(Append(s, e), T)
           = IF e \in T THEN Append(Selected(s, T), e) ELSE Selected(s, T)
<1> DEFINE n == Len(s)
           t == Append(s, e)
<1>1. /\ Len(t) \in Nat /\ n \in Nat /\ Len(t) = n + 1 /\ t[n + 1] = e
      /\ \A i \in 1 .. n : s[i] = t[i]
  OBVIOUS
<1> HIDE DEF n, t
<1>2. PICK g : Begins(g, n, s, T) /\ Selected(s, T) = g[n]
  BY <1>1, SelectedBegins DEF n
<1>3. PICK h : Begins(h, n + 1, t, T) /\ Selected(t, T) = h[n + 1]
  <2>1. PICK h : Begins(h, Len(t), t, T) /\ Selected(t, T) = h[Len(t)]
    BY <1>1, SelectedBegins
  <2> QED
    BY <1>1, <2>1
<1>4. g[n] = h[n]
  <2>1. PICK k \in Nat : k = n + 1
    BY <1>1
  <2>2. n <= k /\ Begins(h, k, t, T)
    BY <1>1, <1>3, <2>1
  <2>3. Alike(s, t, n)
    BY <1>1 DEF Alike
  <2> QED
    BY <1>1, <1>2, <2>2, <2>3, BeginAlike
<1>5. h[n + 1] = IF t[n + 1] \in T THEN Append(h[n], t[n + 1]) ELSE h[n]
  BY <1>1, <1>3, BeginsStep
<1> QED
  BY <1>1, <1>2, <1>3, <1>4, <1>5 DEF t

(* What is selected is a sequence of rows that are there and in T.         *)
LEMMA SelectedRows ==
  ASSUME NEW S, NEW s \in Seq(S), NEW T
  PROVE  /\ Selected(s, T) \in Seq(S)
         /\ \A i \in DOMAIN Selected(s, T) :
              /\ Selected(s, T)[i] \in T
              /\ \E j \in DOMAIN s : Selected(s, T)[i] = s[j]
<1> DEFINE Good(t) ==
             /\ Selected(t, T) \in Seq(S)
             /\ \A i \in DOMAIN Selected(t, T) :
                  /\ Selected(t, T)[i] \in T
                  /\ \E j \in DOMAIN t : Selected(t, T)[i] = t[j]
           P == {t \in Seq(S) : Good(t)}
<1>1. << >> \in P
  <2>1. << >> \in Seq(S) /\ DOMAIN << >> = {}
    OBVIOUS
  <2>2. Selected(<< >>, T) = << >>
    BY SelectedFromNone
  <2>3. Good(<< >>)
    BY <2>1, <2>2
  <2> QED
    BY <2>1, <2>3
<1>2. ASSUME NEW t \in P, NEW e \in S PROVE Append(t, e) \in P
  <2> DEFINE u == Append(t, e)
             a == Selected(t, T)
             b == Selected(u, T)
  <2>1. /\ t \in Seq(S) /\ u \in Seq(S) /\ a \in Seq(S)
        /\ b = IF e \in T THEN Append(a, e) ELSE a
    BY SelectedFromMore
  <2>2. DOMAIN u = 1 .. (Len(t) + 1) /\ Len(t) \in Nat /\ DOMAIN t = 1 .. Len(t)
    BY <2>1
  <2>3. u[Len(t) + 1] = e /\ \A j \in 1 .. Len(t) : u[j] = t[j]
    BY <2>1
  <2>4. ASSUME NEW i \in DOMAIN a
        PROVE  a[i] \in T /\ \E j \in DOMAIN u : a[i] = u[j]
    <3>1. PICK j \in DOMAIN t : a[i] = t[j]
      OBVIOUS
    <3>2. j \in DOMAIN u /\ a[i] = u[j]
      BY <2>2, <2>3, <3>1
    <3> QED
      BY <3>2
  <2>5. b \in Seq(S)
    BY <2>1
  <2>6. ASSUME NEW i \in DOMAIN b
        PROVE  b[i] \in T /\ \E j \in DOMAIN u : b[i] = u[j]
    <3>1. CASE e \notin T
      BY <2>1, <2>4, <3>1
    <3>2. CASE e \in T
      <4>1. b = Append(a, e)
        BY <2>1, <3>2
      <4>2. /\ Len(a) \in Nat /\ DOMAIN a = 1 .. Len(a)
            /\ DOMAIN b = 1 .. (Len(a) + 1) /\ b[Len(a) + 1] = e
            /\ \A k \in 1 .. Len(a) : b[k] = a[k]
        BY <2>1, <4>1
      <4>3. CASE i = Len(a) + 1
        <5>1. b[i] = e /\ Len(t) + 1 \in DOMAIN u /\ u[Len(t) + 1] = e
          BY <2>2, <2>3, <4>2, <4>3
        <5> QED
          BY <3>2, <5>1
      <4>4. CASE i \in DOMAIN a
        <5>1. b[i] = a[i]
          BY <4>2, <4>4
        <5> QED
          BY <2>4, <4>4, <5>1
      <4> QED
        BY <4>2, <4>3, <4>4
    <3> QED
      BY <3>1, <3>2
  <2>7. Good(u)
    BY <2>5, <2>6
  <2> QED
    BY <2>1, <2>7
<1>3. P = Seq(S)
  <2> HIDE DEF P
  <2>1. P \in SUBSET Seq(S)
    BY DEF P
  <2> QED
    BY <1>1, <1>2, <2>1, SequencesFromEmpty
<1>4. s \in P
  BY <1>3
<1> QED
  BY <1>4

(* To select from what is selected already loses nothing that is wanted.   *)
LEMMA SelectedTwice ==
  ASSUME NEW S, NEW s \in Seq(S), NEW T, NEW U, U \subseteq T
  PROVE  Selected(Selected(s, T), U) = Selected(s, U)
<1> DEFINE P == {t \in Seq(S) : Selected(Selected(t, T), U) = Selected(t, U)}
<1>1. << >> \in P
  BY SelectedFromNone
<1>2. ASSUME NEW t \in P, NEW e \in S PROVE Append(t, e) \in P
  <2>1. /\ t \in Seq(S) /\ Append(t, e) \in Seq(S)
        /\ Selected(t, T) \in Seq(S)
    BY SelectedRows
  <2>2. Selected(Append(t, e), T)
          = IF e \in T THEN Append(Selected(t, T), e) ELSE Selected(t, T)
    BY <2>1, SelectedFromMore
  <2>3. Selected(Append(t, e), U)
          = IF e \in U THEN Append(Selected(t, U), e) ELSE Selected(t, U)
    BY <2>1, SelectedFromMore
  <2>4. Selected(Append(Selected(t, T), e), U)
          = IF e \in U THEN Append(Selected(Selected(t, T), U), e)
            ELSE Selected(Selected(t, T), U)
    BY <2>1, SelectedFromMore
  <2>5. Selected(Selected(t, T), U) = Selected(t, U)
    OBVIOUS
  <2> QED
    BY <2>1, <2>2, <2>3, <2>4, <2>5
<1>3. P = Seq(S)
  <2> HIDE DEF P
  <2>1. P \in SUBSET Seq(S)
    BY DEF P
  <2> QED
    BY <1>1, <1>2, <2>1, SequencesFromEmpty
<1> QED
  BY <1>3

-----------------------------------------------------------------------------
(* What the answers rest on *)

Valued ==
  /\ rows \in [Targets -> Row \union {Absent}]
  /\ history \in Seq(Entry)
  /\ arg \in [Requests -> Targets \union {Absent}]
  /\ want \in [Requests -> Patch \union Listings \union {Absent}]
  /\ total \in [Requests -> Nat] /\ DOMAIN shown = Requests
  /\ done \subseteq Requests /\ void \subseteq Requests
  /\ before \in [Requests -> SUBSET Requests]

(* Foreign keys, unique names, and rows that only their request inserts.   *)
Related ==
  /\ \A i \in Ids : Exists(i) => Exists(rows[i].project)
  /\ \A i \in DOMAIN history : Exists(history[i].project)
  /\ \A p, q \in Projects :
       Exists(p) /\ Exists(q) /\ rows[p].name = rows[q].name => p = q
  /\ \A r \in Requests :
       Exists(r) => /\ r \in done /\ op[r] = "create"
                    /\ rows[r].project = arg[r]

(* What a request is about and has been told, by where it is.              *)
Informed(r) ==
  /\ pc[r] = "idle" => op[r] = "none" /\ total[r] = 0
  /\ pc[r] = "exists" => op[r] \in {"create", "delete"}
  /\ pc[r] = "insert" => op[r] = "create"
  /\ pc[r] = "update" => op[r] = "update"
  /\ pc[r] = "delete" => op[r] = "delete"
  /\ pc[r] = "get" => op[r] = "get"
  /\ pc[r] = "list" => op[r] = "list"
  /\ pc[r] = "count" => op[r] = "history"
  /\ pc[r] = "rows" => op[r] \in {"history", "audits"}
  /\ op[r] = "create" => /\ arg[r] \in Projects
                         /\ want[r] \in Patch /\ want[r].name # Keep
  /\ op[r] = "update" => arg[r] \in Projects \union Known /\ want[r] \in Patch
  /\ op[r] = "delete" => arg[r] \in Known
  /\ op[r] = "get" => arg[r] \in Projects \union Known
  /\ op[r] = "history" => arg[r] \in Projects /\ want[r] \in Listings
  /\ op[r] = "audits" => want[r] \in Listings /\ total[r] = 0
  /\ answer[r] # "none" => \/ pc[r] = "done"
                           \/ answer[r] = "lost" /\ pc[r] \in Writing
  /\ answer[r] = "ok" /\ op[r] \in Changes => r \in Effective
  /\ r \in done => op[r] \in Changes
  /\ r \in void => op[r] = "delete"
  /\ \A q \in before[r] : answer[q] # "none"

(* What a listing has counted is there until the project is deleted.       *)
CountStays(r) ==
  pc[r] = "rows" /\ op[r] = "history" =>
    \/ total[r] <= Len(Selected(history, Queries(r)))
    \/ ~Exists(arg[r])

(* Why the row that r is to delete is gone, if it is.                      *)
Gone(r) ==
  \/ \E q \in done : /\ op[q] = "delete" /\ arg[q] = arg[r]
                     /\ q \notin before[r] \/ answer[q] = "lost"
  \/ \E p \in Projects :
       ~Exists(p) /\ (arg[r] \in Requests => p = arg[arg[r]])

DeleteStays(r) ==
  op[r] = "delete" =>
    /\ r \in Effective => ~Exists(arg[r])
    /\ r \in void \/ (pc[r] = "delete" /\ ~Exists(arg[r])) => Gone(r)

(* UpdateHolds, from the UPDATE on and told or not.                        *)
Reset(r, f) ==
  \E q \in Requests : /\ op[q] = "update" /\ arg[q] = arg[r]
                      /\ MayFollow(q, r) /\ want[q][f] # Keep

FieldStays(r, f) ==
  op[r] = "update" /\ r \in done /\ want[r][f] # Keep =>
    \/ Reset(r, f)
    \/ /\ Exists(arg[r]) => rows[arg[r]][f] = NullIf(want[r][f])
       /\ \A q \in Requests :
            /\ op[q] = "get" /\ arg[q] = arg[r] /\ answer[q] = "ok"
            /\ r \in before[q] /\ answer[r] = "ok"
            => shown[q][f] = NullIf(want[r][f])

Coherent ==
  /\ Trailed /\ Valued /\ Related
  /\ \A r \in Requests : Informed(r) /\ CountStays(r) /\ DeleteStays(r)
  /\ \A r \in Requests, f \in {"name", "notes"} : FieldStays(r, f)

-----------------------------------------------------------------------------
(* What a step may do *)

Asks(r) == AskChange(r) \/ AskReading(r)
Outside == (\E p \in Projects : RecordQuery(p) \/ DeleteProject(p)) \/ UNCHANGED vars

(* What no step does to request q, and what one of r leaves of the others. *)
Steady(q) ==
  /\ answer'[q] # answer[q] => answer[q] = "none"
  /\ q \in done => q \in done'
  /\ q \in void => q \in void'
  /\ pc[q] # "idle" => /\ pc'[q] # "idle" /\ op'[q] = op[q] /\ arg'[q] = arg[q]
                       /\ want'[q] = want[q] /\ before'[q] = before[q]

Frame(r) ==
  \A q \in Requests \ {r} :
    /\ pc'[q] = pc[q] /\ op'[q] = op[q] /\ arg'[q] = arg[q] /\ want'[q] = want[q]
    /\ total'[q] = total[q] /\ shown'[q] = shown[q] /\ answer'[q] = answer[q]
    /\ before'[q] = before[q]
    /\ (q \in done' <=> q \in done) /\ (q \in void' <=> q \in void)

(* What a request may be about, when it arrives.                           *)
Asked(o, t, w) ==
  /\ o \in Operations
  /\ t \in Targets \union {Absent}
  /\ w \in Patch \union Listings \union {Absent}
  /\ o = "create" => t \in Projects /\ w \in Patch /\ w.name # Keep
  /\ o = "update" => t \in Projects \union Known /\ w \in Patch
  /\ o = "delete" => t \in Known
  /\ o = "get" => t \in Projects \union Known
  /\ o = "history" => t \in Projects /\ w \in Listings
  /\ o = "audits" => w \in Listings

Declined(r) ==
  /\ pc[r] = "idle"
  /\ pc' = [pc EXCEPT ![r] = "done"]
  /\ answer' = [answer EXCEPT ![r] = "bad request"]
  /\ UNCHANGED <<rows, history, audit, op, arg, want, total, shown, done, void,
                 before>>

LEMMA AskCases ==
  ASSUME Valued, NEW r \in Requests, Asks(r)
  PROVE  \/ \E o, t, w : Asked(o, t, w) /\ Receive(r, o, t, w, FirstStep(o))
         \/ Declined(r)
<1>1. Known \subseteq Targets /\ Projects \subseteq Targets
  BY DEF Valued, Known, Targets, Ids
<1>2. CASE AskChange(r)
  <2>1. PICK o \in Operations \intersect Changes, w \in Patches :
        \E t \in IF o = "create" THEN Projects
                 ELSE IF o = "delete" THEN Known ELSE Projects \union Known :
          /\ o = "create" => w.name # Keep
          /\ \/ Receive(r, o, t, IF o = "delete" THEN Absent ELSE w, FirstStep(o))
             \/ Declined(r)
    BY <1>2 DEF AskChange, Declined
  <2>2. PICK t \in IF o = "create" THEN Projects
                   ELSE IF o = "delete" THEN Known ELSE Projects \union Known :
          /\ o = "create" => w.name # Keep
          /\ \/ Receive(r, o, t, IF o = "delete" THEN Absent ELSE w, FirstStep(o))
             \/ Declined(r)
    BY <2>1
  <2> DEFINE x == IF o = "delete" THEN Absent ELSE w
  <2>3. w \in Patch
    BY RecordsAssumption
  <2>4. Asked(o, t, x)
    BY <1>1, <2>2, <2>3 DEF Asked, Changes
  <2> QED
    BY <2>2, <2>4
<1>3. CASE AskReading(r)
  <2>1. FirstStep("get") = "get" /\ FirstStep("list") = "list"
    BY DEF FirstStep
  <2>2. ASSUME NEW t \in Projects \union Known, Receive(r, "get", t, Absent, "get"),
               "get" \in Operations
        PROVE  Asked("get", t, Absent) /\ Receive(r, "get", t, Absent, FirstStep("get"))
    BY <1>1, <2>1, <2>2 DEF Asked
  <2>3. ASSUME NEW t \in Projects, Receive(r, "list", t, Absent, "list"),
               "list" \in Operations
        PROVE  Asked("list", t, Absent) /\ Receive(r, "list", t, Absent, FirstStep("list"))
    BY <1>1, <2>1, <2>3 DEF Asked
  <2>4. ASSUME NEW o \in Operations \intersect {"history", "audits"}, NEW w \in Listings,
               NEW t \in Projects \union (IF o = "audits" THEN {Absent} ELSE {})
        PROVE  Asked(o, t, w)
    BY <1>1, <2>4 DEF Asked
  <2> QED
    BY <1>3, <2>2, <2>3, <2>4 DEF AskReading
<1> QED
  BY <1>2, <1>3 DEF Asks

LEMMA StepFrame ==
  ASSUME Coherent, NEW r \in Requests, Asks(r) \/ Proceed(r) \/ Disturb(r)
  PROVE  Frame(r) /\ Steady(r)
<1> USE DEF Coherent, Trailed, Typed, Valued, Frame, Steady
<1>1. Placed(r) /\ Informed(r)
  OBVIOUS
<1>2. ASSUME NEW o, NEW t, NEW w, NEW step, Receive(r, o, t, w, step)
      PROVE  Frame(r) /\ Steady(r)
  BY <1>2 DEF Receive
<1>3. CASE Declined(r)
  BY <1>1, <1>3 DEF Declined, Placed
<1>4. CASE Asks(r)
  <2> HIDE DEF Frame, Steady
  <2> QED
    BY <1>2, <1>3, <1>4, AskCases
<1>5. CASE CheckExists(r)
  BY <1>5 DEF CheckExists, Respond, Continue, Running
<1>6. CASE Insert(r)
  BY <1>6 DEF Insert, Respond, Continue, Running
<1>7. CASE Update(r)
  BY <1>7 DEF Update, Respond, Continue, Running
<1>8. CASE Delete(r)
  BY <1>8 DEF Delete, Respond, Continue, Running
<1>9. CASE Audit(r)
  BY <1>9 DEF Audit, Respond, Running
<1>10. CASE Get(r)
  BY <1>10 DEF Get, Respond, Running
<1>11. CASE List(r)
  BY <1>11 DEF List, Respond, Running
<1>12. CASE CountRows(r)
  BY <1>12 DEF CountRows, Continue, Running
<1>13. CASE ReadRows(r)
  BY <1>13 DEF ReadRows, Respond, Running
<1>14. CASE Panic(r)
  BY <1>14 DEF Panic, Respond, Running, FirstStep
<1>15. CASE Abandon(r)
  BY <1>15 DEF Abandon, Running
<1>16. CASE NeverRuns(r)
  BY <1>16 DEF NeverRuns, Continue, Running
<1> QED
  BY <1>4, <1>5, <1>6, <1>7, <1>8, <1>9, <1>10, <1>11, <1>12, <1>13, <1>14,
     <1>15, <1>16 DEF Proceed, Disturb

LEMMA OutsideFrame ==
  ASSUME Outside
  PROVE  UNCHANGED <<audit, pc, op, arg, want, total, shown, answer, done, void,
                     before>>
BY DEF Outside, RecordQuery, DeleteProject, vars

LEMMA StepSteady ==
  ASSUME Coherent, [Next]_vars, NEW q \in Requests
  PROVE  Steady(q)
<1>1. ASSUME NEW r \in Requests, Asks(r) \/ Proceed(r) \/ Disturb(r)
      PROVE  Steady(q)
  <2>1. CASE q = r
    BY <1>1, <2>1, StepFrame
  <2>2. CASE q # r
    BY <1>1, <2>2, StepFrame DEF Frame, Steady
  <2> QED
    BY <2>1, <2>2
<1>2. CASE Outside
  BY <1>2, OutsideFrame DEF Steady
<1> QED
  BY <1>1, <1>2 DEF Next, Rest, Asks, Outside

-----------------------------------------------------------------------------
(* What a step does to the rows *)

NewRow(r) ==
  [project |-> arg[r], name |-> want[r].name,
   notes |-> IF want[r].notes = Keep THEN Null ELSE want[r].notes]

(* Whose statement runs in a step.                                         *)
Acts(r) == r \in Effective' /\ r \notin Effective

Inserts(r) ==
  /\ pc[r] = "insert" /\ op[r] = "create" /\ Exists(arg[r])
  /\ rows' = [rows EXCEPT ![r] = NewRow(r)]
  /\ done' = done \union {r} /\ void' = void
Updates(r) ==
  /\ pc[r] = "update" /\ op[r] = "update" /\ Exists(arg[r])
  /\ ~Refused(arg[r], Merged(rows[arg[r]], want[r]))
  /\ rows' = [rows EXCEPT ![arg[r]] = Merged(rows[arg[r]], want[r])]
  /\ done' = done \union {r} /\ void' = void
Deletes(r) ==
  /\ pc[r] = "delete" /\ op[r] = "delete"
  /\ rows' = [rows EXCEPT ![arg[r]] = Absent]
  /\ IF Exists(arg[r]) THEN done' = done \union {r} /\ void' = void
     ELSE void' = void \union {r} /\ done' = done

LEMMA ActFacts ==
  ASSUME Coherent, [Next]_vars, NEW r \in Requests, Acts(r)
  PROVE  /\ Inserts(r) \/ Updates(r) \/ Deletes(r)
         /\ Frame(r) /\ Continue(r, "audit")
         /\ UNCHANGED <<history, audit, op, arg, want, total, shown, before>>
<1>1. ASSUME NEW q \in Requests, Asks(q) \/ Proceed(q) \/ Disturb(q)
      PROVE  q = r
  BY <1>1, StepFrame DEF Frame, Acts, Effective
<1>2. ~Outside
  BY OutsideFrame DEF Acts, Effective
<1>3. Asks(r) \/ Proceed(r) \/ Disturb(r)
  BY <1>1, <1>2 DEF Next, Rest, Asks, Outside
<1>4. Frame(r) /\ Informed(r)
  BY <1>3, StepFrame DEF Coherent
<1>5. ~(done' = done /\ void' = void)
  BY DEF Acts, Effective
<1>6. Insert(r) \/ Update(r) \/ Delete(r)
  BY <1>3, <1>5
     DEF Asks, AskChange, AskReading, Receive, Proceed, Disturb, CheckExists,
         Audit, Get, List, CountRows, ReadRows, Panic, Abandon, NeverRuns
<1>7. CASE Insert(r)
  BY <1>4, <1>5, <1>7 DEF Insert, Inserts, NewRow, Informed
<1>8. CASE Update(r)
  BY <1>4, <1>5, <1>8 DEF Update, Updates, Informed
<1>9. CASE Delete(r)
  BY <1>4, <1>5, <1>9 DEF Delete, Deletes, Informed
<1> QED
  BY <1>6, <1>7, <1>8, <1>9

LEMMA RowsFacts ==
  ASSUME Coherent, [Next]_vars
  PROVE  \/ rows' = rows
         \/ \E r \in Requests : Acts(r)
         \/ \E p \in Projects : DeleteProject(p)
<1>1. ASSUME NEW r \in Requests, Insert(r) \/ Update(r) \/ Delete(r),
             rows' # rows
      PROVE  Acts(r)
  <2>1. r \notin Effective
    BY <1>1 DEF Coherent, Trailed, Placed, Insert, Update, Delete
  <2>2. r \in Effective'
    BY <1>1 DEF Insert, Update, Delete, Effective
  <2> QED
    BY <2>1, <2>2 DEF Acts
<1>2. ASSUME NEW r \in Requests, AskChange(r) \/ AskReading(r) \/ Disturb(r)
      PROVE  rows' = rows
  BY <1>2 DEF AskChange, AskReading, Receive, Disturb, Panic, Abandon, NeverRuns
<1>3. ASSUME NEW r \in Requests, Proceed(r)
      PROVE  rows' = rows \/ Insert(r) \/ Update(r) \/ Delete(r)
  BY <1>3 DEF Proceed, CheckExists, Audit, Get, List, CountRows, ReadRows
<1>4. ASSUME NEW p \in Projects, RecordQuery(p) PROVE rows' = rows
  BY <1>4 DEF RecordQuery
<1>5. CASE UNCHANGED vars
  BY <1>5 DEF vars
<1> QED
  BY <1>1, <1>2, <1>3, <1>4, <1>5 DEF Next, Rest

(* Ids that are known stay so, and whoever has run its statement stays     *)
(* what it is.                                                             *)
LEMMA EffectStays ==
  ASSUME Coherent, [Next]_vars, NEW r \in Requests, r \in Effective
  PROVE  /\ r \in Effective' /\ pc[r] # "idle"
         /\ op'[r] = op[r] /\ arg'[r] = arg[r] /\ want'[r] = want[r]
         /\ before'[r] = before[r]
<1>1. pc[r] # "idle"
  BY DEF Coherent, Trailed, Placed
<1>2. Steady(r)
  BY StepSteady
<1> QED
  BY <1>1, <1>2 DEF Steady, Effective

LEMMA KnownStays ==
  ASSUME Coherent, [Next]_vars
  PROVE  Known \subseteq Known' /\ Known \subseteq Ids
<1>1. done \subseteq Requests
  BY DEF Coherent, Valued
<1>2. ASSUME NEW r \in done PROVE r \in done' /\ op'[r] = op[r]
  BY <1>1, <1>2, StepSteady, EffectStays DEF Steady, Effective
<1> QED
  BY <1>1, <1>2 DEF Known, Ids

LEMMA MergedRow ==
  ASSUME NEW row \in Row, NEW w \in Patch
  PROVE  /\ Merged(row, w) \in Row
         /\ Merged(row, w).project = row.project
         /\ Merged(row, w).name = IF w.name = Keep THEN row.name ELSE w.name
         /\ Merged(row, w).notes = IF w.notes = Keep THEN row.notes
                                   ELSE NullIf(w.notes)
BY DEF Merged, Row, Patch, NullIf

(* An id of a saved query is none of a project, and no row of a request is *)
(* there before its INSERT.                                                *)
LEMMA AbsentBefore ==
  ASSUME Coherent, NEW r \in Requests, r \notin done
  PROVE  rows[r] = Absent
BY DEF Coherent, Related, Exists

(* What may become of the row t.                                           *)
LEMMA RowFacts ==
  ASSUME Coherent, [Next]_vars, NEW t \in Targets
  PROVE  \/ rows'[t] = rows[t]
         \/ /\ rows'[t] = Absent
            /\ \/ \E r \in Requests : Acts(r) /\ Deletes(r) /\ arg[r] = t
               \/ \E p \in Projects : DeleteProject(p) /\ t \in Cascade(p)
         \/ \E r \in Requests : /\ Acts(r) /\ Updates(r) /\ arg[r] = t
                                /\ rows'[t] = Merged(rows[t], want[r])
         \/ /\ t \in Requests /\ Acts(t) /\ Inserts(t)
            /\ rows[t] = Absent /\ rows'[t] = NewRow(t)
<1>1. rows \in [Targets -> Row \union {Absent}]
  BY DEF Coherent, Valued
<1>2. CASE rows' = rows
  BY <1>2
<1>3. ASSUME NEW r \in Requests, Acts(r), rows'[t] # rows[t]
      PROVE  \/ Deletes(r) /\ arg[r] = t /\ rows'[t] = Absent
             \/ Updates(r) /\ arg[r] = t /\ rows'[t] = Merged(rows[t], want[r])
             \/ t = r /\ Inserts(t) /\ rows[t] = Absent /\ rows'[t] = NewRow(t)
  <2>1. CASE Inserts(r)
    <3>1. r \notin done
      BY <1>3 DEF Acts, Effective
    <3>2. rows[r] = Absent
      BY <3>1, AbsentBefore
    <3> QED
      BY <1>1, <1>3, <2>1, <3>2 DEF Inserts
  <2>2. CASE Updates(r)
    BY <1>1, <1>3, <2>2 DEF Updates
  <2>3. CASE Deletes(r)
    BY <1>1, <1>3, <2>3 DEF Deletes
  <2> QED
    BY <1>3, <2>1, <2>2, <2>3, ActFacts
<1>4. ASSUME NEW p \in Projects, DeleteProject(p), rows'[t] # rows[t]
      PROVE  t \in Cascade(p) /\ rows'[t] = Absent
  BY <1>4 DEF DeleteProject
<1> QED
  BY <1>2, <1>3, <1>4, RowsFacts

-----------------------------------------------------------------------------
(* Each part of the invariant is kept *)

LEMMA UpdatedRow ==
  ASSUME Coherent, NEW r \in Requests, Updates(r)
  PROVE  /\ arg[r] \in Targets /\ want[r] \in Patch /\ rows[arg[r]] \in Row
         /\ Merged(rows[arg[r]], want[r]) \in Row
<1>1. arg[r] \in Projects \union Known /\ want[r] \in Patch
  BY DEF Coherent, Informed, Updates
<1>2. arg[r] \in Targets
  BY <1>1 DEF Coherent, Valued, Known, Targets, Ids
<1>3. rows[arg[r]] \in Row
  BY <1>2 DEF Coherent, Valued, Updates, Exists
<1> QED
  BY <1>1, <1>2, <1>3, MergedRow

LEMMA InsertedRow ==
  ASSUME Coherent, NEW r \in Requests, Inserts(r)
  PROVE  NewRow(r) \in Row /\ arg[r] \in Projects
BY DEF Coherent, Informed, Inserts, NewRow, Row, Patch

LEMMA RowNotAbsent == Absent \notin Row
BY RecordsAssumption

(* No project comes back.                                                  *)
LEMMA ProjectStays ==
  ASSUME Coherent, [Next]_vars, NEW p \in Projects
  PROVE  /\ Exists(p)' => Exists(p)
         /\ Exists(p) /\ ~Exists(p)' => DeleteProject(p)
<1>1. p \in Targets /\ p \notin Ids /\ p \notin Requests
  BY RecordsAssumption DEF Targets, Ids
<1>2. CASE rows'[p] = rows[p]
  BY <1>2 DEF Exists
<1>3. ASSUME NEW r \in Requests, Deletes(r), arg[r] = p
      PROVE  FALSE
  <2>1. arg[r] \in Known
    BY <1>3 DEF Coherent, Informed, Deletes
  <2> QED
    BY <1>1, <1>3, <2>1, KnownStays
<1>4. ASSUME NEW q \in Projects, DeleteProject(q), p \in Cascade(q)
      PROVE  DeleteProject(p) /\ Exists(p)
  <2>1. p = q
    BY <1>1, <1>4 DEF Cascade
  <2> QED
    BY <1>4, <2>1 DEF DeleteProject
<1>5. ASSUME NEW r \in Requests, Updates(r), arg[r] = p,
             rows'[p] = Merged(rows[p], want[r])
      PROVE  Exists(p) /\ Exists(p)'
  BY <1>5, UpdatedRow, RowNotAbsent DEF Updates, Exists
<1> QED
  BY <1>1, <1>2, <1>3, <1>4, <1>5, RowFacts DEF Exists

LEMMA StepRows ==
  ASSUME Coherent, [Next]_vars
  PROVE  rows' \in [Targets -> Row \union {Absent}]
<1>1. rows \in [Targets -> Row \union {Absent}]
  BY DEF Coherent, Valued
<1>2. ASSUME NEW r \in Requests, Acts(r)
      PROVE  rows' \in [Targets -> Row \union {Absent}]
  <2>1. CASE Inserts(r)
    BY <1>1, <2>1, InsertedRow DEF Inserts
  <2>2. CASE Updates(r)
    BY <1>1, <2>2, UpdatedRow DEF Updates
  <2>3. CASE Deletes(r)
    BY <1>1, <2>3 DEF Deletes
  <2> QED
    BY <1>2, <2>1, <2>2, <2>3, ActFacts
<1>3. ASSUME NEW p \in Projects, DeleteProject(p)
      PROVE  rows' \in [Targets -> Row \union {Absent}]
  BY <1>1, <1>3 DEF DeleteProject
<1> QED
  BY <1>1, <1>2, <1>3, RowsFacts

LEMMA HistoryFacts ==
  ASSUME [Next]_vars
  PROVE  \/ history' = history
         \/ \E p \in Projects : RecordQuery(p) \/ DeleteProject(p)
<1>1. ASSUME NEW r \in Requests, AskChange(r) \/ AskReading(r)
      PROVE  history' = history
  BY <1>1 DEF AskChange, AskReading, Receive
<1>2. ASSUME NEW r \in Requests, CheckExists(r) \/ Insert(r) \/ Update(r) \/ Delete(r)
      PROVE  history' = history
  BY <1>2 DEF CheckExists, Insert, Update, Delete
<1>3. ASSUME NEW r \in Requests, Audit(r) \/ Get(r) \/ List(r) \/ CountRows(r) \/ ReadRows(r)
      PROVE  history' = history
  BY <1>3 DEF Audit, Get, List, CountRows, ReadRows
<1>4. ASSUME NEW r \in Requests, Disturb(r)
      PROVE  history' = history
  BY <1>4 DEF Disturb, Panic, Abandon, NeverRuns
<1>5. CASE UNCHANGED vars
  BY <1>5 DEF vars
<1> QED
  BY <1>1, <1>2, <1>3, <1>4, <1>5 DEF Next, Rest, Proceed

LEMMA RecordedQuery ==
  ASSUME Coherent, NEW p \in Projects, RecordQuery(p)
  PROVE  \E e \in Entry : e.project = p /\ history' = Append(history, e)
BY DEF RecordQuery, Entry

LEMMA StepHistory ==
  ASSUME Coherent, [Next]_vars
  PROVE  /\ history' \in Seq(Entry)
         /\ \A i \in DOMAIN history' : rows'[history'[i].project] # Absent
<1>1. history \in Seq(Entry) /\ \A i \in DOMAIN history : Exists(history[i].project)
  BY DEF Coherent, Valued, Related
<1>2. \A i \in DOMAIN history : history[i].project \in Projects
  <2>1. ASSUME NEW i \in DOMAIN history PROVE history[i] \in Entry
    BY <1>1, <2>1, LenProperties, ElementOfSeq
  <2> QED
    BY <2>1 DEF Entry
<1>3. CASE \E p \in Projects : DeleteProject(p)
  <2>1. PICK p \in Projects : DeleteProject(p)
    BY <1>3
  <2> DEFINE T == {e \in Entry : e.project # p}
  <2>2. history' = Selected(history, T)
    BY <2>1 DEF DeleteProject
  <2>3. /\ history' \in Seq(Entry)
        /\ \A i \in DOMAIN history' :
             /\ history'[i] \in T
             /\ \E j \in DOMAIN history : history'[i] = history[j]
    <3> HIDE DEF T
    <3>1. /\ Selected(history, T) \in Seq(Entry)
          /\ \A i \in DOMAIN Selected(history, T) :
               /\ Selected(history, T)[i] \in T
               /\ \E j \in DOMAIN history : Selected(history, T)[i] = history[j]
      BY <1>1, SelectedRows
    <3> QED
      BY <2>2, <3>1
  <2>4. ASSUME NEW q \in Projects, q # p, Exists(q)
        PROVE  rows'[q] # Absent
    <3>1. q \in Targets /\ q \notin Ids
      BY RecordsAssumption DEF Targets
    <3> QED
      BY <2>1, <2>4, <3>1 DEF DeleteProject, Cascade, Exists
  <2>5. ASSUME NEW i \in DOMAIN history'
        PROVE  rows'[history'[i].project] # Absent
    <3>1. PICK j \in DOMAIN history : history'[i] = history[j]
      BY <2>3
    <3>2. history[j].project \in Projects \ {p} /\ Exists(history[j].project)
      BY <1>1, <1>2, <2>3, <3>1
    <3> QED
      BY <2>4, <3>1, <3>2 DEF Exists
  <2> QED
    BY <2>3, <2>5
<1>4. ASSUME \A p \in Projects : ~DeleteProject(p), NEW i \in DOMAIN history
      PROVE  rows'[history[i].project] # Absent
  <2>1. PICK q \in Projects : q = history[i].project
    BY <1>2
  <2>2. Exists(q)
    BY <1>1, <2>1
  <2>3. rows'[q] # Absent
    BY <1>4, <2>2, ProjectStays DEF Exists
  <2> QED
    BY <2>1, <2>3
<1>5. CASE \E p \in Projects : RecordQuery(p) /\ \A q \in Projects : ~DeleteProject(q)
  <2>1. PICK p \in Projects : RecordQuery(p) /\ Exists(p)
    BY <1>5 DEF RecordQuery
  <2>2. PICK e \in Entry : e.project = p /\ history' = Append(history, e)
    BY <2>1, RecordedQuery
  <2>3. /\ history' \in Seq(Entry) /\ Len(history) \in Nat
        /\ DOMAIN history' = 1 .. Len(history) + 1 /\ DOMAIN history = 1 .. Len(history)
        /\ history'[Len(history) + 1] = e
        /\ \A i \in 1 .. Len(history) : history'[i] = history[i]
    BY <1>1, <2>2
  <2>4. rows'[p] # Absent
    BY <1>5, <2>1, ProjectStays DEF Exists
  <2>5. ASSUME NEW i \in DOMAIN history'
        PROVE  rows'[history'[i].project] # Absent
    <3>1. CASE i = Len(history) + 1
      <4>1. history'[i].project = p
        BY <2>2, <2>3, <3>1
      <4> QED
        BY <2>4, <4>1
    <3>2. CASE i \in DOMAIN history
      <4>1. rows'[history[i].project] # Absent
        BY <1>4, <1>5, <3>2
      <4>2. history'[i] = history[i]
        BY <2>3, <3>2
      <4> QED
        BY <4>1, <4>2
    <3> QED
      BY <2>3, <3>1, <3>2
  <2> QED
    BY <2>3, <2>5
<1>6. CASE history' = history /\ \A q \in Projects : ~DeleteProject(q)
  <2>1. ASSUME NEW i \in DOMAIN history' PROVE rows'[history'[i].project] # Absent
    <3>1. rows'[history[i].project] # Absent /\ history'[i] = history[i]
      BY <1>4, <1>6, <2>1
    <3> QED
      BY <3>1
  <2> QED
    BY <1>1, <1>6, <2>1
<1> QED
  BY <1>3, <1>5, <1>6, HistoryFacts

(* While a statement runs, no project is deleted.                          *)
LEMMA ActAlone ==
  ASSUME Coherent, [Next]_vars, NEW r \in Requests, Acts(r), NEW p \in Projects
  PROVE  Exists(p)' <=> Exists(p)
<1>1. ~DeleteProject(p)
  BY DEF Acts, Effective, DeleteProject
<1> QED
  BY <1>1, ProjectStays

LEMMA StepForeign ==
  ASSUME Coherent, [Next]_vars, NEW i \in Ids, rows'[i] # Absent
  PROVE  rows'[rows'[i].project] # Absent
<1>1. i \in Targets /\ i \notin Projects
  BY RecordsAssumption DEF Targets
<1>2. Exists(i) => rows[i] \in Row /\ rows[i].project \in Projects
  BY <1>1 DEF Coherent, Valued, Exists, Row
<1>3. Exists(i) => Exists(rows[i].project)
  BY DEF Coherent, Related
<1>4. CASE rows'[i] = rows[i]
  <2>1. PICK p \in Projects : p = rows[i].project
    BY <1>2, <1>4 DEF Exists
  <2>2. Exists(p) /\ Exists(i)
    BY <1>3, <1>4, <2>1 DEF Exists
  <2>3. ~DeleteProject(p)
    BY <1>1, <1>4, <2>1, <2>2 DEF DeleteProject, Cascade
  <2>4. Exists(p)'
    BY <2>2, <2>3, ProjectStays
  <2> QED
    BY <1>4, <2>1, <2>4 DEF Exists
<1>5. ASSUME NEW r \in Requests, Acts(r), Updates(r), arg[r] = i,
             rows'[i] = Merged(rows[i], want[r])
      PROVE  rows'[rows'[i].project] # Absent
  <2>1. Exists(i) /\ want[r] \in Patch
    BY <1>5, UpdatedRow DEF Updates
  <2>2. PICK p \in Projects : p = rows[i].project
    BY <1>2, <2>1
  <2>3. rows'[i].project = p
    BY <1>2, <1>5, <2>1, <2>2, MergedRow
  <2>4. Exists(p)'
    BY <1>3, <1>5, <2>1, <2>2, ActAlone
  <2> QED
    BY <2>3, <2>4 DEF Exists
<1>6. ASSUME i \in Requests, Acts(i), Inserts(i), rows'[i] = NewRow(i)
      PROVE  rows'[rows'[i].project] # Absent
  <2>1. PICK p \in Projects : p = arg[i]
    BY <1>6, InsertedRow
  <2>2. rows'[i].project = p
    BY <1>6, <2>1 DEF NewRow
  <2>3. Exists(p)'
    BY <1>6, <2>1, ActAlone DEF Inserts
  <2> QED
    BY <2>2, <2>3 DEF Exists
<1> QED
  BY <1>1, <1>4, <1>5, <1>6, RowFacts

LEMMA StepNames ==
  ASSUME Coherent, [Next]_vars, NEW p \in Projects, NEW q \in Projects,
         Exists(p)', Exists(q)', rows'[p].name = rows'[q].name
  PROVE  p = q
<1>1. p \in Targets /\ q \in Targets /\ p \notin Requests /\ q \notin Requests
  BY RecordsAssumption DEF Targets, Ids
<1>2. /\ Exists(p) /\ Exists(q)
      /\ rows[p] \in Row /\ rows[q] \in Row
      /\ rows[p].name = rows[q].name => p = q
  BY <1>1, ProjectStays DEF Coherent, Valued, Related, Exists
<1>3. ASSUME NEW t \in {p, q}, NEW u \in {p, q}, t # u, NEW r \in Requests,
             Acts(r), Updates(r), arg[r] = t
      PROVE  rows'[t].name # rows'[u].name
  <2>1. /\ want[r] \in Patch /\ rows[t] \in Row
        /\ rows'[t] = Merged(rows[t], want[r]) /\ rows'[u] = rows[u]
    BY <1>1, <1>3, UpdatedRow DEF Updates, Coherent, Valued
  <2>2. ~Refused(t, Merged(rows[t], want[r]))
    BY <1>3 DEF Updates
  <2> QED
    BY <1>2, <1>3, <2>1, <2>2 DEF Refused
<1>4. ASSUME NEW t \in {p, q}, rows'[t] # rows[t]
      PROVE  \E r \in Requests : Acts(r) /\ Updates(r) /\ arg[r] = t
  <2>1. rows'[t] # Absent
    BY <1>4 DEF Exists
  <2> QED
    BY <1>1, <1>4, <2>1, RowFacts
<1>5. CASE p # q /\ rows'[p] # rows[p]
  <2>1. PICK r \in Requests : Acts(r) /\ Updates(r) /\ arg[r] = p
    BY <1>4, <1>5
  <2> QED
    BY <1>3, <1>5, <2>1
<1>6. CASE p # q /\ rows'[q] # rows[q]
  <2>1. PICK r \in Requests : Acts(r) /\ Updates(r) /\ arg[r] = q
    BY <1>4, <1>6
  <2> QED
    BY <1>3, <1>6, <2>1
<1> QED
  BY <1>2, <1>5, <1>6

LEMMA StepOwnRow ==
  ASSUME Coherent, [Next]_vars, NEW r \in Requests, rows'[r] # Absent
  PROVE  r \in done' /\ op'[r] = "create" /\ rows'[r].project = arg'[r]
<1>1. r \in Targets
  BY DEF Targets, Ids
<1>2. ASSUME Exists(r)
      PROVE  /\ r \in done' /\ op'[r] = "create" /\ arg'[r] = arg[r]
             /\ rows[r].project = arg[r]
  <2>1. r \in done /\ op[r] = "create" /\ rows[r].project = arg[r]
    BY <1>2 DEF Coherent, Related
  <2> QED
    BY <2>1, EffectStays, StepSteady DEF Steady, Effective
<1>3. CASE rows'[r] = rows[r]
  BY <1>2, <1>3 DEF Exists
<1>4. ASSUME NEW q \in Requests, Acts(q), Updates(q), arg[q] = r,
             rows'[r] = Merged(rows[r], want[q])
      PROVE  r \in done' /\ op'[r] = "create" /\ rows'[r].project = arg'[r]
  <2>1. /\ Exists(r) /\ want[q] \in Patch /\ rows[r] \in Row
    BY <1>1, <1>4, UpdatedRow DEF Updates
  <2>2. rows'[r].project = rows[r].project
    BY <1>4, <2>1, MergedRow
  <2> QED
    BY <1>2, <2>1, <2>2
<1>5. ASSUME Acts(r), Inserts(r), rows'[r] = NewRow(r)
      PROVE  r \in done' /\ op'[r] = "create" /\ rows'[r].project = arg'[r]
  BY <1>5, ActFacts DEF Inserts, NewRow
<1> QED
  BY <1>1, <1>3, <1>4, <1>5, RowFacts

LEMMA StepRelated ==
  ASSUME Coherent, [Next]_vars
  PROVE  Related'
<1>1. \A i \in Ids : Exists(i)' => rows'[rows'[i].project] # Absent
  BY StepForeign DEF Exists
<1>2. \A i \in DOMAIN history' : rows'[history'[i].project] # Absent
  BY StepHistory
<1>3. \A p, q \in Projects :
        Exists(p)' /\ Exists(q)' /\ rows'[p].name = rows'[q].name => p = q
  BY StepNames
<1>4. \A r \in Requests :
        Exists(r)' => r \in done' /\ op'[r] = "create" /\ rows'[r].project = arg'[r]
  BY StepOwnRow DEF Exists
<1> QED
  BY <1>1, <1>2, <1>3, <1>4 DEF Related, Exists

LEMMA StepValued ==
  ASSUME Coherent, [Next]_vars
  PROVE  Valued'
<1>1. rows' \in [Targets -> Row \union {Absent}] /\ history' \in Seq(Entry)
  BY StepRows, StepHistory
<1> DEFINE Others == /\ arg' \in [Requests -> Targets \union {Absent}]
                     /\ want' \in [Requests -> Patch \union Listings \union {Absent}]
                     /\ total' \in [Requests -> Nat] /\ DOMAIN shown' = Requests
                     /\ done' \subseteq Requests /\ void' \subseteq Requests
                     /\ before' \in [Requests -> SUBSET Requests]
<1>2. ASSUME NEW r \in Requests, Asks(r)
      PROVE  Others
  <2>1. CASE Declined(r)
    BY <2>1 DEF Declined, Coherent, Valued
  <2>2. ASSUME NEW o, NEW t, NEW w, Asked(o, t, w), Receive(r, o, t, w, FirstStep(o))
        PROVE  Others
    BY <2>2 DEF Receive, Asked, Coherent, Valued
  <2> QED
    BY <1>2, <2>1, <2>2, AskCases DEF Coherent
<1>3. ASSUME NEW r \in Requests, CountRows(r)
      PROVE  Others
  <2>1. /\ audit \in Seq(Requests) /\ history \in Seq(Entry)
    BY DEF Coherent, Trailed, Typed, Valued
  <2>2. Len(Matching(r)) \in Nat
    <3>1. /\ Selected(audit, Audits(r)) \in Seq(Requests)
          /\ Selected(history, Queries(r)) \in Seq(Entry)
      BY <2>1, SelectedRows
    <3>2. Len(Selected(audit, Audits(r))) \in Nat /\ Len(Selected(history, Queries(r))) \in Nat
      BY <3>1, LenProperties
    <3> QED
      BY <3>2 DEF Matching, Reverse
  <2> QED
    BY <1>3, <2>2 DEF CountRows, Coherent, Valued
<1>4. ASSUME NEW r \in Requests, Proceed(r) \/ Disturb(r), ~CountRows(r)
      PROVE  Others
  <2>1. Valued
    BY DEF Coherent
  <2>2. UNCHANGED <<arg, want, total, before>>
    BY <1>4 DEF Proceed, Disturb, CheckExists, Insert, Update, Delete, Audit, Get,
                List, ReadRows, Panic, Abandon, NeverRuns
  <2>3. done' \subseteq done \union {r} /\ void' \subseteq void \union {r}
    BY <1>4 DEF Proceed, Disturb, CheckExists, Insert, Update, Delete, Audit, Get,
                List, ReadRows, Panic, Abandon, NeverRuns
  <2>4. DOMAIN shown' = DOMAIN shown
    BY <1>4 DEF Proceed, Disturb, CheckExists, Insert, Update, Delete, Audit, Get,
                List, ReadRows, Panic, Abandon, NeverRuns
  <2> QED
    BY <2>1, <2>2, <2>3, <2>4 DEF Valued
<1>5. ASSUME Outside
      PROVE  Others
  <2>1. /\ Valued /\ arg' = arg /\ want' = want /\ total' = total /\ shown' = shown
        /\ done' = done /\ void' = void /\ before' = before
    BY <1>5, OutsideFrame DEF Coherent
  <2> QED
    BY <2>1 DEF Valued
<1>6. Others
  <2> HIDE DEF Others
  <2> QED
    BY <1>2, <1>3, <1>4, <1>5 DEF Next, Rest, Asks, Outside
<1> QED
  BY <1>1, <1>6 DEF Valued

(* What a statement leaves behind that answers, or goes on.                *)
LEMMA Moves ==
  ASSUME Coherent, NEW r \in Requests, pc[r] \notin {"idle", "done"}
  PROVE  /\ answer[r] \in {"none", "lost"}
         /\ pc[r] \notin Writing => answer[r] = "none"
         /\ Running(r) <=> answer[r] = "none"
         /\ \A a : Respond(r, a) =>
              /\ pc'[r] = "done"
              /\ answer'[r] = IF answer[r] = "none" THEN a ELSE answer[r]
         /\ \A step : Continue(r, step) =>
              /\ answer' = answer
              /\ pc'[r] = IF answer[r] = "none" THEN step ELSE "done"
<1>1. Informed(r) /\ Typed
  BY DEF Coherent, Trailed
<1>2. answer[r] \in {"none", "lost"} /\ (pc[r] \notin Writing => answer[r] = "none")
  BY <1>1 DEF Informed
<1>3. Running(r) <=> answer[r] = "none"
  BY DEF Running
<1> QED
  BY <1>1, <1>2, <1>3 DEF Typed, Respond, Continue

LEMMA OwnInformed ==
  ASSUME Coherent, [Next]_vars, NEW r \in Requests,
         Asks(r) \/ Proceed(r) \/ Disturb(r)
  PROVE  Informed(r)'
<1>1. Informed(r) /\ Placed(r) /\ Typed /\ Valued
  BY DEF Coherent, Trailed
<1>2. \A q \in before[r] : answer'[q] # "none"
  BY <1>1, StepSteady DEF Informed, Steady, Valued
<1>3. Known \subseteq Known' /\ Steady(r)
  BY KnownStays, StepSteady
<1>4. ASSUME NEW o, NEW t, NEW w, Asked(o, t, w), Receive(r, o, t, w, FirstStep(o))
      PROVE  Informed(r)'
  <2>1. /\ pc[r] = "idle" /\ pc'[r] = FirstStep(o) /\ op'[r] = o /\ arg'[r] = t
        /\ want'[r] = w /\ total' = total /\ answer' = answer
        /\ done' = done /\ void' = void
        /\ before'[r] = {q \in Requests : answer[q] # "none"}
    BY <1>1, <1>4 DEF Receive, Typed, Valued
  <2>2. answer[r] = "none" /\ r \notin Effective /\ total[r] = 0
    BY <1>1, <2>1 DEF Placed, Informed
  <2>3. o \in Changes \union Readings
    BY <1>4, RecordsAssumption DEF Asked
  <2>4. FirstStep(o) = IF o \in {"create", "delete"} THEN "exists"
                       ELSE IF o = "history" THEN "count"
                       ELSE IF o = "audits" THEN "rows" ELSE o
    BY DEF FirstStep
  <2> QED
    BY <1>3, <1>4, <2>1, <2>2, <2>3, <2>4
       DEF Informed, Asked, Changes, Readings, Effective
<1>5. CASE Declined(r)
  <2>1. /\ pc'[r] = "done" /\ answer'[r] = "bad request"
        /\ op'[r] = "none" /\ done' = done /\ void' = void /\ before' = before
        /\ r \notin Effective
    BY <1>1, <1>5 DEF Declined, Typed, Placed, Informed
  <2> QED
    BY <1>2, <2>1 DEF Informed, Changes, Effective
<1>6. CASE Asks(r)
  BY <1>1, <1>4, <1>5, <1>6, AskCases
(* The operation is the same; its answer is new, or the next statement.    *)
<1>7. ASSUME op'[r] = op[r], arg'[r] = arg[r], want'[r] = want[r], before' = before,
             op[r] = "audits" => total'[r] = total[r],
             pc'[r] # "idle",
             \/ pc'[r] = "done"
             \/ /\ pc'[r] = "insert" /\ op[r] = "create"
                /\ answer'[r] \in {"none", "lost"}
             \/ /\ pc'[r] = "delete" /\ op[r] = "delete"
                /\ answer'[r] \in {"none", "lost"}
             \/ pc'[r] = "rows" /\ op[r] = "history" /\ answer'[r] = "none"
             \/ pc'[r] = "audit" /\ answer'[r] \in {"none", "lost"}
             \/ /\ pc'[r] = pc[r] /\ pc[r] \in Writing
                /\ answer'[r] \in {"none", "lost"},
             answer'[r] = "ok" /\ op[r] \in Changes => r \in Effective',
             r \in done' => op[r] \in Changes,
             r \in void' => op[r] = "delete"
      PROVE  Informed(r)'
  BY <1>1, <1>2, <1>3, <1>7 DEF Informed, Writing
<1>8. pc[r] # "idle" => op'[r] = op[r] /\ arg'[r] = arg[r] /\ want'[r] = want[r]
                        /\ pc'[r] # "idle"
  BY <1>3 DEF Steady
<1>9. answer[r] = "ok" /\ op[r] \in Changes => r \in Effective'
  BY <1>1, <1>3 DEF Informed, Effective, Steady
<1>10. CASE CheckExists(r)
  <2>1. pc[r] = "exists" /\ op[r] \in {"create", "delete"} /\ answer[r] = "none"
    BY <1>1, <1>10 DEF CheckExists, Informed, Writing
  <2>2. \/ pc'[r] = "done" /\ answer'[r] = "not found"
        \/ /\ pc'[r] = (IF op[r] = "create" THEN "insert" ELSE "delete")
           /\ answer'[r] = "none"
    BY <1>10, <2>1, Moves DEF CheckExists
  <2> QED
    BY <1>1, <1>7, <1>8, <1>10, <2>1, <2>2 DEF CheckExists, Informed
<1>11. CASE Insert(r)
  <2>1. pc[r] = "insert" /\ op[r] = "create" /\ answer[r] \in {"none", "lost"}
    BY <1>1, <1>11, Moves DEF Insert, Informed
  <2>2. \/ pc'[r] = "done" /\ answer'[r] # "ok"
        \/ pc'[r] = "audit" /\ answer'[r] = "none"
    BY <1>11, <2>1, Moves DEF Insert
  <2>3. r \in done' => op[r] \in Changes
    BY <2>1 DEF Changes
  <2> QED
    BY <1>1, <1>7, <1>8, <1>11, <2>1, <2>2, <2>3 DEF Insert, Informed
<1>12. CASE Update(r)
  <2>1. pc[r] = "update" /\ op[r] = "update" /\ answer[r] \in {"none", "lost"}
    BY <1>1, <1>12, Moves DEF Update, Informed
  <2>2. \/ pc'[r] = "done" /\ answer'[r] # "ok"
        \/ pc'[r] = "audit" /\ answer'[r] = "none"
    <3>1. Respond(r, "not found") \/ Respond(r, "error") \/ Continue(r, "audit")
      BY <1>12 DEF Update
    <3>2. ASSUME NEW a \in {"not found", "error"}, Respond(r, a)
          PROVE  pc'[r] = "done" /\ answer'[r] # "ok"
      BY <2>1, <3>2, Moves
    <3>3. CASE Continue(r, "audit")
      BY <2>1, <3>3, Moves
    <3> QED
      BY <3>1, <3>2, <3>3
  <2>3. r \in done' => op[r] \in Changes
    BY <2>1 DEF Changes
  <2> QED
    BY <1>1, <1>7, <1>8, <1>12, <2>1, <2>2, <2>3 DEF Update, Informed
<1>13. CASE Delete(r)
  <2>1. pc[r] = "delete" /\ op[r] = "delete" /\ answer[r] \in {"none", "lost"}
    BY <1>1, <1>13, Moves DEF Delete, Informed
  <2>2. \/ pc'[r] = "done" /\ answer'[r] # "ok"
        \/ pc'[r] = "audit" /\ answer'[r] = "none"
    BY <1>13, <2>1, Moves DEF Delete
  <2>3. r \in done' => op[r] \in Changes
    BY <2>1 DEF Changes
  <2> QED
    BY <1>1, <1>7, <1>8, <1>13, <2>1, <2>2, <2>3 DEF Delete, Informed
<1>14. CASE Audit(r)
  <2>1. pc[r] = "audit" /\ r \in Effective'
    BY <1>1, <1>14 DEF Audit, Placed, Effective
  <2>2. pc'[r] = "done"
    BY <1>14, <2>1, Moves DEF Audit
  <2> QED
    BY <1>1, <1>7, <1>8, <1>14, <2>1, <2>2 DEF Audit, Informed
<1>15. CASE Get(r) \/ List(r) \/ ReadRows(r) \/ Panic(r)
  <2>1. pc[r] \in {"get", "list", "rows", "count"} /\ op[r] \in Readings
    BY <1>1, <1>15 DEF Get, List, ReadRows, Panic, Placed, FirstStep
  <2>2. \E a : Respond(r, a)
    BY <1>15 DEF Get, List, ReadRows, Panic
  <2>3. pc'[r] = "done"
    BY <2>1, <2>2, Moves
  <2>4. op[r] \notin Changes
    BY <2>1 DEF Changes, Readings
  <2> QED
    BY <1>1, <1>7, <1>8, <1>15, <2>1, <2>3, <2>4
       DEF Get, List, ReadRows, Panic, Informed
<1>16. CASE CountRows(r)
  <2>1. pc[r] = "count" /\ op[r] = "history" /\ answer[r] = "none"
    BY <1>1, <1>16 DEF CountRows, Informed, Writing
  <2>2. pc'[r] = "rows" /\ answer'[r] = "none"
    BY <1>16, <2>1, Moves DEF CountRows
  <2> QED
    BY <1>1, <1>7, <1>8, <1>16, <2>1, <2>2 DEF CountRows, Informed
<1>17. CASE Abandon(r)
  <2>1. /\ pc[r] # "idle" /\ answer'[r] = "lost"
        /\ \/ pc'[r] = "done"
           \/ pc'[r] = pc[r] /\ pc[r] \in Writing
    BY <1>1, <1>17 DEF Abandon, Running, Typed
  <2> QED
    BY <1>1, <1>7, <1>8, <1>17, <2>1 DEF Abandon, Informed
<1>18. CASE NeverRuns(r)
  <2>1. pc[r] \in Writing /\ pc'[r] = "done" /\ answer' = answer
    BY <1>1, <1>18 DEF NeverRuns, Continue, Typed
  <2>2. pc[r] # "idle"
    BY <2>1 DEF Writing
  <2> QED
    BY <1>1, <1>7, <1>8, <1>9, <1>18, <2>1, <2>2 DEF NeverRuns, Informed
<1> QED
  BY <1>6, <1>10, <1>11, <1>12, <1>13, <1>14, <1>15, <1>16, <1>17, <1>18
     DEF Proceed, Disturb

LEMMA StepInformed ==
  ASSUME Coherent, [Next]_vars, NEW q \in Requests
  PROVE  Informed(q)'
<1>1. Informed(q) /\ before[q] \subseteq Requests
  BY DEF Coherent, Valued
<1>2. Known \subseteq Known'
  BY KnownStays
<1>3. \A x \in before[q] : answer'[x] # "none"
  BY <1>1, StepSteady DEF Informed, Steady
<1>4. ASSUME UNCHANGED <<pc[q], op[q], arg[q], want[q], total[q], answer[q], before[q]>>,
             q \in done' <=> q \in done, q \in void' <=> q \in void
      PROVE  Informed(q)'
  BY <1>1, <1>2, <1>3, <1>4 DEF Informed, Effective
<1>5. ASSUME NEW r \in Requests, Asks(r) \/ Proceed(r) \/ Disturb(r)
      PROVE  Informed(q)'
  <2>1. CASE q = r
    BY <1>5, <2>1, OwnInformed
  <2>2. CASE q # r
    BY <1>4, <1>5, <2>2, StepFrame DEF Frame
  <2> QED
    BY <2>1, <2>2
<1>6. CASE Outside
  BY <1>4, <1>6, OutsideFrame
<1> QED
  BY <1>5, <1>6 DEF Next, Rest, Asks, Outside

(* What has been counted stays there.                                      *)
LEMMA CountedFacts ==
  ASSUME Coherent, [Next]_vars, NEW q \in Requests, pc'[q] = "rows", op'[q] = "history"
  PROVE  /\ arg'[q] = arg[q] /\ want'[q] = want[q]
         /\ \/ /\ CountRows(q) /\ total'[q] = Len(Matching(q)) /\ op[q] = "history"
            \/ /\ pc[q] = "rows" /\ op[q] = "history" /\ total'[q] = total[q]
<1>1. Typed /\ Valued /\ Informed(q)
  BY DEF Coherent, Trailed
<1>2. ASSUME Asks(q)
      PROVE  FALSE
  <2>1. ASSUME NEW o, NEW t, NEW w, Asked(o, t, w), Receive(q, o, t, w, FirstStep(o))
        PROVE  FALSE
    <3>1. op'[q] = o /\ pc'[q] = FirstStep(o)
      BY <1>1, <2>1 DEF Receive, Typed
    <3> QED
      BY <3>1 DEF FirstStep
  <2>2. ~Declined(q)
    BY <1>1 DEF Declined, Typed
  <2> QED
    BY <1>1, <1>2, <2>1, <2>2, AskCases
<1>3. ASSUME Proceed(q) \/ Disturb(q), ~CountRows(q)
      PROVE  pc[q] = "rows" /\ UNCHANGED <<total, op, arg, want>>
  BY <1>1, <1>3
     DEF Proceed, Disturb, CheckExists, Insert, Update, Delete, Audit, Get, List, ReadRows,
         Panic, Abandon, NeverRuns, Respond, Continue, Typed
<1>4. ASSUME CountRows(q)
      PROVE  /\ op[q] = "history" /\ total'[q] = Len(Matching(q))
             /\ UNCHANGED <<op, arg, want>>
  BY <1>1, <1>4 DEF CountRows, Valued, Informed
<1>5. ASSUME NEW r \in Requests, r # q, Asks(r) \/ Proceed(r) \/ Disturb(r)
      PROVE  /\ pc[q] = "rows" /\ op[q] = "history" /\ total'[q] = total[q]
             /\ arg'[q] = arg[q] /\ want'[q] = want[q]
  BY <1>5, StepFrame DEF Frame
<1>6. ASSUME Outside
      PROVE  /\ pc[q] = "rows" /\ op[q] = "history" /\ total'[q] = total[q]
             /\ arg'[q] = arg[q] /\ want'[q] = want[q]
  BY <1>6, OutsideFrame
<1> QED
  BY <1>2, <1>3, <1>4, <1>5, <1>6 DEF Next, Rest, Asks, Outside

LEMMA ReverseLength ==
  ASSUME NEW S, NEW s \in Seq(S)
  PROVE  Reverse(s) \in Seq(S) /\ Len(Reverse(s)) = Len(s)
BY DEF Reverse

LEMMA StepCount ==
  ASSUME Coherent, [Next]_vars, NEW q \in Requests
  PROVE  CountStays(q)'
<1> SUFFICES ASSUME pc'[q] = "rows", op'[q] = "history"
             PROVE  \/ total'[q] <= Len(Selected(history', Queries(q)'))
                    \/ rows'[arg'[q]] = Absent
  BY DEF CountStays, Exists
<1>1. /\ history \in Seq(Entry) /\ Informed(q) /\ CountStays(q) /\ total[q] \in Nat
      /\ op[q] = "history"
  BY CountedFacts DEF Coherent, Valued
<1>2. PICK p \in Projects : p = arg[q]
  BY <1>1 DEF Informed
<1>3. PICK T : T = Queries(q)
  OBVIOUS
<1>4. arg'[q] = p /\ Queries(q)' = T
  BY <1>2, <1>3, CountedFacts DEF Queries
<1>5. Selected(history, T) \in Seq(Entry) /\ Len(Selected(history, T)) \in Nat
  BY <1>1, SelectedRows, LenProperties
<1>6. CASE CountRows(q)
  <2>1. total'[q] = Len(Selected(history, T))
    <3>1. Matching(q) = Reverse(Selected(history, T))
      BY <1>1, <1>3 DEF Matching
    <3>2. pc[q] = "count"
      BY <1>6 DEF CountRows
    <3>3. total'[q] = Len(Matching(q))
      BY <3>2, CountedFacts
    <3> QED
      BY <1>5, <3>1, <3>3, ReverseLength
  <2>2. history' = history
    BY <1>6 DEF CountRows
  <2> QED
    BY <1>4, <1>5, <2>1, <2>2
<1>7. CASE pc[q] = "rows" /\ total'[q] = total[q]
  <2>1. total[q] <= Len(Selected(history, T)) \/ ~Exists(p)
    BY <1>1, <1>2, <1>3, <1>7 DEF CountStays
  <2>2. CASE ~Exists(p)
    BY <1>4, <2>2, ProjectStays DEF Exists
  <2>3. CASE total[q] <= Len(Selected(history, T))
    <3>1. CASE history' = history
      BY <1>4, <1>7, <2>3, <3>1
    <3>2. CASE \E o \in Projects : RecordQuery(o)
      <4>1. PICK e \in Entry : history' = Append(history, e)
        BY <3>2, RecordedQuery
      <4>2. Selected(history', T) = IF e \in T THEN Append(Selected(history, T), e)
                                    ELSE Selected(history, T)
        BY <1>1, <4>1, SelectedFromMore
      <4>3. Len(Selected(history', T)) \in
              {Len(Selected(history, T)), Len(Selected(history, T)) + 1}
        BY <1>5, <4>2
      <4> QED
        BY <1>1, <1>4, <1>5, <1>7, <2>3, <4>3
    <3>3. CASE \E o \in Projects : DeleteProject(o)
      <4>1. PICK o \in Projects : DeleteProject(o)
        BY <3>3
      <4>2. CASE o = p
        <5>1. p \in Targets /\ p \in Cascade(p)
          BY DEF Targets, Cascade
        <5> QED
          BY <1>4, <4>1, <4>2, <5>1 DEF DeleteProject
      <4>3. CASE o # p
        <5> DEFINE U == {e \in Entry : e.project # o}
        <5>1. T \subseteq U
          BY <1>2, <1>3, <4>3 DEF Queries
        <5>2. history' = Selected(history, U)
          BY <4>1 DEF DeleteProject
        <5> HIDE DEF U
        <5>3. Selected(Selected(history, U), T) = Selected(history, T)
          BY <1>1, <5>1, SelectedTwice
        <5> QED
          BY <1>4, <1>7, <2>3, <5>2, <5>3
      <4> QED
        BY <4>2, <4>3
    <3> QED
      BY <3>1, <3>2, <3>3, HistoryFacts
  <2> QED
    BY <2>1, <2>2, <2>3
<1> QED
  BY <1>6, <1>7, CountedFacts

(* Whoever changes a row after r has done so was not over when r arrived,  *)
(* or had lost its client by then.                                         *)
LEMMA ActsLate ==
  ASSUME Coherent, [Next]_vars, NEW q \in Requests, NEW r \in Requests,
         Acts(q), pc[r] # "idle"
  PROVE  q \notin before'[r] \/ answer'[q] = "lost"
<1>1. pc[q] \in Writing
  BY ActFacts DEF Inserts, Updates, Deletes, Writing
<1>2. answer[q] # "none" => answer[q] = "lost" /\ answer'[q] = "lost"
  BY <1>1, StepSteady DEF Coherent, Informed, Steady, Writing
<1>3. q \in before[r] => answer[q] # "none"
  BY DEF Coherent, Informed
<1>4. before'[r] = before[r]
  BY StepSteady DEF Steady
<1> QED
  BY <1>2, <1>3, <1>4

(* What is known cannot be inserted.                                       *)
LEMMA KnownNotInserted ==
  ASSUME Coherent, NEW t \in Requests, Acts(t)
  PROVE  t \notin Known
BY RecordsAssumption DEF Known, Acts, Effective

(* A row that is gone does not come back under a known id.                 *)
LEMMA GoneStays ==
  ASSUME Coherent, [Next]_vars, NEW t \in Projects \union Known, rows[t] = Absent
  PROVE  rows'[t] = Absent
<1>1. t \in Targets
  BY KnownStays DEF Targets
<1>2. ASSUME NEW r \in Requests, Updates(r), arg[r] = t
      PROVE  FALSE
  BY <1>2 DEF Updates, Exists
<1>3. ASSUME t \in Requests, Acts(t)
      PROVE  FALSE
  BY <1>3, KnownNotInserted, RecordsAssumption DEF Ids
<1> QED
  BY <1>1, <1>2, <1>3, RowFacts

LEMMA GoneForGood ==
  ASSUME Coherent, [Next]_vars, NEW r \in Requests, pc[r] # "idle",
         op[r] = "delete", Gone(r)
  PROVE  Gone(r)'
<1>1. /\ arg'[r] = arg[r] /\ before'[r] = before[r] /\ arg[r] \in Known
      /\ done \subseteq Requests
  BY StepSteady DEF Steady, Coherent, Informed, Valued
<1>2. ASSUME NEW q \in done, op[q] = "delete", arg[q] = arg[r],
             q \notin before[r] \/ answer[q] = "lost"
      PROVE  Gone(r)'
  <2>1. q \in done' /\ op'[q] = op[q] /\ arg'[q] = arg[q]
    BY <1>1, <1>2, EffectStays, StepSteady DEF Steady, Effective
  <2>2. answer[q] = "lost" => answer'[q] = "lost"
    BY <1>1, <1>2, StepSteady DEF Steady
  <2> QED
    BY <1>1, <1>2, <2>1, <2>2 DEF Gone
<1>3. ASSUME NEW p \in Projects, ~Exists(p), arg[r] \in Requests => p = arg[arg[r]]
      PROVE  Gone(r)'
  <2>1. ~Exists(p)'
    BY <1>3, ProjectStays
  <2>2. arg[r] \in Requests => arg'[arg[r]] = arg[arg[r]]
    <3>1. arg[r] \in Requests => arg[r] \in Effective
      BY <1>1, RecordsAssumption DEF Known, Effective
    <3> QED
      BY <3>1, EffectStays
  <2> QED
    BY <1>1, <1>3, <2>1, <2>2 DEF Gone
<1> QED
  BY <1>2, <1>3 DEF Gone

LEMMA DeleteArrives ==
  ASSUME Coherent, [Next]_vars, NEW r \in Requests, pc'[r] = "delete"
  PROVE  /\ pc[r] # "idle" /\ ~Acts(r)
         /\ pc[r] = "delete" \/ (Exists(arg[r]) /\ rows' = rows)
<1>1. Typed /\ Valued
  BY DEF Coherent, Trailed
<1>2. ~Acts(r)
  <2>1. ASSUME Acts(r) PROVE pc'[r] \in {"audit", "done"}
    BY <1>1, <2>1, ActFacts DEF Continue, Typed
  <2> QED
    BY <2>1
<1>3. ASSUME Asks(r)
      PROVE  FALSE
  <2>1. ASSUME NEW o, NEW t, NEW w, Asked(o, t, w), Receive(r, o, t, w, FirstStep(o))
        PROVE  FALSE
    <3>1. pc'[r] = FirstStep(o) /\ o \in Changes \union Readings
      BY <1>1, <2>1, RecordsAssumption DEF Receive, Typed, Asked
    <3> QED
      BY <3>1 DEF FirstStep, Changes, Readings
  <2>2. ~Declined(r)
    BY <1>1 DEF Declined, Typed
  <2> QED
    BY <1>1, <1>3, <2>1, <2>2, AskCases
<1>4. CASE CheckExists(r)
  BY <1>1, <1>2, <1>4 DEF CheckExists, Respond, Continue, Typed
<1>5. ASSUME Proceed(r) \/ Disturb(r), ~CheckExists(r)
      PROVE  pc[r] = "delete"
  BY <1>1, <1>5
     DEF Proceed, Disturb, Insert, Update, Delete, Audit, Get, List, CountRows, ReadRows,
         Panic, Abandon, NeverRuns, Respond, Continue, Typed
<1>6. ASSUME NEW q \in Requests, q # r, Asks(q) \/ Proceed(q) \/ Disturb(q)
      PROVE  pc[r] = "delete"
  BY <1>6, StepFrame DEF Frame
<1>7. CASE Outside
  BY <1>2, <1>7, OutsideFrame
<1> QED
  BY <1>2, <1>3, <1>4, <1>5, <1>6, <1>7 DEF Next, Rest, Asks, Outside

LEMMA StepDelete ==
  ASSUME Coherent, [Next]_vars, NEW r \in Requests
  PROVE  DeleteStays(r)'
<1> SUFFICES ASSUME op'[r] = "delete"
             PROVE  /\ r \in Effective' => rows'[arg'[r]] = Absent
                    /\ r \in void' \/ (pc'[r] = "delete" /\ rows'[arg'[r]] = Absent)
                         => Gone(r)'
  BY DEF DeleteStays, Exists
<1>1. Informed(r) /\ DeleteStays(r)
  BY DEF Coherent
<1>2. r \in Effective' => rows'[arg'[r]] = Absent
  <2>1. CASE Acts(r)
    <3>1. /\ op[r] = "delete" /\ arg' = arg
          /\ Deletes(r)
      BY <2>1, ActFacts DEF Inserts, Updates
    <3>2. arg[r] \in Targets
      BY <1>1, <3>1, KnownStays DEF Informed, Targets
    <3> QED
      BY <3>1, <3>2 DEF Deletes, Coherent, Valued
  <2>2. CASE r \in Effective
    <3>1. op[r] = "delete" /\ arg'[r] = arg[r]
      BY <2>2, EffectStays
    <3>2. rows[arg[r]] = Absent /\ arg[r] \in Known
      BY <1>1, <2>2, <3>1 DEF DeleteStays, Informed, Exists
    <3>3. PICK t \in Known : t = arg[r]
      BY <3>2
    <3>4. rows'[t] = Absent
      BY <3>2, <3>3, GoneStays
    <3> QED
      BY <3>1, <3>3, <3>4
  <2> QED
    BY <2>1, <2>2 DEF Acts
<1>3. ASSUME r \in void'
      PROVE  Gone(r)'
  <2>1. CASE Acts(r)
    <3>1. Deletes(r) /\ op[r] = "delete" /\ pc[r] = "delete"
      BY <2>1, ActFacts DEF Inserts, Updates, Deletes
    <3>2. r \notin void
      BY <2>1 DEF Acts, Effective
    <3>3. ~Exists(arg[r])
      BY <1>3, <3>1, <3>2 DEF Deletes
    <3>4. Gone(r)
      BY <1>1, <3>1, <3>3 DEF DeleteStays
    <3> QED
      BY <3>1, <3>4, GoneForGood
  <2>2. CASE ~Acts(r)
    <3>1. r \in Effective
      BY <1>3, <2>2 DEF Acts, Effective
    <3>2. op[r] = "delete" /\ pc[r] # "idle"
      BY <3>1, EffectStays
    <3>3. r \in void
      <4>1. CASE r \in done
        <5>1. rows[arg[r]] = Absent
          BY <1>1, <3>1, <3>2 DEF DeleteStays, Exists
        <5>2. ASSUME r \notin void PROVE FALSE
          <6>1. ASSUME NEW q \in Requests, Acts(q) PROVE FALSE
            <7>1. q # r
              BY <2>2, <6>1
            <7> QED
              BY <1>3, <5>2, <6>1, <7>1, ActFacts DEF Frame
          <6>2. ASSUME NEW q \in Requests, Asks(q) \/ Proceed(q) \/ Disturb(q) PROVE q = r
            BY <1>3, <5>2, <6>2, StepFrame DEF Frame
          <6>3. Asks(r) \/ Proceed(r) \/ Disturb(r)
            BY <1>3, <5>2, <6>2, OutsideFrame DEF Next, Rest, Asks, Outside
          <6>4. Delete(r)
            BY <1>3, <5>2, <6>3
               DEF Asks, AskChange, AskReading, Receive, Proceed, Disturb, CheckExists,
                   Insert, Update, Audit, Get, List, CountRows, ReadRows, Panic, Abandon,
                   NeverRuns
          <6>5. r \notin Effective
            BY <6>4 DEF Delete, Coherent, Trailed, Placed
          <6> QED
            BY <3>1, <6>5
        <5> QED
          BY <5>2
      <4> QED
        BY <3>1, <4>1 DEF Effective
    <3>4. Gone(r)
      BY <1>1, <3>2, <3>3 DEF DeleteStays
    <3> QED
      BY <3>2, <3>4, GoneForGood
  <2> QED
    BY <2>1, <2>2
<1>4. ASSUME pc'[r] = "delete", rows'[arg'[r]] = Absent
      PROVE  Gone(r)'
  <2>1. pc[r] # "idle" /\ ~Acts(r)
    BY <1>4, DeleteArrives
  <2>2. op[r] = "delete" /\ arg'[r] = arg[r] /\ before'[r] = before[r]
    BY <2>1, StepSteady DEF Steady
  <2>3. pc[r] = "delete"
    BY <1>4, <2>2, DeleteArrives DEF Exists
  <2>4. PICK t \in Known : t = arg[r]
    BY <1>1, <2>2 DEF Informed
  <2>5. t \in Targets /\ t \in Ids /\ t \notin Projects
    BY KnownStays, RecordsAssumption DEF Targets
  <2>6. CASE rows[t] = Absent
    <3>1. Gone(r)
      BY <1>1, <2>2, <2>3, <2>4, <2>6 DEF DeleteStays, Exists
    <3> QED
      BY <2>1, <2>2, <3>1, GoneForGood
  <2>7. ASSUME rows[t] # Absent, NEW q \in Requests, Acts(q), Deletes(q), arg[q] = t
        PROVE  Gone(r)'
    <3>1. q \in done' /\ op'[q] = "delete" /\ arg'[q] = t
      BY <2>7, ActFacts DEF Deletes, Exists
    <3>2. q \notin before'[r] \/ answer'[q] = "lost"
      BY <2>1, <2>7, ActsLate
    <3> QED
      BY <2>2, <2>4, <3>1, <3>2 DEF Gone
  <2>8. ASSUME rows[t] # Absent, NEW p \in Projects, DeleteProject(p), t \in Cascade(p)
        PROVE  Gone(r)'
    <3>1. p \in Targets /\ p \in Cascade(p)
      BY DEF Targets, Cascade
    <3>2. ~Exists(p)'
      BY <2>8, <3>1 DEF DeleteProject, Exists
    <3>3. rows[t].project = p
      BY <2>5, <2>8 DEF Cascade
    <3>4. t \in Requests => p = arg[t]
      BY <2>8, <3>3 DEF Coherent, Related, Exists
    <3>5. arg' = arg
      BY <2>8 DEF DeleteProject
    <3> QED
      BY <2>4, <3>2, <3>4, <3>5 DEF Gone
  <2>9. ASSUME NEW q \in Requests, Updates(q), arg[q] = t, rows'[t] = Merged(rows[t], want[q])
        PROVE  FALSE
    BY <1>4, <2>2, <2>4, <2>9, UpdatedRow, RowNotAbsent
  <2>10. ASSUME t \in Requests, Acts(t)
         PROVE  FALSE
    BY <2>10, KnownNotInserted
  <2> QED
    BY <1>4, <2>2, <2>4, <2>5, <2>6, <2>7, <2>8, <2>9, <2>10, RowFacts
<1> QED
  BY <1>2, <1>3, <1>4

LEMMA MayFollowStays ==
  ASSUME Coherent, [Next]_vars, NEW q \in Requests, NEW r \in Requests, r \in done,
         MayFollow(q, r)
  PROVE  MayFollow(q, r)'
<1>1. q \in done' /\ (answer[q] = "lost" => answer'[q] = "lost")
  BY StepSteady DEF MayFollow, Steady
<1>2. before'[r] = before[r]
  BY EffectStays DEF Effective
<1> QED
  BY <1>1, <1>2 DEF MayFollow

LEMMA ResetStays ==
  ASSUME Coherent, [Next]_vars, NEW r \in Requests, NEW f, r \in done, Reset(r, f)
  PROVE  Reset(r, f)'
<1>1. PICK q \in Requests : /\ op[q] = "update" /\ arg[q] = arg[r]
                            /\ MayFollow(q, r) /\ want[q][f] # Keep
  BY DEF Reset
<1>2. MayFollow(q, r)'
  BY <1>1, MayFollowStays
<1>3. q \in Effective /\ r \in Effective
  BY <1>1 DEF MayFollow, Effective
<1>4. op'[q] = "update" /\ arg'[q] = arg'[r] /\ want'[q][f] # Keep
  BY <1>1, <1>3, EffectStays
<1> QED
  BY <1>2, <1>4 DEF Reset

(* Whoever reads a row reads it as it is.                                  *)
LEMMA ReaderFacts ==
  ASSUME Coherent, [Next]_vars, NEW q \in Requests, op'[q] = "get", answer'[q] = "ok"
  PROVE  /\ op[q] = "get" /\ arg'[q] = arg[q] /\ before'[q] = before[q]
         /\ \/ answer[q] = "ok" /\ shown'[q] = shown[q]
            \/ answer[q] # "ok" /\ Exists(arg[q]) /\ shown'[q] = rows[arg[q]]
<1>1. Typed /\ Valued /\ Informed(q) /\ Placed(q)
  BY DEF Coherent, Trailed
<1>2. ASSUME Asks(q)
      PROVE  FALSE
  <2>1. ASSUME NEW o, NEW t, NEW w, Asked(o, t, w), Receive(q, o, t, w, FirstStep(o))
        PROVE  FALSE
    BY <1>1, <2>1 DEF Receive, Placed
  <2>2. ~Declined(q)
    BY <1>1 DEF Declined, Typed
  <2> QED
    BY <1>1, <1>2, <2>1, <2>2, AskCases
<1>3. CASE Get(q)
  <2>1. pc[q] = "get" /\ answer[q] = "none"
    BY <1>1, <1>3 DEF Get, Informed, Writing
  <2>2. Exists(arg[q]) /\ shown'[q] = rows[arg[q]]
    <3>1. answer'[q] = IF Exists(arg[q]) THEN "ok" ELSE "not found"
      BY <1>3, <2>1, Moves DEF Get
    <3> QED
      BY <1>1, <1>3, <3>1 DEF Get, Valued
  <2> QED
    BY <1>3, <2>1, <2>2 DEF Get
<1>4. CASE (Proceed(q) \/ Disturb(q)) /\ ~Get(q)
  <2>1. UNCHANGED <<op, arg, before>>
    BY <1>4 DEF Proceed, Disturb, CheckExists, Insert, Update, Delete, Audit, List,
                CountRows, ReadRows, Panic, Abandon, NeverRuns
  <2>2. pc[q] = "list" => op[q] # "get"
    BY <1>1 DEF Informed
  <2>3. answer[q] = "ok" /\ shown' = shown
    <3>1. ASSUME ReadRows(q) PROVE FALSE
      BY <1>1, <2>1, <3>1 DEF ReadRows, Informed
    <3>2. ASSUME Audit(q) PROVE FALSE
      BY <1>1, <2>1, <3>2 DEF Audit, Placed, Informed, Effective, Changes
    <3>3. ASSUME List(q) PROVE FALSE
      BY <2>1, <2>2, <3>3 DEF List
    <3> QED
      BY <1>1, <1>4, <3>1, <3>2, <3>3
         DEF Proceed, Disturb, CheckExists, Insert, Update, Delete, CountRows, Panic,
             Abandon, NeverRuns, Respond, Continue, Typed
  <2> QED
    BY <2>1, <2>3
<1>5. ASSUME NEW r \in Requests, r # q, Asks(r) \/ Proceed(r) \/ Disturb(r)
      PROVE  /\ op[q] = "get" /\ arg'[q] = arg[q] /\ before'[q] = before[q]
             /\ answer[q] = "ok" /\ shown'[q] = shown[q]
  BY <1>5, StepFrame DEF Frame
<1>6. CASE Outside
  BY <1>6, OutsideFrame
<1> QED
  BY <1>2, <1>3, <1>4, <1>5, <1>6 DEF Next, Rest, Asks, Outside

LEMMA SetField ==
  ASSUME NEW row \in Row, NEW w \in Patch, NEW f \in {"name", "notes"}
  PROVE  Merged(row, w)[f] = IF w[f] = Keep THEN row[f] ELSE NullIf(w[f])
<1>1. \A v \in Values : NullIf(v) = v
  BY RecordsAssumption DEF NullIf
<1>2. CASE f = "name"
  BY <1>1, <1>2, MergedRow DEF Patch
<1>3. CASE f = "notes"
  BY <1>3, MergedRow
<1> QED
  BY <1>2, <1>3

LEMMA StepField ==
  ASSUME Coherent, [Next]_vars, NEW r \in Requests, NEW f \in {"name", "notes"}
  PROVE  FieldStays(r, f)'
<1> SUFFICES ASSUME op'[r] = "update", r \in done', want'[r][f] # Keep, ~Reset(r, f)'
             PROVE  /\ rows'[arg'[r]] # Absent
                         => rows'[arg'[r]][f] = NullIf(want'[r][f])
                    /\ \A q \in Requests :
                         /\ op'[q] = "get" /\ arg'[q] = arg'[r] /\ answer'[q] = "ok"
                         /\ r \in before'[q] /\ answer'[r] = "ok"
                         => shown'[q][f] = NullIf(want'[r][f])
  BY DEF FieldStays, Exists
<1>1. CASE Acts(r)
  <2>1. Updates(r) /\ arg' = arg /\ want' = want /\ answer' = answer /\ before' = before
    BY <1>1, ActFacts DEF Inserts, Deletes, Continue
  <2>2. /\ arg[r] \in Targets /\ want[r] \in Patch /\ rows[arg[r]] \in Row
        /\ rows'[arg[r]] = Merged(rows[arg[r]], want[r])
    BY <2>1, UpdatedRow DEF Updates, Coherent, Valued
  <2>3. answer'[r] # "ok"
    BY <2>1, Moves DEF Updates
  <2> QED
    BY <2>1, <2>2, <2>3, SetField
<1>2. CASE ~Acts(r)
  <2>1. r \in Effective
    BY <1>2 DEF Acts, Effective
  <2>2. /\ op[r] = "update" /\ pc[r] # "idle" /\ arg'[r] = arg[r] /\ want'[r] = want[r]
        /\ before'[r] = before[r]
    BY <2>1, EffectStays
  <2>3. r \in done
    BY <2>1, <2>2 DEF Effective, Coherent, Informed
  <2>4. ~Reset(r, f)
    BY <2>3, ResetStays
  <2>5. FieldStays(r, f) /\ Informed(r)
    BY DEF Coherent
  <2>6. /\ Exists(arg[r]) => rows[arg[r]][f] = NullIf(want[r][f])
        /\ \A q \in Requests :
             /\ op[q] = "get" /\ arg[q] = arg[r] /\ answer[q] = "ok"
             /\ r \in before[q] /\ answer[r] = "ok"
             => shown[q][f] = NullIf(want[r][f])
    BY <2>2, <2>3, <2>4, <2>5 DEF FieldStays
  <2>7. PICK t \in Projects \union Known : t = arg[r]
    BY <2>2, <2>5 DEF Informed
  <2>8. t \in Targets
    BY KnownStays DEF Targets
  <2>9. PICK v : v = NullIf(want[r][f])
    OBVIOUS
  <2>10. rows'[t] # Absent => rows'[t][f] = v
    <3>1. ASSUME NEW q \in Requests, Acts(q), Updates(q), arg[q] = t,
                 rows'[t] = Merged(rows[t], want[q])
          PROVE  rows'[t][f] = v
      <4>1. want[q] \in Patch /\ rows[t] \in Row /\ Exists(t)
        BY <3>1, UpdatedRow DEF Updates
      <4>2. rows'[t][f] = IF want[q][f] = Keep THEN rows[t][f] ELSE NullIf(want[q][f])
        BY <3>1, <4>1, SetField
      <4>3. want[q][f] = Keep
        <5>1. q # r /\ q \in done' /\ op'[q] = "update" /\ arg'[q] = t /\ want'[q] = want[q]
          BY <1>2, <3>1, ActFacts DEF Updates
        <5>2. q \notin before'[r] \/ answer'[q] = "lost"
          BY <2>2, <3>1, ActsLate
        <5>3. MayFollow(q, r)'
          BY <5>1, <5>2 DEF MayFollow
        <5>4. want[q][f] # Keep => Reset(r, f)'
          BY <2>2, <2>7, <5>1, <5>3 DEF Reset
        <5> QED
          BY <5>4
      <4> QED
        BY <2>6, <2>7, <2>9, <4>1, <4>2, <4>3
    <3>2. ASSUME t \in Requests, Acts(t)
          PROVE  FALSE
      BY <3>2, KnownNotInserted, RecordsAssumption DEF Ids
    <3>3. rows'[t] = rows[t] /\ rows[t] # Absent => rows'[t][f] = v
      BY <2>6, <2>7, <2>9 DEF Exists
    <3> QED
      BY <2>8, <3>1, <3>2, <3>3, RowFacts
  <2>11. ASSUME NEW q \in Requests, op'[q] = "get", arg'[q] = t, answer'[q] = "ok",
                r \in before'[q], answer'[r] = "ok"
         PROVE  shown'[q][f] = v
    <3>1. /\ op[q] = "get" /\ arg[q] = t /\ r \in before[q]
          /\ \/ answer[q] = "ok" /\ shown'[q] = shown[q]
             \/ Exists(t) /\ shown'[q] = rows[t]
      BY <2>11, ReaderFacts
    <3>2. answer[r] # "none"
      BY <3>1 DEF Coherent, Informed
    <3>3. answer[r] = "ok"
      BY <2>11, <3>2, StepSteady DEF Steady
    <3> QED
      BY <2>6, <2>7, <2>9, <3>1, <3>3
  <2> QED
    BY <2>2, <2>7, <2>9, <2>10, <2>11
<1> QED
  BY <1>1, <1>2

LEMMA InitCoherent == Init => Coherent
<1> SUFFICES ASSUME Init PROVE Coherent
  OBVIOUS
<1>1. /\ rows \in Stored /\ history = Past /\ done = {} /\ void = {}
      /\ rows \in [Targets -> Row \union {Absent}]
      /\ \A r \in Requests : rows[r] = Absent
      /\ \A p \in Projects : rows[p] # Absent /\ rows[p].project = p
      /\ \A p, q \in Projects : rows[p].name = rows[q].name => p = q
  BY RecordsAssumption DEF Init
<1>2. Valued
  BY <1>1, RecordsAssumption DEF Init, Valued
<1>3. Related
  <2>1. ASSUME NEW i \in Ids, Exists(i) PROVE Exists(rows[i].project)
    BY <1>1, <2>1 DEF Exists, Targets, Row
  <2>2. ASSUME NEW i \in DOMAIN history PROVE Exists(history[i].project)
    <3>1. history \in Seq(Entry)
      BY <1>1, RecordsAssumption
    <3>2. history[i] \in Entry
      BY <3>1, LenProperties, ElementOfSeq
    <3> QED
      BY <1>1, <3>2 DEF Exists, Entry
  <2> QED
    BY <1>1, <2>1, <2>2 DEF Related, Exists
<1>4. \A r \in Requests : Informed(r) /\ CountStays(r) /\ DeleteStays(r)
  BY DEF Init, Informed, CountStays, DeleteStays, Changes, Effective
<1>5. \A r \in Requests, f \in {"name", "notes"} : FieldStays(r, f)
  BY DEF Init, FieldStays
<1> QED
  BY <1>2, <1>3, <1>4, <1>5, InitTrailed DEF Coherent

LEMMA StepCoherent == Coherent /\ [Next]_vars => Coherent'
<1> SUFFICES ASSUME Coherent, [Next]_vars PROVE Coherent'
  OBVIOUS
<1>1. Trailed'
  BY StepTrailed DEF Coherent
<1>2. Valued' /\ Related'
  BY StepValued, StepRelated
<1>3. \A r \in Requests : Informed(r)' /\ CountStays(r)' /\ DeleteStays(r)'
  BY StepInformed, StepCount, StepDelete
<1>4. \A r \in Requests, f \in {"name", "notes"} : FieldStays(r, f)'
  BY StepField
<1> QED
  BY <1>1, <1>2, <1>3, <1>4 DEF Coherent

LEMMA AlwaysCoherent == Spec => []Coherent
BY InitCoherent, StepCoherent, PTL DEF Spec

-----------------------------------------------------------------------------
(* Types and updates *)

(* Types; whatever is deleted beside them, saved queries and history belong *)
(* to projects that are there, no two projects share a name, and who awaits *)
(* its audit row has run its statement.                                    *)
THEOREM RecordsTyped == Spec => []TypeOK
<1>1. Coherent => TypeOK
  <2> SUFFICES ASSUME Coherent PROVE TypeOK
    OBVIOUS
  <2>1. Trailed /\ Valued /\ Related
    BY DEF Coherent
  <2>2. \A r \in Requests : pc[r] = "audit" => r \in (done \union void) \ Recorded
    BY <2>1 DEF Trailed, Placed, Effective
  <2>3. Typed /\ {done, void} \subseteq SUBSET Requests
    BY <2>1 DEF Trailed, Valued
  <2> QED
    BY <2>1, <2>2, <2>3 DEF TypeOK, Typed, Valued, Related, Steps, Answers
<1> QED
  BY <1>1, AlwaysCoherent, PTL

(* update_project and update keep what is absent and set what is present:  *)
(* a field that was set is read as it was set until another update that may *)
(* have been later sets it.                                                *)
THEOREM UpdatesHold == Spec => []UpdateHolds
<1>1. Coherent => UpdateHolds
  <2> SUFFICES ASSUME Coherent, NEW r \in Requests, NEW f \in {"name", "notes"},
                      op[r] = "update", answer[r] = "ok", want[r][f] # Keep
               PROVE  \/ Reset(r, f)
                      \/ /\ Exists(arg[r]) => rows[arg[r]][f] = NullIf(want[r][f])
                         /\ \A q \in Requests :
                              /\ op[q] = "get" /\ arg[q] = arg[r] /\ answer[q] = "ok"
                              /\ r \in before[q]
                              => shown[q][f] = NullIf(want[r][f])
    BY DEF UpdateHolds, Reset
  <2>1. r \in done
    BY DEF Coherent, Informed, Changes, Effective
  <2> QED
    BY <2>1 DEF Coherent, FieldStays
<1> QED
  BY <1>1, AlwaysCoherent, PTL

-----------------------------------------------------------------------------
(* Pages *)

(* Out-of-range parameters are brought into range.                         *)
LEMMA PageInRange ==
  ASSUME Coherent, NEW r \in Requests, op[r] \in {"history", "audits"}
  PROVE  PageOf(r) \in Nat \ {0} /\ LimitOf(r) \in Nat \ {0}
<1>1. want[r] \in Listing
  BY RecordsAssumption DEF Coherent, Informed
<1>2. want[r].page \in Int \union {Unset} /\ want[r].limit \in Int \union {Unset}
  BY <1>1, PagingAssumption DEF Listing, I64
<1>3. PageOf(r) \in Nat \ {0}
  BY <1>2 DEF PageOf, ResolvedPage
<1>4. LimitOf(r) \in Nat \ {0}
  BY <1>2, PagingAssumption DEF LimitOf, ResolvedLimit
<1> QED
  BY <1>3, <1>4

LEMMA OffsetInRange ==
  ASSUME Coherent, NEW r \in Requests, op[r] \in {"history", "audits"}
  PROVE  Offset(PageOf(r), LimitOf(r)) \in Nat
<1>1. \A m, n \in Nat : m * n \in Nat
  OBVIOUS
<1>2. PageOf(r) - 1 \in Nat /\ LimitOf(r) \in Nat
  BY PageInRange
<1> QED
  BY <1>1, <1>2 DEF Offset

LEMMA Residue ==
  ASSUME NEW m \in Nat \ {0}, NEW x \in 0 .. m - 1
  PROVE  x % m = x
OBVIOUS

(* An offset that an i64 can hold is used as it is.                        *)
LEMMA WrappedExact ==
  ASSUME NEW n \in Nat, n < Half
  PROVE  Wrapped(n) = n
<1>1. 2 * Half \in Nat \ {0} /\ n + Half \in 0 .. 2 * Half - 1
  BY PagingAssumption
<1>2. (n + Half) % (2 * Half) = n + Half
  BY <1>1, Residue
<1> QED
  BY <1>2, PagingAssumption DEF Wrapped

LEMMA PageRows ==
  ASSUME NEW S, NEW s \in Seq(S), NEW k \in Nat, NEW limit \in Nat \ {0}
  PROVE  /\ \A i \in k + 1 .. k + limit :
              i <= Len(s) => /\ i - k \in DOMAIN Page(s, k, limit)
                             /\ Page(s, k, limit)[i - k] = s[i]
         /\ Len(Page(s, k, limit)) <= limit
         /\ k + limit <= Len(s) => Len(Page(s, k, limit)) = limit
<1> DEFINE last == IF k + limit < Len(s) THEN k + limit ELSE Len(s)
           page == SubSeq(s, k + 1, last)
<1>1. /\ Len(s) \in Nat /\ last \in Nat /\ last <= Len(s)
      /\ \A i \in k + 1 .. last : s[i] \in S
  BY LenProperties, ElementOfSeq
<1>2. /\ page \in Seq(S)
      /\ Len(page) = IF k + 1 <= last THEN last - k ELSE 0
      /\ \A j \in 1 .. last - k : page[j] = s[k + j]
  <2> HIDE DEF last
  <2>1. k + 1 \in Int /\ last \in Int
    BY <1>1
  <2> QED
    BY <1>1, <2>1, SubSeqProperties
<1>3. DOMAIN page = 1 .. Len(page)
  BY <1>2, LenProperties
<1>4. page = Page(s, k, limit)
  BY DEF Page
<1>5. ASSUME NEW i \in k + 1 .. k + limit, i <= Len(s)
      PROVE  i - k \in DOMAIN page /\ page[i - k] = s[i]
  <2>1. i <= last /\ i - k \in 1 .. last - k /\ k + (i - k) = i
    BY <1>1, <1>5
  <2>2. i - k \in 1 .. Len(page)
    BY <1>1, <1>2, <2>1
  <2> QED
    BY <1>2, <1>3, <2>1, <2>2
<1>6. Len(page) <= limit /\ (k + limit <= Len(s) => Len(page) = limit)
  BY <1>1, <1>2
<1> QED
  BY <1>4, <1>5, <1>6

LEMMA MatchingRows ==
  ASSUME Coherent, NEW r \in Requests
  PROVE  \E S : Matching(r) \in Seq(S)
<1>1. /\ Selected(audit, Audits(r)) \in Seq(Requests)
      /\ Selected(history, Queries(r)) \in Seq(Entry)
  BY SelectedRows DEF Coherent, Trailed, Typed, Valued
<1>2. /\ Reverse(Selected(audit, Audits(r))) \in Seq(Requests)
      /\ Reverse(Selected(history, Queries(r))) \in Seq(Entry)
  BY <1>1, ReverseLength
<1> QED
  BY <1>2 DEF Matching

LEMMA CountIsThere ==
  ASSUME Coherent, NEW r \in Requests, pc[r] = "rows"
  PROVE  total[r] = 0 \/ total[r] <= Len(Matching(r)) \/ ~Exists(arg[r])
<1>1. Informed(r) /\ CountStays(r)
  BY DEF Coherent
<1>2. CASE op[r] = "audits"
  BY <1>1, <1>2 DEF Informed
<1>3. CASE op[r] = "history"
  <2>1. Matching(r) = Reverse(Selected(history, Queries(r)))
    BY <1>3 DEF Matching
  <2>2. Selected(history, Queries(r)) \in Seq(Entry)
    BY SelectedRows DEF Coherent, Valued
  <2>3. Len(Matching(r)) = Len(Selected(history, Queries(r)))
    BY <2>1, <2>2, ReverseLength
  <2> QED
    BY <1>1, <1>3, <2>3 DEF CountStays
<1> QED
  BY <1>1, <1>2, <1>3 DEF Informed

(* Only reading the rows ends what awaits them with a success.             *)
LEMMA ReadFacts ==
  ASSUME Coherent, [Next]_vars, NEW r \in Requests,
         pc[r] = "rows", pc'[r] = "done", answer'[r] = "ok"
  PROVE  /\ ReadRows(r) /\ op[r] \in {"history", "audits"}
         /\ Wrapped(Offset(PageOf(r), LimitOf(r))) >= 0
               \/ ~(Wrapped(Offset(PageOf(r), LimitOf(r))) < 0)
         /\ shown'[r] = Page(Matching(r), Wrapped(Offset(PageOf(r), LimitOf(r))),
                             LimitOf(r))
<1>1. /\ Valued /\ Typed /\ op[r] \in {"history", "audits"} /\ answer[r] = "none"
  BY Moves DEF Coherent, Trailed, Informed, Writing
<1>2. ASSUME NEW q \in Requests, q # r, Asks(q) \/ Proceed(q) \/ Disturb(q)
      PROVE  FALSE
  BY <1>2, StepFrame DEF Frame
<1>3. ~Outside
  BY OutsideFrame DEF Outside
<1>4. ~Asks(r)
  BY DEF Asks, AskChange, AskReading, Receive
<1>5. ~Panic(r)
  BY <1>1, Moves DEF Panic
<1>6. ReadRows(r)
  BY <1>1, <1>2, <1>3, <1>4, <1>5
     DEF Next, Rest, Outside, Asks, Proceed, Disturb, CheckExists, Insert, Update, Delete,
         Audit, Get, List, CountRows, Abandon, NeverRuns, Typed, Writing
<1>7. ~Respond(r, "error")
  BY <1>1, Moves
<1> QED
  BY <1>1, <1>6, <1>7 DEF ReadRows, Valued

LEMMA StepPage == Coherent /\ [Next]_vars => PageShown
<1> SUFFICES ASSUME Coherent, [Next]_vars, NEW r \in Requests,
                    pc[r] = "rows", pc'[r] = "done", answer'[r] = "ok",
                    (PageOf(r) - 1) * LimitOf(r) < Half
             PROVE  LET first == (PageOf(r) - 1) * LimitOf(r) + 1
                        last == first + LimitOf(r) - 1
                    IN  /\ \A i \in first .. last :
                             i <= Len(Matching(r)) =>
                               /\ i - first + 1 \in DOMAIN shown'[r]
                               /\ shown'[r][i - first + 1] = Matching(r)[i]
                        /\ Len(shown'[r]) <= LimitOf(r)
                        /\ last <= total[r] =>
                             Len(shown'[r]) = LimitOf(r) \/ ~Exists(arg[r])
  BY DEF PageShown
<1>1. op[r] \in {"history", "audits"}
  BY ReadFacts
<1>2. PICK k : k = Offset(PageOf(r), LimitOf(r))
  OBVIOUS
<1>3. PICK limit : limit = LimitOf(r)
  OBVIOUS
<1>4. k \in Nat /\ limit \in Nat \ {0}
  BY <1>1, <1>2, <1>3, OffsetInRange, PageInRange
<1>5. k = (PageOf(r) - 1) * LimitOf(r)
  BY <1>2 DEF Offset
<1>6. Wrapped(k) = k
  BY <1>4, <1>5, WrappedExact
<1>7. PICK s : s = Matching(r)
  OBVIOUS
<1>8. PICK page : page = shown'[r]
  OBVIOUS
<1>9. page = Page(s, k, limit)
  BY <1>2, <1>3, <1>6, <1>7, <1>8, ReadFacts
<1>10. PICK S : s \in Seq(S)
  BY <1>7, MatchingRows
<1>11. PICK n : n = total[r]
  OBVIOUS
<1>12. n \in Nat /\ Len(s) \in Nat
  BY <1>10, <1>11, LenProperties DEF Coherent, Valued
<1>13. /\ \A i \in k + 1 .. k + limit :
             i <= Len(s) => i - k \in DOMAIN page /\ page[i - k] = s[i]
       /\ Len(page) <= limit
       /\ k + limit <= Len(s) => Len(page) = limit
  <2>1. /\ \A i \in k + 1 .. k + limit :
              i <= Len(s) => /\ i - k \in DOMAIN Page(s, k, limit)
                             /\ Page(s, k, limit)[i - k] = s[i]
        /\ Len(Page(s, k, limit)) <= limit
        /\ k + limit <= Len(s) => Len(Page(s, k, limit)) = limit
    BY <1>4, <1>10, PageRows
  <2> QED
    BY ONLY <1>9, <2>1
<1>14. k + limit <= n => Len(page) = limit \/ ~Exists(arg[r])
  <2>1. n = 0 \/ n <= Len(s) \/ ~Exists(arg[r])
    BY <1>7, <1>11, CountIsThere
  <2>2. k + limit <= n /\ (n = 0 \/ n <= Len(s)) => k + limit <= Len(s)
    BY <1>4, <1>12
  <2> QED
    BY <1>13, <2>1, <2>2
<1>15. LET first == k + 1
           last == first + limit - 1
       IN  /\ \A i \in first .. last :
                i <= Len(s) => /\ i - first + 1 \in DOMAIN page
                               /\ page[i - first + 1] = s[i]
           /\ Len(page) <= limit
           /\ last <= n => Len(page) = limit \/ ~Exists(arg[r])
  <2>1. k + 1 + limit - 1 = k + limit
    BY <1>4
  <2>2. ASSUME NEW i \in k + 1 .. k + limit, i <= Len(s)
        PROVE  i - (k + 1) + 1 \in DOMAIN page /\ page[i - (k + 1) + 1] = s[i]
    <3>1. i - (k + 1) + 1 = i - k
      BY <1>4
    <3> QED
      BY <1>13, <2>2, <3>1
  <2> QED
    BY <1>13, <1>14, <2>1, <2>2
<1> QED
  BY <1>3, <1>5, <1>7, <1>8, <1>11, <1>15

(* A page begins where those before it end and shows what is there; one    *)
(* that is full by the total is full, unless the project has been deleted: *)
(* whatever is logged, counted and deleted between the two SELECTs.        *)
THEOREM PagesShown == Spec => PageExplained
BY StepPage, AlwaysCoherent, PTL DEF PageExplained, Spec

-----------------------------------------------------------------------------
(* Answers *)

LEMMA EmptyDeletes == Coherent => EmptyDeleteExplained
<1> SUFFICES ASSUME Coherent, NEW r \in Requests
             PROVE  /\ r \in void => Gone(r)
                    /\ op[r] = "delete" /\ answer[r] = "ok" => ~Exists(arg[r])
  BY DEF EmptyDeleteExplained, Gone
<1>1. Informed(r) /\ DeleteStays(r)
  BY DEF Coherent
<1> QED
  BY <1>1 DEF Informed, DeleteStays, Changes

(* Only three statements are answered with 500.                            *)
LEMMA ErrorStatements ==
  ASSUME Coherent, [Next]_vars, NEW r \in Requests,
         answer'[r] = "error", answer[r] # "error"
  PROVE  /\ answer[r] = "none"
         /\ Insert(r) \/ Update(r) \/ ReadRows(r)
         /\ Respond(r, "error")
<1>1. /\ Valued /\ Typed /\ answer[r] = "none"
      /\ pc[r] # "idle" => op'[r] = op[r]
  BY StepSteady DEF Coherent, Trailed, Steady
<1>2. ASSUME NEW q \in Requests, q # r, Asks(q) \/ Proceed(q) \/ Disturb(q)
      PROVE  FALSE
  BY <1>2, StepFrame DEF Frame
<1>3. ~Outside
  BY OutsideFrame DEF Outside
<1>4. ~Asks(r)
  BY <1>1 DEF Asks, AskChange, AskReading, Receive, Typed
<1>5. ~Disturb(r)
  BY <1>1 DEF Disturb, Panic, Abandon, NeverRuns, Respond, Continue, Typed
<1>6. Proceed(r)
  BY <1>1, <1>2, <1>3, <1>4, <1>5 DEF Next, Rest, Outside, Asks
<1>7. /\ ~CheckExists(r) /\ ~Delete(r) /\ ~Audit(r) /\ ~Get(r) /\ ~List(r)
      /\ ~CountRows(r)
  BY <1>1 DEF CheckExists, Delete, Audit, Get, List, CountRows, Respond, Continue, Typed
<1>8. Insert(r) \/ Update(r) \/ ReadRows(r)
  BY <1>6, <1>7 DEF Proceed
<1>9. Respond(r, "error")
  BY <1>1, <1>8 DEF Insert, Update, ReadRows, Respond, Continue, Typed
<1> QED
  BY <1>1, <1>8, <1>9

(* The UPDATE of a project is refused for the name it sets, and only then. *)
LEMMA RefusedName ==
  ASSUME Coherent, NEW r \in Requests, pc[r] = "update", Exists(arg[r]),
         Refused(arg[r], Merged(rows[arg[r]], want[r]))
  PROVE  \E p \in Projects \ {arg[r]} : Exists(p) /\ rows[p].name = want[r].name
<1>1. /\ arg[r] \in Projects \union Known /\ want[r] \in Patch
      /\ rows[arg[r]] \in Row
      /\ \A p, q \in Projects :
           Exists(p) /\ Exists(q) /\ rows[p].name = rows[q].name => p = q
  <2>1. Informed(r) /\ Valued /\ Related
    BY DEF Coherent
  <2>2. arg[r] \in Projects \union Known /\ want[r] \in Patch
    BY <2>1 DEF Informed
  <2>3. arg[r] \in Targets
    BY <2>1, <2>2 DEF Known, Targets, Ids, Valued
  <2> QED
    BY <2>1, <2>2, <2>3 DEF Valued, Related, Exists
<1>2. Merged(rows[arg[r]], want[r]).name =
        IF want[r].name = Keep THEN rows[arg[r]].name ELSE want[r].name
  BY <1>1, MergedRow
<1>3. Merged(rows[arg[r]], want[r]).name # Null
  BY <1>1, <1>2, RecordsAssumption DEF Row, Patch
<1> QED
  BY <1>1, <1>2, <1>3 DEF Refused

LEMMA ReadTooFar ==
  ASSUME Coherent, NEW r \in Requests, pc[r] = "rows",
         Wrapped(Offset(PageOf(r), LimitOf(r))) < 0
  PROVE  Overflows(PageOf(r), LimitOf(r))
<1>1. op[r] \in {"history", "audits"}
  BY DEF Coherent, Informed
<1>2. PICK k : k = Offset(PageOf(r), LimitOf(r))
  OBVIOUS
<1>3. k \in Nat
  BY <1>1, <1>2, OffsetInRange
<1>4. ~(k < Half)
  BY <1>2, <1>3, WrappedExact
<1>5. k \notin I64
  BY <1>3, <1>4, PagingAssumption DEF I64
<1> QED
  BY <1>2, <1>5 DEF Overflows

LEMMA StepError == Coherent /\ [Next]_vars => ErrorExplained
<1> SUFFICES ASSUME Coherent, [Next]_vars, NEW r \in Requests,
                    answer'[r] = "error", answer[r] # "error"
             PROVE  CASE op[r] = "create" -> ~Exists(arg[r])
                      [] op[r] = "update" ->
                           \E p \in Projects \ {arg[r]} :
                             Exists(p) /\ rows[p].name = want[r].name
                      [] OTHER -> Overflows(PageOf(r), LimitOf(r))
  BY DEF ErrorExplained
<1>1. /\ Insert(r) \/ Update(r) \/ ReadRows(r)
      /\ Respond(r, "error") /\ Informed(r) /\ Typed
  BY ErrorStatements DEF Coherent, Trailed
<1>2. pc'[r] = "done"
  BY <1>1 DEF Respond, Typed
<1>3. CASE Insert(r)
  <2>1. op[r] = "create"
    BY <1>1, <1>3 DEF Insert, Informed
  <2>2. ~Exists(arg[r])
    BY <1>1, <1>2, <1>3, Moves DEF Insert
  <2> QED
    BY <2>1, <2>2
<1>4. CASE Update(r)
  <2>1. op[r] = "update"
    BY <1>1, <1>4 DEF Update, Informed
  <2>2. pc[r] = "update"
    BY <1>4 DEF Update
  <2>3. Exists(arg[r]) /\ Refused(arg[r], Merged(rows[arg[r]], want[r]))
    <3>1. ~Respond(r, "not found") /\ ~Continue(r, "audit")
      BY <1>1 DEF Respond, Continue, Typed
    <3> QED
      BY <1>4, <3>1 DEF Update
  <2>4. \E p \in Projects \ {arg[r]} : Exists(p) /\ rows[p].name = want[r].name
    BY <2>2, <2>3, RefusedName
  <2> QED
    BY <2>1, <2>4
<1>5. CASE ReadRows(r)
  <2>1. pc[r] = "rows" /\ op[r] \in {"history", "audits"}
    BY <1>1, <1>5 DEF ReadRows, Informed
  <2>2. Wrapped(Offset(PageOf(r), LimitOf(r))) < 0
    BY <1>5, <2>1, Moves DEF ReadRows
  <2> QED
    BY <2>1, <2>2, ReadTooFar
<1> QED
  BY <1>1, <1>3, <1>4, <1>5

(* A 204 for a row that somebody else had deleted and a 500 without a      *)
(* failure have causes, whatever runs beside them.                         *)
THEOREM RecordsAnswers == Spec => AnswersExplained
<1>1. Coherent => EmptyDeleteExplained
  BY EmptyDeletes
<1>2. (Coherent => EmptyDeleteExplained)'
  BY <1>1, PTL
<1>3. Coherent /\ Coherent' /\ [Next]_vars => AnswerExplained
  BY <1>2, StepError DEF AnswerExplained
<1> QED
  BY <1>3, AlwaysCoherent, PTL DEF AnswersExplained, Spec
=================================================================================
