--------------------------- MODULE SessionsProofs ---------------------------
(***************************************************************************)
(* Types and separation of the sessions of Sessions, for any number of     *)
(* requests and connections.                                               *)
(*                                                                         *)
(* SessionsStayApart is not inductive: what a connection goes back to the  *)
(* pool with depends on what its holder has run on it, so the invariant    *)
(* follows every handler through its plan.                                 *)
(***************************************************************************)
EXTENDS Sessions, TLAPS

AllOperations == {"list", "info", "delete", "reset", "query"}

(* A handler holds no connection when it asks for one, and one otherwise;  *)
(* and only what has run the operator's SQL has a result of it.            *)
Placed(r) ==
  /\ Running(r) => op[r] \in AllOperations /\ at[r] \in 1..Len(Plan(op[r]))
  /\ Running(r) /\ Step(r) # "Acquire" => \E c \in Connections : held[r] = <<c>>
  /\ ~Running(r) \/ Step(r) = "Acquire" => held[r] = << >>
  /\ result[r] # "none" => op[r] = "query" /\ at[r] > 7

InPlan == \A r \in Requests : Placed(r)

(* A connection is out if and only if one request holds it.                *)
OneHolder ==
  /\ \A c \in Connections :
       place[c] = "held" <=> \E r \in Requests : held[r] = <<c>>
  /\ \A r, q \in Requests, c \in Connections :
       held[r] = <<c>> /\ held[q] = <<c>> => r = q

(* Neither the end of its transaction nor anything else makes the path of  *)
(* a session the project's: only SET LOCAL does, within a transaction.     *)
Local(s) == IF s.open THEN s.kept # "project" /\ s.before # "project"
            ELSE s.path # "project"

(* Likewise for any path but the panel's, unless an operator sets it.      *)
Panels(s) == IF s.open
             THEN s.kept = "panel" /\ s.before = "panel" /\ s.path # "operator"
             ELSE s.path = "panel"

OperatorHasSet ==
  \E r \in Requests : op[r] = "query" /\ sql[r] = "SET" /\ result[r] = "ok"

SessionsClean ==
  /\ \A c \in Connections : /\ Local(session[c])
                            /\ place[c] = "idle" => ~session[c].open
  /\ \A r \in Requests, c \in Connections :
       Running(r) /\ held[r] = <<c>> =>
         /\ Step(r) = "Begin" => ~session[c].open
         /\ Step(r) = "SetLocal" => session[c].open

PathsExplained ==
  \/ OperatorHasSet
  \/ /\ astray = {}
     /\ \A c \in Connections : Panels(session[c])
     /\ \A r \in Requests, c \in Connections :
          Running(r) /\ held[r] = <<c>> /\ Step(r) \in OnPanelTables \union {"Begin"} =>
            session[c].path = "panel"

Typed ==
  /\ place \in [Connections -> {"idle", "held", "returning"}]
  /\ session \in [Connections -> Session]
  /\ op \in [Requests -> Operations \union {"none"}]
  /\ sql \in [Requests -> OperatorSql \union {"plain"}]
  /\ at \in [Requests -> Nat]
  /\ held \in [Requests -> Seq(Connections)]
  /\ result \in [Requests -> {"none", "ok", "failed"}]
  /\ answer \in [Requests -> {"none", "ok", "error", "gone"}]
  /\ astray \subseteq Requests

Kept == Typed /\ InPlan /\ OneHolder /\ SessionsClean /\ PathsExplained

-----------------------------------------------------------------------------
(* The plans *)

(* What may follow a step of a plan that takes or uses a connection.       *)
Following(stmt) ==
  CASE stmt = "Acquire" -> {"Begin"} \union OnPanelTables
    [] stmt = "Begin" -> {"SetLocal"} \union OnPanelTables
    [] stmt = "SetLocal" -> {"Operator"}
    [] stmt = "Operator" -> {"End"}
    [] stmt \in OnPanelTables -> {"Commit", "Release"} \union OnPanelTables
    [] stmt = "Release" -> {"Acquire"}
    [] OTHER -> {"Release"}

(* Every plan takes a connection, uses it and gives it back, again and     *)
(* again: begin comes first on it, SET LOCAL and the operator's SQL follow *)
(* at once, and the plan ends by giving back.                              *)
LEMMA PlanShape ==
  ASSUME NEW o \in AllOperations, NEW i \in 1..Len(Plan(o))
  PROVE  /\ Plan(o) \in Seq(Statements \union {"Acquire", "Release"})
         /\ Plan(o)[i] \in Statements \union {"Acquire", "Release"}
         /\ Len(Plan(o)) \in Nat /\ 1 \in 1..Len(Plan(o))
         /\ Plan(o)[1] = "Acquire"
         /\ Plan(o)[i] # "Release" => i # Len(Plan(o))
         /\ i # Len(Plan(o)) => /\ i + 1 \in 1..Len(Plan(o))
                                /\ Plan(o)[i + 1] \in Following(Plan(o)[i])
         /\ Plan(o)[i] = "Operator" => o = "query" /\ i = 7
<1> USE DEF Statements, OnPanelTables, Following
<1>1. CASE o = "list"
  <2>1. Plan(o) = <<"Acquire", "Select", "Release">>
    BY <1>1 DEF Plan, ListPlan
  <2> QED BY <2>1
<1>2. CASE o = "info"
  <2>1. Plan(o) = <<"Acquire", "Select", "Release", "Acquire", "Audit", "Release">>
    BY <1>2 DEF Plan, InfoPlan
  <2>2. Len(Plan(o)) = 6 BY <2>1
  <2>3. i \in {1, 2, 3, 4, 5, 6} BY <2>2
  <2> QED BY <2>1, <2>2, <2>3
<1>3. CASE o = "delete"
  <2>1. Plan(o) = <<"Acquire", "Begin", "Select", "Change", "Audit", "Commit", "Release">>
    BY <1>3 DEF Plan, DeletePlan
  <2>2. Len(Plan(o)) = 7 BY <2>1
  <2>3. i \in {1, 2, 3, 4, 5, 6, 7} BY <2>2
  <2> QED BY <2>1, <2>2, <2>3
<1>4. CASE o = "reset"
  <2>1. Plan(o) = <<"Acquire", "Select", "Release",
                    "Acquire", "Begin", "Change", "Audit", "Commit", "Release">>
    BY <1>4 DEF Plan, ResetPlan
  <2>2. Len(Plan(o)) = 9 BY <2>1
  <2>3. i \in {1, 2, 3, 4, 5, 6, 7, 8, 9} BY <2>2
  <2> QED BY <2>1, <2>2, <2>3
<1>5. CASE o = "query"
  <2>1. Plan(o) = <<"Acquire", "Select", "Release",
                    "Acquire", "Begin", "SetLocal", "Operator", "End", "Release",
                    "Acquire", "History", "Release">>
    BY <1>5 DEF Plan, QueryPlan
  <2>2. Plan(o) \in Seq(Statements \union {"Acquire", "Release"}) BY <2>1
  <2>3. /\ Len(Plan(o)) = 12
        /\ Plan(o)[1] = "Acquire" /\ Plan(o)[2] = "Select"
        /\ Plan(o)[3] = "Release" /\ Plan(o)[4] = "Acquire"
        /\ Plan(o)[5] = "Begin" /\ Plan(o)[6] = "SetLocal"
        /\ Plan(o)[7] = "Operator" /\ Plan(o)[8] = "End"
        /\ Plan(o)[9] = "Release" /\ Plan(o)[10] = "Acquire"
        /\ Plan(o)[11] = "History" /\ Plan(o)[12] = "Release"
    BY <2>1
  <2>4. i \in {1, 2, 3, 4, 5, 6, 7, 8, 9, 10, 11, 12} BY <2>3
  <2>5. Plan(o)[i] \in Statements \union {"Acquire", "Release"} BY <2>3, <2>4
  <2>6. Plan(o)[i] # "Release" => i # Len(Plan(o)) BY <2>3, <2>4
  <2>7. Plan(o)[i] = "Operator" => o = "query" /\ i = 7 BY <1>5, <2>3, <2>4
  <2>8. ASSUME i # Len(Plan(o))
        PROVE  i + 1 \in 1..Len(Plan(o)) /\ Plan(o)[i + 1] \in Following(Plan(o)[i])
    <3>1. i \in {1, 2, 3, 4, 5, 6, 7, 8, 9, 10, 11} BY <2>3, <2>4, <2>8
    <3>2. i + 1 \in 1..Len(Plan(o)) BY <2>3, <3>1
    <3>3. CASE i \in {1, 2, 3, 4, 5} BY <2>3, <3>3
    <3>4. CASE i \in {6, 7, 8} BY <2>3, <3>4
    <3>5. CASE i \in {9, 10, 11} BY <2>3, <3>5
    <3> QED BY <3>1, <3>2, <3>3, <3>4, <3>5
  <2> QED BY <2>2, <2>3, <2>5, <2>6, <2>7, <2>8
<1> QED BY <1>1, <1>2, <1>3, <1>4, <1>5 DEF AllOperations

-----------------------------------------------------------------------------
(* Who holds what *)

Taken(r, c) ==
  /\ place[c] = "idle" /\ held[r] = << >>
  /\ place' = [place EXCEPT ![c] = "held"]
  /\ held' = [held EXCEPT ![r] = <<c>>]

Given(r) ==
  /\ place' = [c \in Connections |->
                 IF held[r] = <<c>> THEN "returning" ELSE place[c]]
  /\ held' = [held EXCEPT ![r] = << >>]

(* A request holds one connection or none.                                 *)
LEMMA HeldOne ==
  ASSUME Kept, NEW r \in Requests
  PROVE  /\ \/ held[r] = << >>
            \/ Running(r) /\ Step(r) # "Acquire" /\ \E c \in Connections : held[r] = <<c>>
         /\ \A c \in Connections : c \in Holding(r) <=> held[r] = <<c>>
         /\ \A c \in Connections : held[r] = <<c>> => Len(held[r]) = 1 /\ Last(r) = c
<1>1. \/ held[r] = << >>
      \/ Running(r) /\ Step(r) # "Acquire" /\ \E c \in Connections : held[r] = <<c>>
  BY DEF Kept, InPlan, Placed
<1>2. CASE held[r] = << >>
  <2>1. Holding(r) = {} BY <1>2 DEF Holding
  <2> QED BY <1>1, <1>2, <2>1
<1>3. ASSUME NEW c \in Connections, held[r] = <<c>>
      PROVE  Holding(r) = {c} /\ Len(held[r]) = 1 /\ Last(r) = c
  <2>1. DOMAIN held[r] = {1} /\ held[r][1] = c /\ Len(held[r]) = 1 BY <1>3
  <2> QED BY <2>1 DEF Holding, Last
<1> QED BY <1>1, <1>2, <1>3

(* Whoever leaves gives back what it holds.                                *)
LEMMA LeaveGives ==
  ASSUME Kept, NEW r \in Requests, NEW a, Leave(r, a)
  PROVE  Given(r) /\ answer' = [answer EXCEPT ![r] = a] /\ at' = at
<1>1. \A c \in Connections : c \in Holding(r) <=> held[r] = <<c>> BY HeldOne
<1>2. place' = [c \in Connections |->
                  IF held[r] = <<c>> THEN "returning" ELSE place[c]]
  BY <1>1 DEF Leave
<1> QED BY <1>2 DEF Leave, Given

LEMMA AcquireTakes ==
  ASSUME Kept, NEW r \in Requests, NEW c \in Connections, Acquire(r, c)
  PROVE  Taken(r, c)
<1>1. held[r] = << >> BY DEF Kept, InPlan, Placed, Acquire
<1>2. Append(held[r], c) = <<c>> BY <1>1
<1>3. held' = [held EXCEPT ![r] = <<c>>] BY <1>2 DEF Acquire
<1> QED BY <1>1, <1>3 DEF Acquire, Taken

LEMMA ReleaseGives ==
  ASSUME Kept, NEW r \in Requests, Release(r)
  PROVE  Given(r)
<1>1. CASE at[r] = Len(Plan(op[r])) BY <1>1, LeaveGives DEF Release
<1>2. CASE at[r] # Len(Plan(op[r]))
  <2>1. PICK c \in Connections : held[r] = <<c>> BY DEF Release, Kept, InPlan, Placed
  <2>2. Len(held[r]) = 1 /\ Last(r) = c BY <2>1, HeldOne
  <2>3. SubSeq(held[r], 1, Len(held[r]) - 1) = << >> BY <2>1, <2>2
  <2>4. held' = [held EXCEPT ![r] = << >>] BY <1>2, <2>3 DEF Release
  <2>5. place' = [place EXCEPT ![c] = "returning"] BY <1>2, <2>2 DEF Release
  <2>6. \A x \in Connections : held[r] = <<x>> <=> x = c BY <2>1
  <2>7. place' = [x \in Connections |->
                    IF held[r] = <<x>> THEN "returning" ELSE place[x]]
    BY <2>5, <2>6 DEF Kept, Typed
  <2> QED BY <2>4, <2>7 DEF Given
<1> QED BY <1>1, <1>2

(* What a step does with the connections.                                  *)
LEMMA StepHands ==
  ASSUME Kept, [Next]_vars
  PROVE  \/ \E r \in Requests, c \in Connections : Taken(r, c)
         \/ \E r \in Requests : Given(r)
         \/ UNCHANGED <<place, held>>
         \/ \E c \in Connections : Return(c)
<1>1. ASSUME NEW r \in Requests, Proceed(r) \/ Disturb(r) \/ Arrive(r)
      PROVE  \/ \E c \in Connections : Taken(r, c)
             \/ Given(r)
             \/ UNCHANGED <<place, held>>
  <2>1. CASE Release(r) BY <2>1, ReleaseGives
  <2>2. CASE Execute(r) BY <2>2, LeaveGives DEF Execute
  <2>3. CASE \E c \in Connections : Acquire(r, c) BY <2>3, AcquireTakes
  <2>4. CASE StatementFails(r) BY <2>4, LeaveGives DEF StatementFails
  <2>5. CASE AcquireTimesOut(r) BY <2>5, LeaveGives DEF AcquireTimesOut
  <2>6. CASE Cancel(r) BY <2>6, LeaveGives DEF Cancel
  <2>7. CASE Arrive(r) BY <2>7 DEF Arrive, Receive
  <2> QED BY <1>1, <2>1, <2>2, <2>3, <2>4, <2>5, <2>6, <2>7 DEF Proceed, Disturb
<1>2. ASSUME NEW c \in Connections, Reconnect(c)
      PROVE  UNCHANGED <<place, held>>
  BY <1>2 DEF Reconnect
<1>3. CASE Rest BY <1>3 DEF Rest, vars
<1>4. CASE UNCHANGED vars BY <1>4 DEF vars
<1> QED BY <1>1, <1>2, <1>3, <1>4 DEF Next

LEMMA StepOneHolder ==
  ASSUME Kept, [Next]_vars
  PROVE  OneHolder'
<1>1. ASSUME NEW r \in Requests, NEW c \in Connections, Taken(r, c)
      PROVE  OneHolder'
  <2>1. held'[r] = <<c>> /\ \A q \in Requests \ {r} : held'[q] = held[q]
    BY <1>1 DEF Taken, Kept, Typed
  <2>2. place'[c] = "held" /\ \A x \in Connections \ {c} : place'[x] = place[x]
    BY <1>1 DEF Taken, Kept, Typed
  <2>3. \A q \in Requests : held[q] # <<c>>
    BY <1>1 DEF Taken, Kept, OneHolder
  <2>4. \A x \in Connections : held[r] # <<x>> BY <1>1 DEF Taken
  <2>5. \A x \in Connections : <<x>> = <<c>> => x = c OBVIOUS
  <2>6. ASSUME NEW x \in Connections
        PROVE  place'[x] = "held" <=> \E q \in Requests : held'[q] = <<x>>
    <3>1. CASE x = c BY <2>1, <2>2, <3>1
    <3>2. CASE x # c
      <4>1. place'[x] = "held" <=> \E q \in Requests : held[q] = <<x>>
        BY <2>2, <3>2 DEF Kept, OneHolder
      <4>2. \A q \in Requests : held'[q] = <<x>> <=> held[q] = <<x>>
        BY <2>1, <2>4, <2>5, <3>2
      <4> QED BY <4>1, <4>2
    <3> QED BY <3>1, <3>2
  <2>7. ASSUME NEW q \in Requests, NEW y \in Requests, NEW x \in Connections,
               held'[q] = <<x>>, held'[y] = <<x>>
        PROVE  q = y
    <3>1. CASE x = c BY <2>1, <2>3, <2>7, <3>1
    <3>2. CASE x # c
      <4>1. held[q] = <<x>> /\ held[y] = <<x>> BY <2>1, <2>5, <2>7, <3>2
      <4> QED BY <4>1 DEF Kept, OneHolder
    <3> QED BY <3>1, <3>2
  <2> QED BY <2>6, <2>7 DEF OneHolder
<1>2. ASSUME NEW r \in Requests, Given(r)
      PROVE  OneHolder'
  <2>1. held'[r] = << >> /\ \A q \in Requests \ {r} : held'[q] = held[q]
    BY <1>2 DEF Given, Kept, Typed
  <2>2. \A c \in Connections : place'[c] = IF held[r] = <<c>> THEN "returning" ELSE place[c]
    BY <1>2 DEF Given
  <2>3. \A c \in Connections : held'[r] # <<c>> BY <2>1
  <2>4. ASSUME NEW x \in Connections
        PROVE  place'[x] = "held" <=> \E q \in Requests : held'[q] = <<x>>
    <3>1. place[x] = "held" <=> \E q \in Requests : held[q] = <<x>>
      BY DEF Kept, OneHolder
    <3>2. CASE held[r] = <<x>>
      <4>1. \A q \in Requests \ {r} : held[q] # <<x>>
        BY <3>2 DEF Kept, OneHolder
      <4> QED BY <2>1, <2>2, <2>3, <3>2, <4>1
    <3>3. CASE held[r] # <<x>> BY <2>1, <2>2, <2>3, <3>1, <3>3
    <3> QED BY <3>2, <3>3
  <2>5. ASSUME NEW q \in Requests, NEW y \in Requests, NEW x \in Connections,
               held'[q] = <<x>>, held'[y] = <<x>>
        PROVE  q = y
    <3>1. held[q] = <<x>> /\ held[y] = <<x>> BY <2>1, <2>3, <2>5
    <3> QED BY <3>1 DEF Kept, OneHolder
  <2> QED BY <2>4, <2>5 DEF OneHolder
<1>3. CASE UNCHANGED <<place, held>> BY <1>3 DEF Kept, OneHolder
<1>4. ASSUME NEW c \in Connections, Return(c)
      PROVE  OneHolder'
  <2>1. held' = held /\ place[c] = "returning" /\ place'[c] = "idle"
    BY <1>4 DEF Return, Kept, Typed
  <2>2. \A x \in Connections \ {c} : place'[x] = place[x]
    BY <1>4 DEF Return, Kept, Typed
  <2> QED BY <2>1, <2>2 DEF Kept, OneHolder
<1> QED BY <1>1, <1>2, <1>3, <1>4, StepHands

-----------------------------------------------------------------------------
(* Types *)

LEMMA AfterTyped ==
  ASSUME NEW s \in Session, NEW r, NEW stmt
  PROVE  After(r, stmt, s) \in Session /\ RolledBack(s) \in Session
<1>1. Begin(s) \in Session BY DEF Begin, Session
<1>2. SetLocal(s) \in Session BY DEF SetLocal, Session, Paths
<1>3. Committed(s) \in Session BY DEF Committed, Session
<1>4. RolledBack(s) \in Session BY DEF RolledBack, Session
<1>5. Operator(sql[r], s) \in Session
  <2>1. Set(s, "operator") \in Session BY DEF Set, Session, Paths
  <2> QED BY <1>3, <2>1 DEF Operator
<1> QED BY <1>1, <1>2, <1>3, <1>4, <1>5 DEF After

LEMMA HandsTyped ==
  ASSUME Kept, [Next]_vars
  PROVE  /\ place' \in [Connections -> {"idle", "held", "returning"}]
         /\ held' \in [Requests -> Seq(Connections)]
<1>1. /\ place \in [Connections -> {"idle", "held", "returning"}]
      /\ held \in [Requests -> Seq(Connections)]
  BY DEF Kept, Typed
<1>2. << >> \in Seq(Connections) /\ \A c \in Connections : <<c>> \in Seq(Connections)
  OBVIOUS
<1>3. ASSUME NEW r \in Requests, NEW c \in Connections, Taken(r, c)
      PROVE  /\ place' \in [Connections -> {"idle", "held", "returning"}]
             /\ held' \in [Requests -> Seq(Connections)]
  BY <1>1, <1>2, <1>3 DEF Taken
<1>4. ASSUME NEW r \in Requests, Given(r)
      PROVE  /\ place' \in [Connections -> {"idle", "held", "returning"}]
             /\ held' \in [Requests -> Seq(Connections)]
  <2>1. place' \in [Connections -> {"idle", "held", "returning"}]
    BY <1>1, <1>4 DEF Given
  <2>2. held' \in [Requests -> Seq(Connections)] BY <1>1, <1>2, <1>4 DEF Given
  <2> QED BY <2>1, <2>2
<1>5. ASSUME NEW c \in Connections, Return(c)
      PROVE  /\ place' \in [Connections -> {"idle", "held", "returning"}]
             /\ held' \in [Requests -> Seq(Connections)]
  BY <1>1, <1>5 DEF Return
<1> QED BY <1>1, <1>3, <1>4, <1>5, StepHands

LEMMA StepTyped ==
  ASSUME Kept, [Next]_vars
  PROVE  Typed'
<1> DEFINE Others ==
       /\ session \in [Connections -> Session]
       /\ op \in [Requests -> Operations \union {"none"}]
       /\ sql \in [Requests -> OperatorSql \union {"plain"}]
       /\ at \in [Requests -> Nat]
       /\ result \in [Requests -> {"none", "ok", "failed"}]
       /\ answer \in [Requests -> {"none", "ok", "error", "gone"}]
       /\ astray \subseteq Requests
<1>1. Others BY DEF Kept, Typed
<1>2. ASSUME NEW r \in Requests, Arrive(r) PROVE Others'
  BY <1>1, <1>2 DEF Arrive, Receive
<1>3. ASSUME NEW r \in Requests, NEW a \in {"ok", "error", "gone"}, Leave(r, a)
      PROVE  /\ at' \in [Requests -> Nat]
             /\ answer' \in [Requests -> {"none", "ok", "error", "gone"}]
  BY <1>1, <1>3 DEF Leave
<1>4. ASSUME NEW r \in Requests, Advance(r) PROVE at' \in [Requests -> Nat]
  BY <1>1, <1>4 DEF Advance
<1>5. \A r \in Requests : Outcome(r) \in {"ok", "error", "gone"} BY DEF Outcome
<1>6. ASSUME NEW r \in Requests, Proceed(r) PROVE Others'
  <2>1. CASE Release(r) BY <1>1, <1>3, <1>4, <1>5, <2>1 DEF Release
  <2>2. ASSUME NEW c \in Connections, Acquire(r, c) PROVE Others'
    BY <1>1, <1>4, <2>2 DEF Acquire
  <2>3. CASE Execute(r)
    <3> DEFINE c == Last(r)
    <3>1. Running(r) /\ Step(r) # "Acquire"
      BY <2>3 DEF Execute, Statements
    <3>2. c \in Connections BY <3>1, HeldOne DEF Kept, InPlan, Placed
    <3>3. After(r, Step(r), session[c]) \in Session BY <1>1, <3>2, AfterTyped
    <3> HIDE DEF c
    <3>4. session' = [session EXCEPT ![c] = After(r, Step(r), session[c])]
      BY <2>3 DEF Execute, c
    <3>5. session' \in [Connections -> Session] BY <1>1, <3>2, <3>3, <3>4
    <3>6. astray' \subseteq Requests BY <1>1, <2>3 DEF Execute
    <3>7. result' \in [Requests -> {"none", "ok", "failed"}]
      BY <1>1, <2>3 DEF Execute
    <3>8. UNCHANGED <<op, sql>> BY <2>3 DEF Execute
    <3>9. at' \in [Requests -> Nat] /\ answer' \in [Requests -> {"none", "ok", "error", "gone"}]
      BY <1>1, <1>3, <1>4, <2>3 DEF Execute
    <3> QED BY <1>1, <3>5, <3>6, <3>7, <3>8, <3>9
  <2> QED BY <1>6, <2>1, <2>2, <2>3 DEF Proceed
<1>7. ASSUME NEW r \in Requests, Disturb(r) PROVE Others'
  <2>1. CASE StatementFails(r)
    <3>1. at' \in [Requests -> Nat] /\ answer' \in [Requests -> {"none", "ok", "error", "gone"}]
      BY <1>1, <1>3, <1>4, <2>1 DEF StatementFails
    <3>2. result' \in [Requests -> {"none", "ok", "failed"}]
      BY <1>1, <2>1 DEF StatementFails
    <3> QED BY <1>1, <2>1, <3>1, <3>2 DEF StatementFails
  <2>2. CASE AcquireTimesOut(r)
    <3>1. (IF InHistory(r) THEN Outcome(r) ELSE "error") \in {"ok", "error", "gone"}
      BY <1>5
    <3> QED BY <1>1, <1>3, <2>2, <3>1 DEF AcquireTimesOut
  <2>3. CASE Cancel(r) BY <1>1, <1>3, <2>3 DEF Cancel
  <2> QED BY <1>7, <2>1, <2>2, <2>3 DEF Disturb
<1>8. ASSUME NEW c \in Connections, Return(c) PROVE Others'
  <2>1. RolledBack(session[c]) \in Session BY <1>1, AfterTyped
  <2> QED BY <1>1, <1>8, <2>1 DEF Return
<1>9. ASSUME NEW c \in Connections, Reconnect(c) PROVE Others'
  <2>1. Fresh \in Session BY DEF Fresh, Session, Paths
  <2> QED BY <1>1, <1>9, <2>1 DEF Reconnect
<1>10. ASSUME Rest \/ UNCHANGED vars PROVE Others'
  BY <1>1, <1>10 DEF Rest, vars
<1>11. Others' BY <1>2, <1>6, <1>7, <1>8, <1>9, <1>10 DEF Next
<1> QED BY <1>11, HandsTyped DEF Typed

-----------------------------------------------------------------------------
(* Where every request is in its plan *)

(* What another request does not see of the steps of r.                    *)
Elsewhere(r) ==
  \A q \in Requests \ {r} :
    /\ op'[q] = op[q] /\ sql'[q] = sql[q] /\ at'[q] = at[q]
    /\ held'[q] = held[q] /\ result'[q] = result[q] /\ answer'[q] = answer[q]

LEMMA StepElsewhere ==
  ASSUME Kept, NEW r \in Requests, Arrive(r) \/ Proceed(r) \/ Disturb(r)
  PROVE  Elsewhere(r)
<1>1. ASSUME NEW a, Leave(r, a)
      PROVE  \A q \in Requests \ {r} :
               at'[q] = at[q] /\ held'[q] = held[q] /\ answer'[q] = answer[q]
  BY <1>1 DEF Leave, Kept, Typed
<1>2. ASSUME Advance(r) PROVE \A q \in Requests \ {r} : at'[q] = at[q]
  BY <1>2 DEF Advance, Kept, Typed
<1>3. CASE Arrive(r) BY <1>3 DEF Arrive, Receive, Elsewhere, Kept, Typed
<1>4. CASE Release(r)
  BY <1>1, <1>2, <1>4 DEF Release, Elsewhere, Kept, Typed
<1>5. ASSUME NEW c \in Connections, Acquire(r, c) PROVE Elsewhere(r)
  BY <1>2, <1>5 DEF Acquire, Elsewhere, Kept, Typed
<1>6. CASE Execute(r)
  BY <1>1, <1>2, <1>6 DEF Execute, Elsewhere, Kept, Typed
<1>7. CASE StatementFails(r)
  BY <1>1, <1>2, <1>7 DEF StatementFails, Elsewhere, Kept, Typed
<1>8. CASE AcquireTimesOut(r)
  BY <1>1, <1>8 DEF AcquireTimesOut, Elsewhere, Kept, Typed
<1>9. CASE Cancel(r) BY <1>1, <1>9 DEF Cancel, Elsewhere, Kept, Typed
<1> QED BY <1>3, <1>4, <1>5, <1>6, <1>7, <1>8, <1>9 DEF Proceed, Disturb

(* One step further in the plan.                                           *)
LEMMA Advanced ==
  ASSUME Kept, NEW r \in Requests, Running(r), Step(r) # "Release" \/ at[r] # Len(Plan(op[r])),
         Advance(r), UNCHANGED <<answer, op>>
  PROVE  /\ Running(r)' /\ op'[r] = op[r] /\ at'[r] = at[r] + 1
         /\ op[r] \in AllOperations /\ at'[r] \in 1..Len(Plan(op[r]))
         /\ Step(r)' = Plan(op[r])[at[r] + 1]
         /\ Step(r)' \in Following(Step(r))
         /\ Step(r) = "Operator" => op[r] = "query" /\ at[r] = 7
<1>1. op[r] \in AllOperations /\ at[r] \in 1..Len(Plan(op[r]))
  BY DEF Kept, InPlan, Placed
<1>2. at'[r] = at[r] + 1 /\ op'[r] = op[r] /\ answer'[r] = answer[r]
  BY DEF Advance, Kept, Typed
<1>3. at[r] # Len(Plan(op[r])) BY <1>1, PlanShape DEF Step
<1>4. /\ at[r] + 1 \in 1..Len(Plan(op[r]))
      /\ Plan(op[r])[at[r] + 1] \in Following(Step(r))
      /\ Step(r) = "Operator" => op[r] = "query" /\ at[r] = 7
  BY <1>1, <1>3, PlanShape DEF Step
<1>5. Step(r)' = Plan(op[r])[at[r] + 1] BY <1>2 DEF Step
<1>6. Running(r)' BY <1>1, <1>2 DEF Running, Kept, Typed
<1> QED BY <1>1, <1>2, <1>4, <1>5, <1>6

LEMMA GivenPlaced ==
  ASSUME Kept, NEW r \in Requests, NEW a, a # "none", Leave(r, a),
         UNCHANGED op, result'[r] = result[r]
  PROVE  Placed(r)'
<1>1. held'[r] = << >> /\ at'[r] = at[r] /\ answer'[r] = a /\ op'[r] = op[r]
  BY DEF Leave, Kept, Typed
<1>2. ~Running(r)' BY <1>1 DEF Running
<1>3. result[r] # "none" => op[r] = "query" /\ at[r] > 7
  BY DEF Kept, InPlan, Placed
<1> QED BY <1>1, <1>2, <1>3 DEF Placed

LEMMA OwnPlaced ==
  ASSUME Kept, NEW r \in Requests, Arrive(r) \/ Proceed(r) \/ Disturb(r)
  PROVE  Placed(r)'
<1>1. /\ Running(r) /\ Step(r) # "Acquire" => \E c \in Connections : held[r] = <<c>>
      /\ ~Running(r) \/ Step(r) = "Acquire" => held[r] = << >>
      /\ result[r] # "none" => op[r] = "query" /\ at[r] > 7
      /\ at[r] \in Nat
  BY DEF Kept, InPlan, Placed, Typed
<1>2. ASSUME Running(r), Advance(r), UNCHANGED <<answer, op, held>>,
             Step(r) \in Statements,
             Step(r) # "Operator" => result'[r] = result[r]
      PROVE  Placed(r)'
  <2>1. Step(r) # "Acquire" /\ Step(r) # "Release" BY <1>2 DEF Statements
  <2>2. /\ Running(r)' /\ op'[r] = op[r] /\ at'[r] = at[r] + 1
        /\ op[r] \in AllOperations /\ at'[r] \in 1..Len(Plan(op[r]))
        /\ Step(r)' \in Following(Step(r))
        /\ Step(r) = "Operator" => op[r] = "query" /\ at[r] = 7
    BY <1>2, <2>1, Advanced
  <2>3. Step(r)' # "Acquire"
    BY <1>2, <2>2 DEF Following, Statements, OnPanelTables
  <2>4. \E c \in Connections : held'[r] = <<c>> BY <1>1, <1>2, <2>1
  <2>5. result'[r] # "none" => op'[r] = "query" /\ at'[r] > 7
    BY <1>1, <1>2, <2>2
  <2> QED BY <2>2, <2>3, <2>4, <2>5 DEF Placed
<1>3. CASE Arrive(r)
  <2>1. PICK o \in Operations, q \in OperatorSql : Receive(r, o, q)
    BY <1>3 DEF Arrive
  <2>2. at[r] = 0 /\ at'[r] = 1 /\ op'[r] = o /\ held'[r] = held[r] /\ result'[r] = result[r]
    BY <2>1 DEF Receive, Kept, Typed
  <2>3. result'[r] = "none" BY <1>1, <2>2
  <2>4. held'[r] = << >> BY <1>1, <2>2 DEF Running
  <2>5. o \in AllOperations BY SessionsAssumption DEF AllOperations
  <2>6. 1 \in 1..Len(Plan(o)) /\ Plan(o)[1] = "Acquire"
    <3>1. Plan(o) \in {ListPlan, InfoPlan, DeletePlan, ResetPlan, QueryPlan}
      BY <2>5 DEF Plan, AllOperations
    <3> QED BY <3>1 DEF ListPlan, InfoPlan, DeletePlan, ResetPlan, QueryPlan
  <2>7. Step(r)' = "Acquire" BY <2>2, <2>6 DEF Step
  <2> QED BY <2>2, <2>3, <2>4, <2>5, <2>6, <2>7 DEF Placed
<1>4. CASE Release(r)
  <2>1. CASE at[r] = Len(Plan(op[r]))
    <3>1. Outcome(r) # "none" BY DEF Outcome
    <3> QED BY <1>4, <2>1, <3>1, GivenPlaced DEF Release
  <2>2. CASE at[r] # Len(Plan(op[r]))
    <3>1. Running(r) /\ Step(r) = "Release" /\ Advance(r) /\ UNCHANGED <<answer, op, result>>
      BY <1>4, <2>2 DEF Release
    <3>2. /\ op'[r] = op[r] /\ at'[r] = at[r] + 1
          /\ op[r] \in AllOperations /\ at'[r] \in 1..Len(Plan(op[r]))
          /\ Step(r)' \in Following(Step(r))
      BY <2>2, <3>1, Advanced
    <3>3. Step(r)' = "Acquire" BY <3>1, <3>2 DEF Following, OnPanelTables
    <3>4. held'[r] = << >> BY <1>4, ReleaseGives DEF Given, Kept, Typed
    <3> QED BY <1>1, <3>1, <3>2, <3>3, <3>4 DEF Placed
  <2> QED BY <2>1, <2>2
<1>5. ASSUME NEW c \in Connections, Acquire(r, c) PROVE Placed(r)'
  <2>1. Running(r) /\ Step(r) = "Acquire" /\ Advance(r) /\ UNCHANGED <<answer, op, result>>
    BY <1>5 DEF Acquire
  <2>2. /\ op'[r] = op[r] /\ at'[r] = at[r] + 1 /\ Running(r)'
        /\ op[r] \in AllOperations /\ at'[r] \in 1..Len(Plan(op[r]))
        /\ Step(r)' \in Following(Step(r))
    BY <2>1, Advanced
  <2>3. Step(r)' # "Acquire" BY <2>1, <2>2 DEF Following, OnPanelTables
  <2>4. held'[r] = <<c>> BY <1>5, AcquireTakes DEF Taken, Kept, Typed
  <2> QED BY <1>1, <2>1, <2>2, <2>3, <2>4 DEF Placed
<1>6. CASE Execute(r)
  <2>1. Running(r) /\ Step(r) \in Statements /\ UNCHANGED op BY <1>6 DEF Execute
  <2>2. Step(r) # "Operator" => result'[r] = result[r]
    BY <1>6 DEF Execute, Kept, Typed
  <2>3. CASE Advance(r) /\ UNCHANGED <<place, held, answer>>
    BY <1>2, <2>1, <2>2, <2>3
  <2>4. CASE Leave(r, "error") /\ Step(r) \in OnPanelTables
    BY <2>1, <2>2, <2>4, GivenPlaced DEF OnPanelTables
  <2> QED BY <1>6, <2>3, <2>4 DEF Execute
<1>7. CASE StatementFails(r)
  <2>1. Running(r) /\ Step(r) \in Statements /\ UNCHANGED op BY <1>7 DEF StatementFails
  <2>2. Step(r) # "Operator" => result'[r] = result[r]
    BY <1>7 DEF StatementFails, Kept, Typed
  <2>3. CASE Advance(r) /\ UNCHANGED <<place, held, answer>>
    BY <1>2, <2>1, <2>2, <2>3
  <2>4. CASE Leave(r, "error") /\ Step(r) # "Operator"
    BY <2>1, <2>2, <2>4, GivenPlaced
  <2> QED BY <1>7, <2>3, <2>4 DEF StatementFails
<1>8. CASE AcquireTimesOut(r)
  <2>1. (IF InHistory(r) THEN Outcome(r) ELSE "error") # "none" BY DEF Outcome
  <2> QED BY <1>8, <2>1, GivenPlaced DEF AcquireTimesOut
<1>9. CASE Cancel(r) BY <1>9, GivenPlaced DEF Cancel
<1> QED BY <1>3, <1>4, <1>5, <1>6, <1>7, <1>8, <1>9 DEF Proceed, Disturb

LEMMA StepInPlan ==
  ASSUME Kept, [Next]_vars
  PROVE  InPlan'
<1>1. ASSUME NEW r \in Requests, Arrive(r) \/ Proceed(r) \/ Disturb(r)
      PROVE  InPlan'
  <2>1. ASSUME NEW q \in Requests, q # r PROVE Placed(q)'
    <3>1. Placed(q) BY DEF Kept, InPlan
    <3>2. /\ op'[q] = op[q] /\ at'[q] = at[q] /\ held'[q] = held[q]
          /\ result'[q] = result[q] /\ answer'[q] = answer[q]
      BY <1>1, <2>1, StepElsewhere DEF Elsewhere
    <3> QED BY <3>1, <3>2 DEF Placed, Running, Step
  <2> QED BY <1>1, <2>1, OwnPlaced DEF InPlan
<1>2. ASSUME UNCHANGED <<op, at, held, result, answer>>
      PROVE  InPlan'
  <2>1. ASSUME NEW q \in Requests PROVE Placed(q)'
    <3>1. Placed(q) BY DEF Kept, InPlan
    <3> QED BY <1>2, <3>1 DEF Placed, Running, Step
  <2> QED BY <2>1 DEF InPlan
<1> QED BY <1>1, <1>2 DEF Next, Return, Reconnect, Rest, vars

-----------------------------------------------------------------------------
(* What the sessions have in force *)

(* The end of a transaction leaves neither it nor the project's path.      *)
LEMMA Ended ==
  ASSUME NEW s \in Session, Local(s)
  PROVE  /\ ~RolledBack(s).open /\ ~Committed(s).open
         /\ Local(RolledBack(s)) /\ Local(Committed(s))
         /\ Panels(s) => Panels(RolledBack(s)) /\ Panels(Committed(s))
BY DEF RolledBack, Committed, Local, Panels, Session

(* Every statement of a plan keeps to its transaction.                     *)
LEMMA AfterClean ==
  ASSUME NEW s \in Session, NEW r, NEW stmt, Local(s),
         stmt = "Begin" => ~s.open, stmt = "SetLocal" => s.open
  PROVE  /\ Local(After(r, stmt, s))
         /\ stmt = "Begin" => After(r, stmt, s).open
         /\ Panels(s) => \/ Panels(After(r, stmt, s))
                         \/ stmt = "Operator" /\ sql[r] = "SET"
         /\ stmt = "Begin" => After(r, stmt, s).path = s.path
         /\ stmt \in OnPanelTables \union {"Commit"} =>
              After(r, stmt, s).path = s.path \/ stmt = "Commit"
         /\ stmt \in OnPanelTables => After(r, stmt, s) = s
<1>1. CASE stmt = "Begin"
  <2>1. After(r, stmt, s) = Begin(s) BY <1>1 DEF After
  <2>2. /\ Begin(s).open /\ Begin(s).path = s.path
        /\ Begin(s).kept = s.path /\ Begin(s).before = s.path
    BY DEF Begin, Session
  <2>3. Local(Begin(s)) BY <1>1, <2>2 DEF Local
  <2>4. Panels(s) => Panels(Begin(s)) BY <1>1, <2>2 DEF Panels
  <2> QED BY <1>1, <2>1, <2>2, <2>3, <2>4 DEF OnPanelTables
<1>2. CASE stmt = "SetLocal"
  <2>1. After(r, stmt, s) = SetLocal(s) BY <1>2 DEF After
  <2>2. /\ SetLocal(s).open /\ SetLocal(s).path = "project"
        /\ SetLocal(s).kept = s.kept /\ SetLocal(s).before = s.before
    BY <1>2 DEF SetLocal, Session
  <2>3. Local(SetLocal(s)) BY <1>2, <2>2 DEF Local
  <2>4. Panels(s) => Panels(SetLocal(s)) BY <1>2, <2>2 DEF Panels
  <2> QED BY <1>2, <2>1, <2>3, <2>4 DEF OnPanelTables
<1>3. CASE stmt = "Operator"
  <2>1. After(r, stmt, s) = Operator(sql[r], s) BY <1>3 DEF After
  <2>2. CASE sql[r] = "SET"
    <3>1. Local(Set(s, "operator")) BY DEF Set, Local, Session
    <3> QED BY <1>3, <2>1, <2>2, <3>1 DEF Operator, OnPanelTables
  <2>3. CASE sql[r] # "SET"
    <3>1. Operator(sql[r], s) \in {Committed(s), s} BY <2>3 DEF Operator
    <3> QED BY <1>3, <2>1, <3>1, Ended DEF OnPanelTables
  <2> QED BY <2>2, <2>3
<1>4. CASE stmt \in {"Commit", "End"}
  <2>1. After(r, stmt, s) \in {Committed(s), RolledBack(s)} BY <1>4 DEF After
  <2> QED BY <1>4, <2>1, Ended DEF OnPanelTables
<1>5. CASE stmt \notin {"Begin", "SetLocal", "Operator", "Commit", "End"}
  <2>1. After(r, stmt, s) = s BY <1>5 DEF After
  <2> QED BY <1>5, <2>1
<1> QED BY <1>1, <1>2, <1>3, <1>4, <1>5

(* A statement runs on the one connection of its request, which is out.    *)
LEMMA ExecuteOn ==
  ASSUME Kept, NEW r \in Requests, Running(r), Step(r) \in Statements
  PROVE  \E c \in Connections :
           held[r] = <<c>> /\ Last(r) = c /\ place[c] = "held"
<1>1. Step(r) # "Acquire" BY DEF Statements
<1>2. PICK c \in Connections : held[r] = <<c>>
  BY <1>1 DEF Kept, InPlan, Placed
<1>3. Last(r) = c BY <1>2, HeldOne
<1> QED BY <1>2, <1>3 DEF Kept, OneHolder

(* What a step does with the sessions.                                     *)
LEMMA StepSessions ==
  ASSUME Kept, [Next]_vars
  PROVE  \/ session' = session /\ astray' = astray
         \/ \E r \in Requests : Execute(r)
         \/ \E c \in Connections : (Return(c) \/ Reconnect(c)) /\ astray' = astray
BY DEF Next, Arrive, Receive, Proceed, Disturb, Release, Acquire, StatementFails,
       AcquireTimesOut, Cancel, Return, Reconnect, Rest, vars

LEMMA StepConnections ==
  ASSUME Kept, [Next]_vars
  PROVE  \A c \in Connections : /\ Local(session'[c])
                                /\ place'[c] = "idle" => ~session'[c].open
<1>1. \A c \in Connections : /\ Local(session[c]) /\ session[c] \in Session
                             /\ place[c] = "idle" => ~session[c].open
  BY DEF Kept, SessionsClean, Typed
<1>2. ASSUME NEW c \in Connections, place'[c] = "idle"
      PROVE  place[c] = "idle" \/ Return(c)
  <2>1. ASSUME NEW r \in Requests, NEW x \in Connections, Taken(r, x)
        PROVE  place[c] = "idle"
    BY <1>2, <2>1 DEF Taken, Kept, Typed
  <2>2. ASSUME NEW r \in Requests, Given(r) PROVE place[c] = "idle"
    BY <1>2, <2>2 DEF Given
  <2>3. ASSUME NEW x \in Connections, Return(x) PROVE x = c \/ place[c] = "idle"
    BY <1>2, <2>3 DEF Return, Kept, Typed
  <2> QED BY <1>2, <2>1, <2>2, <2>3, StepHands
<1>3. ASSUME NEW c \in Connections, Return(c)
      PROVE  \A x \in Connections : /\ Local(session'[x])
                                    /\ place'[x] = "idle" => ~session'[x].open
  <2>1. /\ session'[c] = RolledBack(session[c])
        /\ \A x \in Connections \ {c} : session'[x] = session[x] /\ place'[x] = place[x]
    BY <1>3 DEF Return, Kept, Typed
  <2>2. Local(session'[c]) /\ ~session'[c].open BY <1>1, <2>1, Ended
  <2> QED BY <1>1, <2>1, <2>2
<1>4. ASSUME NEW c \in Connections, Reconnect(c)
      PROVE  \A x \in Connections : /\ Local(session'[x])
                                    /\ place'[x] = "idle" => ~session'[x].open
  <2>1. /\ session'[c] = Fresh /\ place' = place
        /\ \A x \in Connections \ {c} : session'[x] = session[x]
    BY <1>4 DEF Reconnect, Kept, Typed
  <2>2. Local(session'[c]) /\ ~session'[c].open BY <2>1 DEF Fresh, Local
  <2> QED BY <1>1, <2>1, <2>2
<1>5. ASSUME NEW r \in Requests, Execute(r)
      PROVE  \A x \in Connections : /\ Local(session'[x])
                                    /\ place'[x] = "idle" => ~session'[x].open
  <2>1. PICK c \in Connections : held[r] = <<c>> /\ Last(r) = c /\ place[c] = "held"
    BY <1>5, ExecuteOn DEF Execute
  <2>2. /\ session'[c] = After(r, Step(r), session[c])
        /\ \A x \in Connections \ {c} : session'[x] = session[x]
    BY <1>5, <2>1 DEF Execute, Kept, Typed
  <2>3. /\ Step(r) = "Begin" => ~session[c].open
        /\ Step(r) = "SetLocal" => session[c].open
    BY <1>5, <2>1 DEF Execute, Kept, SessionsClean
  <2>4. Local(session'[c]) BY <1>1, <2>2, <2>3, AfterClean
  <2>5. ASSUME NEW x \in Connections, place'[x] = "idle" PROVE x # c /\ place[x] = "idle"
    <3>1. CASE place' = place BY <2>1, <2>5, <3>1
    <3>2. CASE Leave(r, "error")
      <4>1. Given(r) BY <3>2, LeaveGives
      <4> QED BY <2>1, <2>5, <4>1 DEF Given
    <3> QED BY <1>5, <3>1, <3>2 DEF Execute
  <2> QED BY <1>1, <2>2, <2>4, <2>5
<1>6. CASE session' = session /\ astray' = astray
  BY <1>1, <1>2, <1>3, <1>6
<1> QED BY <1>3, <1>4, <1>5, <1>6, StepSessions

(* What a request will run next, on the connection it then holds.          *)
Begins(r, c) == Running(r) /\ held[r] = <<c>> /\ Step(r) = "Begin"
Sets(r, c) == Running(r) /\ held[r] = <<c>> /\ Step(r) = "SetLocal"
NeedsPanel(r, c) ==
  Running(r) /\ held[r] = <<c>> /\ Step(r) \in OnPanelTables \union {"Begin"}

(* It begins, or needs the panel's path, on a connection just taken or one *)
(* whose last statement has left the path alone; SET LOCAL follows BEGIN.  *)
LEMMA OwnNext ==
  ASSUME Kept, NEW r \in Requests, Arrive(r) \/ Proceed(r) \/ Disturb(r),
         NEW c \in Connections
  PROVE  /\ Begins(r, c)' => place[c] = "idle" /\ session' = session
         /\ Sets(r, c)' => session'[c].open
         /\ NeedsPanel(r, c)' =>
              \/ place[c] = "idle" /\ session' = session
              \/ NeedsPanel(r, c) /\ session'[c].path = session[c].path
<1> DEFINE Goal ==
       /\ Begins(r, c)' => place[c] = "idle" /\ session' = session
       /\ Sets(r, c)' => session'[c].open
       /\ NeedsPanel(r, c)' =>
            \/ place[c] = "idle" /\ session' = session
            \/ NeedsPanel(r, c) /\ session'[c].path = session[c].path
<1>1. ASSUME held'[r] = << >> PROVE Goal
  <2>1. held'[r] # <<c>> BY <1>1
  <2> QED BY <2>1 DEF Begins, Sets, NeedsPanel
<1>2. ASSUME NEW a, Leave(r, a) PROVE Goal
  <2>1. held'[r] = << >> BY <1>2 DEF Leave, Kept, Typed
  <2> QED BY <1>1, <2>1
<1>3. CASE Arrive(r)
  <2>1. held'[r] = held[r] /\ at[r] = 0
    BY <1>3 DEF Arrive, Receive, Kept, Typed
  <2>2. held[r] = << >>
    BY <2>1 DEF Running, Kept, InPlan, Placed
  <2> QED BY <1>1, <2>1, <2>2
<1>4. CASE Release(r)
  <2>1. held'[r] = << >> BY <1>4, ReleaseGives DEF Given, Kept, Typed
  <2> QED BY <1>1, <2>1
<1>5. ASSUME NEW x \in Connections, Acquire(r, x) PROVE Goal
  <2>1. /\ Running(r) /\ Step(r) = "Acquire" /\ Advance(r)
        /\ UNCHANGED <<answer, op, session>> /\ place[x] = "idle"
    BY <1>5 DEF Acquire
  <2>2. Step(r)' \in Following(Step(r)) BY <2>1, Advanced
  <2>3. Step(r)' # "SetLocal" BY <2>1, <2>2 DEF Following, OnPanelTables
  <2>4. held'[r] = <<x>> BY <1>5, AcquireTakes DEF Taken, Kept, Typed
  <2>5. held'[r] = <<c>> => c = x BY <2>4
  <2> QED BY <2>1, <2>3, <2>5 DEF Begins, Sets, NeedsPanel
<1>6. ASSUME Running(r), Step(r) \in Statements, Advance(r),
             UNCHANGED <<answer, op, held>>, NEW d \in Connections, held[r] = <<d>>,
             Step(r) = "Begin" => session'[d].open,
             Step(r) \in OnPanelTables \union {"Begin"} =>
               session'[d].path = session[d].path
      PROVE  Goal
  <2>1. Step(r) # "Acquire" /\ Step(r) # "Release" BY <1>6 DEF Statements
  <2>2. Step(r)' \in Following(Step(r)) BY <1>6, <2>1, Advanced
  <2>3. Step(r)' # "Begin"
    BY <2>1, <2>2 DEF Following, OnPanelTables
  <2>4. Step(r)' = "SetLocal" => Step(r) = "Begin"
    BY <2>1, <2>2 DEF Following, OnPanelTables
  <2>5. Step(r)' \in OnPanelTables => Step(r) \in OnPanelTables \union {"Begin"}
    BY <2>1, <2>2 DEF Following, OnPanelTables
  <2>6. held'[r] = <<c>> => c = d BY <1>6
  <2> QED BY <1>6, <2>3, <2>4, <2>5, <2>6 DEF Begins, Sets, NeedsPanel
<1>7. CASE Execute(r)
  <2>1. Running(r) /\ Step(r) \in Statements /\ UNCHANGED op BY <1>7 DEF Execute
  <2>2. PICK d \in Connections : held[r] = <<d>> /\ Last(r) = d /\ place[d] = "held"
    BY <2>1, ExecuteOn
  <2>3. session'[d] = After(r, Step(r), session[d])
    BY <1>7, <2>2 DEF Execute, Kept, Typed
  <2>4. /\ Local(session[d]) /\ session[d] \in Session
        /\ Step(r) = "Begin" => ~session[d].open
        /\ Step(r) = "SetLocal" => session[d].open
    BY <2>1, <2>2 DEF Kept, SessionsClean, Typed
  <2>5. /\ Step(r) = "Begin" => session'[d].open /\ session'[d].path = session[d].path
        /\ Step(r) \in OnPanelTables => session'[d] = session[d]
    BY <2>3, <2>4, AfterClean
  <2>6. CASE Advance(r) /\ UNCHANGED <<place, held, answer>>
    BY <1>6, <2>1, <2>2, <2>5, <2>6
  <2> QED BY <1>2, <1>7, <2>6 DEF Execute
<1>8. CASE StatementFails(r)
  <2>1. Running(r) /\ Step(r) \in Statements /\ UNCHANGED <<op, session>>
    BY <1>8 DEF StatementFails
  <2>2. PICK d \in Connections : held[r] = <<d>> BY <2>1, ExecuteOn
  <2>3. CASE Advance(r) /\ Step(r) # "Begin" /\ UNCHANGED <<place, held, answer>>
    BY <1>6, <2>1, <2>2, <2>3
  <2> QED BY <1>2, <1>8, <2>3 DEF StatementFails
<1>9. CASE AcquireTimesOut(r) BY <1>2, <1>9 DEF AcquireTimesOut
<1>10. CASE Cancel(r) BY <1>2, <1>10 DEF Cancel
<1> QED BY <1>3, <1>4, <1>5, <1>7, <1>8, <1>9, <1>10 DEF Proceed, Disturb

(* To the others nothing changes, their connections' sessions included.    *)
LEMMA OthersNext ==
  ASSUME Kept, [Next]_vars, NEW r \in Requests, ~(Arrive(r) \/ Proceed(r) \/ Disturb(r)),
         NEW c \in Connections
  PROVE  /\ Begins(r, c)' <=> Begins(r, c)
         /\ Sets(r, c)' <=> Sets(r, c)
         /\ NeedsPanel(r, c)' <=> NeedsPanel(r, c)
         /\ held[r] = <<c>> => session'[c] = session[c]
<1>1. ASSUME NEW q \in Requests, Arrive(q) \/ Proceed(q) \/ Disturb(q)
      PROVE  /\ op'[r] = op[r] /\ at'[r] = at[r] /\ held'[r] = held[r]
             /\ answer'[r] = answer[r]
             /\ held[r] = <<c>> => session'[c] = session[c]
  <2>1. /\ op'[r] = op[r] /\ at'[r] = at[r] /\ held'[r] = held[r]
        /\ answer'[r] = answer[r]
    BY <1>1, StepElsewhere DEF Elsewhere
  <2>2. ASSUME Execute(q), held[r] = <<c>> PROVE session'[c] = session[c]
    <3>1. PICK d \in Connections : held[q] = <<d>> /\ Last(q) = d
      BY <2>2, ExecuteOn DEF Execute
    <3>2. d # c BY <1>1, <2>2, <3>1 DEF Kept, OneHolder
    <3> QED BY <2>2, <3>1, <3>2 DEF Execute, Kept, Typed
  <2>3. ASSUME ~Execute(q) PROVE session' = session
    BY <1>1, <2>3
       DEF Arrive, Receive, Proceed, Disturb, Release, Acquire, StatementFails,
           AcquireTimesOut, Cancel
  <2> QED BY <2>1, <2>2, <2>3
<1>2. ASSUME NEW x \in Connections, Return(x) \/ Reconnect(x)
      PROVE  /\ op'[r] = op[r] /\ at'[r] = at[r] /\ held'[r] = held[r]
             /\ answer'[r] = answer[r]
             /\ held[r] = <<c>> => session'[c] = session[c]
  <2>1. place[x] # "held" /\ \A y \in Connections \ {x} : session'[y] = session[y]
    BY <1>2 DEF Return, Reconnect, Kept, Typed
  <2>2. held[r] = <<c>> => c # x BY <2>1 DEF Kept, OneHolder
  <2> QED BY <1>2, <2>1, <2>2 DEF Return, Reconnect
<1>3. /\ op'[r] = op[r] /\ at'[r] = at[r] /\ held'[r] = held[r]
      /\ answer'[r] = answer[r]
      /\ held[r] = <<c>> => session'[c] = session[c]
  BY <1>1, <1>2 DEF Next, Rest, vars
<1>4. Running(r)' = Running(r) /\ Step(r)' = Step(r) BY <1>3 DEF Running, Step
<1> QED BY <1>3, <1>4 DEF Begins, Sets, NeedsPanel

LEMMA StepClean ==
  ASSUME Kept, [Next]_vars
  PROVE  SessionsClean'
<1>1. ASSUME NEW r \in Requests, NEW c \in Connections
      PROVE  /\ Begins(r, c)' => ~session'[c].open
             /\ Sets(r, c)' => session'[c].open
  <2>1. /\ Begins(r, c) => ~session[c].open
        /\ Sets(r, c) => session[c].open
        /\ place[c] = "idle" => ~session[c].open
    BY DEF Kept, SessionsClean, Begins, Sets
  <2>2. CASE Arrive(r) \/ Proceed(r) \/ Disturb(r) BY <2>1, <2>2, OwnNext
  <2>3. CASE ~(Arrive(r) \/ Proceed(r) \/ Disturb(r))
    <3>1. /\ Begins(r, c)' <=> Begins(r, c)
          /\ Sets(r, c)' <=> Sets(r, c)
          /\ held[r] = <<c>> => session'[c] = session[c]
      BY <2>3, OthersNext
    <3> QED BY <2>1, <3>1 DEF Begins, Sets
  <2> QED BY <2>2, <2>3
<1>2. ASSUME NEW r \in Requests, NEW c \in Connections, Running(r)', held'[r] = <<c>>
      PROVE  /\ Step(r)' = "Begin" => ~session'[c].open
             /\ Step(r)' = "SetLocal" => session'[c].open
  BY <1>1, <1>2 DEF Begins, Sets
<1> QED BY <1>2, StepConnections DEF SessionsClean

(* An operator's SET that has run is never forgotten.                      *)
LEMMA SetStays ==
  ASSUME Kept, [Next]_vars, OperatorHasSet
  PROVE  OperatorHasSet'
<1>1. PICK q \in Requests : op[q] = "query" /\ sql[q] = "SET" /\ result[q] = "ok"
  BY DEF OperatorHasSet
<1>2. at[q] > 7 BY <1>1 DEF Kept, InPlan, Placed
<1>3. ASSUME NEW r \in Requests, Arrive(r) \/ Proceed(r) \/ Disturb(r)
      PROVE  op'[q] = op[q] /\ sql'[q] = sql[q] /\ result'[q] = result[q]
  <2>1. CASE q # r BY <1>3, <2>1, StepElsewhere DEF Elsewhere
  <2>2. CASE q = r
    <3>1. ~Arrive(r)
      <4>1. at[r] # 0 BY <1>2, <2>2 DEF Kept, Typed
      <4> QED BY <4>1 DEF Arrive, Receive
    <3>2. UNCHANGED <<op, sql>>
      BY <1>3, <3>1 DEF Proceed, Disturb, Release, Acquire, Execute,
                        StatementFails, AcquireTimesOut, Cancel
    <3>3. Running(r) => Step(r) # "Operator"
      <4>1. ASSUME Running(r), Step(r) = "Operator" PROVE at[r] = 7
        <5>1. op[r] \in AllOperations /\ at[r] \in 1..Len(Plan(op[r]))
          BY <4>1 DEF Kept, InPlan, Placed
        <5> QED BY <4>1, <5>1, PlanShape DEF Step
      <4> QED BY <1>2, <2>2, <4>1
    <3>4. result'[r] = result[r]
      BY <1>3, <3>1, <3>3
         DEF Proceed, Disturb, Release, Acquire, Execute, StatementFails,
             AcquireTimesOut, Cancel, Kept, Typed
    <3> QED BY <2>2, <3>2, <3>4
  <2> QED BY <2>1, <2>2
<1>4. op'[q] = op[q] /\ sql'[q] = sql[q] /\ result'[q] = result[q]
  BY <1>3 DEF Next, Return, Reconnect, Rest, vars
<1> QED BY <1>1, <1>4 DEF OperatorHasSet

(* As long as no operator has set a path, none but the panel's is kept.    *)
LEMMA PanelsStay ==
  ASSUME Kept, [Next]_vars, ~OperatorHasSet'
  PROVE  astray' = {} /\ \A c \in Connections : Panels(session'[c])
<1>1. ~OperatorHasSet BY SetStays
<1>2. /\ astray = {}
      /\ \A c \in Connections : /\ Panels(session[c]) /\ Local(session[c])
                                /\ session[c] \in Session
      /\ \A r \in Requests, c \in Connections :
           Running(r) /\ held[r] = <<c>> /\ Step(r) \in OnPanelTables \union {"Begin"} =>
             session[c].path = "panel"
  BY <1>1 DEF Kept, PathsExplained, SessionsClean, Typed
<1>3. ASSUME NEW c \in Connections, Return(c)
      PROVE  \A x \in Connections : Panels(session'[x])
  <2>1. /\ session'[c] = RolledBack(session[c])
        /\ \A x \in Connections \ {c} : session'[x] = session[x]
    BY <1>3 DEF Return, Kept, Typed
  <2>2. Panels(session'[c]) BY <1>2, <2>1, Ended
  <2> QED BY <1>2, <2>1, <2>2
<1>4. ASSUME NEW c \in Connections, Reconnect(c)
      PROVE  \A x \in Connections : Panels(session'[x])
  <2>1. /\ session'[c] = Fresh
        /\ \A x \in Connections \ {c} : session'[x] = session[x]
    BY <1>4 DEF Reconnect, Kept, Typed
  <2>2. Panels(session'[c]) BY <2>1 DEF Fresh, Panels
  <2> QED BY <1>2, <2>1, <2>2
<1>5. ASSUME NEW r \in Requests, Execute(r)
      PROVE  astray' = {} /\ \A x \in Connections : Panels(session'[x])
  <2>1. Running(r) /\ Step(r) \in Statements /\ UNCHANGED <<op, sql>>
    BY <1>5 DEF Execute
  <2>2. PICK c \in Connections : held[r] = <<c>> /\ Last(r) = c /\ place[c] = "held"
    BY <2>1, ExecuteOn
  <2>3. /\ session'[c] = After(r, Step(r), session[c])
        /\ \A x \in Connections \ {c} : session'[x] = session[x]
    BY <1>5, <2>2 DEF Execute, Kept, Typed
  <2>4. /\ Step(r) = "Begin" => ~session[c].open
        /\ Step(r) = "SetLocal" => session[c].open
    BY <2>1, <2>2 DEF Kept, SessionsClean
  <2>5. ~(Step(r) = "Operator" /\ sql[r] = "SET")
    <3>1. ASSUME Step(r) = "Operator", sql[r] = "SET" PROVE FALSE
      <4>1. op[r] = "query"
        <5>1. op[r] \in AllOperations /\ at[r] \in 1..Len(Plan(op[r]))
          BY <2>1 DEF Kept, InPlan, Placed
        <5> QED BY <3>1, <5>1, PlanShape DEF Step
      <4>2. result'[r] = "ok" BY <1>5, <3>1 DEF Execute, Kept, Typed
      <4>3. op'[r] = "query" /\ sql'[r] = "SET" BY <2>1, <3>1, <4>1
      <4> QED BY <4>2, <4>3 DEF OperatorHasSet
    <3> QED BY <3>1
  <2>6. Panels(session'[c]) BY <1>2, <2>3, <2>4, <2>5, AfterClean
  <2>7. Step(r) \in OnPanelTables => session[c].path = "panel"
    BY <1>2, <2>1, <2>2
  <2>8. astray' = astray BY <1>5, <2>2, <2>7 DEF Execute
  <2> QED BY <1>2, <2>3, <2>6, <2>8
<1> QED BY <1>2, <1>3, <1>4, <1>5, StepSessions

LEMMA StepPaths ==
  ASSUME Kept, [Next]_vars
  PROVE  PathsExplained'
<1>1. CASE OperatorHasSet' BY <1>1 DEF PathsExplained
<1>2. CASE ~OperatorHasSet'
  <2>1. astray' = {} /\ \A c \in Connections : Panels(session'[c])
    BY <1>2, PanelsStay
  <2>2. ~OperatorHasSet BY <1>2, SetStays
  <2>3. ASSUME NEW r \in Requests, NEW c \in Connections, NeedsPanel(r, c)'
        PROVE  session'[c].path = "panel"
    <3>1. /\ NeedsPanel(r, c) => session[c].path = "panel"
          /\ place[c] = "idle" => session[c].path = "panel"
      BY <2>2 DEF Kept, PathsExplained, SessionsClean, NeedsPanel, Panels
    <3>2. CASE Arrive(r) \/ Proceed(r) \/ Disturb(r)
      BY <2>3, <3>1, <3>2, OwnNext
    <3>3. CASE ~(Arrive(r) \/ Proceed(r) \/ Disturb(r))
      <4>1. NeedsPanel(r, c) /\ (held[r] = <<c>> => session'[c] = session[c])
        BY <2>3, <3>3, OthersNext
      <4> QED BY <3>1, <4>1 DEF NeedsPanel
    <3> QED BY <3>2, <3>3
  <2>4. ASSUME NEW r \in Requests, NEW c \in Connections,
               Running(r)', held'[r] = <<c>>, Step(r)' \in OnPanelTables \union {"Begin"}
        PROVE  session'[c].path = "panel"
    BY <2>3, <2>4 DEF NeedsPanel
  <2> QED BY <2>1, <2>4 DEF PathsExplained
<1> QED BY <1>1, <1>2

-----------------------------------------------------------------------------
(* The theorems *)

LEMMA InitKept == Init => Kept
<1> SUFFICES ASSUME Init PROVE Kept OBVIOUS
<1>1. Typed
  <2>1. Fresh \in Session BY DEF Fresh, Session, Paths
  <2>2. << >> \in Seq(Connections) OBVIOUS
  <2> QED BY <2>1, <2>2 DEF Init, Typed
<1>2. \A r \in Requests : ~Running(r) /\ held[r] = << >> /\ result[r] = "none"
  BY DEF Init, Running
<1>3. InPlan BY <1>2 DEF InPlan, Placed
<1>4. \A r \in Requests, c \in Connections : held[r] # <<c>> BY <1>2
<1>5. OneHolder BY <1>4 DEF Init, OneHolder
<1>6. \A c \in Connections : Local(session[c]) /\ Panels(session[c]) /\ ~session[c].open
  BY DEF Init, Fresh, Local, Panels
<1>7. SessionsClean BY <1>2, <1>6 DEF SessionsClean
<1>8. PathsExplained BY <1>2, <1>6 DEF PathsExplained, Init
<1> QED BY <1>1, <1>3, <1>5, <1>7, <1>8 DEF Kept

LEMMA StepKept == Kept /\ [Next]_vars => Kept'
BY StepTyped, StepInPlan, StepOneHolder, StepClean, StepPaths DEF Kept

LEMMA AlwaysKept == Spec => []Kept
BY InitKept, StepKept, PTL DEF Spec

(* Types; and a connection is held by no two requests (db.rs, the pool).   *)
THEOREM SessionsTyped == Spec => []TypeOK
<1>1. Kept => TypeOK
  <2> SUFFICES ASSUME Kept PROVE TypeOK OBVIOUS
  <2>1. Typed BY DEF Kept
  <2>2. ASSUME NEW c \in Connections
        PROVE  place[c] = "held" <=> \E r \in Requests : c \in Holding(r)
    <3>1. place[c] = "held" <=> \E r \in Requests : held[r] = <<c>>
      BY DEF Kept, OneHolder
    <3>2. \A r \in Requests : c \in Holding(r) <=> held[r] = <<c>> BY HeldOne
    <3> QED BY <3>1, <3>2
  <2>3. ASSUME NEW r \in Requests, NEW q \in Requests, r # q
        PROVE  Holding(r) \intersect Holding(q) = {}
    <3>1. ASSUME NEW c, c \in Holding(r), c \in Holding(q) PROVE FALSE
      <4>1. held[r] \in Seq(Connections) BY <2>1 DEF Typed
      <4>2. Holding(r) \subseteq Connections BY <4>1 DEF Holding
      <4>3. held[r] = <<c>> /\ held[q] = <<c>> BY <3>1, <4>2, HeldOne
      <4> QED BY <2>3, <3>1, <4>2, <4>3 DEF Kept, OneHolder
    <3> QED BY <3>1
  <2> QED BY <2>1, <2>2, <2>3 DEF Typed, TypeOK
<1> QED BY <1>1, AlwaysKept, PTL

(* "The search_path change is scoped to this transaction and never leaks   *)
(* back to the pool" (services/projects.rs): whatever SQL the operators    *)
(* type, and whatever fails or is cut off, for a pool of any size.         *)
THEOREM SessionsApart == Spec => []SessionsStayApart
<1>1. Kept => SessionsStayApart
  <2> SUFFICES ASSUME Kept PROVE SessionsStayApart OBVIOUS
  <2>1. PathStaysLocal /\ IdleMeansNoTransaction
    BY DEF Kept, SessionsClean, Local, PathStaysLocal, IdleMeansNoTransaction
  <2>2. StrayExplained
    BY DEF Kept, PathsExplained, OperatorHasSet, StrayExplained
  <2> QED BY <2>1, <2>2 DEF SessionsStayApart
<1> QED BY <1>1, AlwaysKept, PTL
=============================================================================
