-------------------------------- MODULE Secrets --------------------------------
(***************************************************************************)
(* The secrets of the panel (services/secrets.rs): a value is encrypted    *)
(* with the key of the server that stores it, revealed by decrypting it    *)
(* with the key of the server that is asked, and every change or reveal is *)
(* audited with a statement of its own after it has happened.              *)
(*                                                                         *)
(* The secret that request r creates has the id r and the value r.  Keys   *)
(* are atoms, and AES-GCM is taken for what it promises: a cipher text     *)
(* decrypts under the key that made it and under no other.  A statement    *)
(* that was sent before its client left, or the server stopped, may still  *)
(* take effect later, or never.                                            *)
(***************************************************************************)
EXTENDS Naturals, Sequences, FiniteSets

CONSTANTS
  Requests,    \* the HTTP requests
  Old,         \* ids of secrets stored before
  Projects,    \* projects a secret may belong to
  Keys,        \* the values SECRET_KEY may have
  Operations,  \* what the requests may ask for
  Faults,      \* may statements fail and clients leave?
  None         \* no row, no project, no server, nothing told

Ids == Requests \union Old
Secret == [value : Ids, key : Keys, project : Projects \union {None}]
Changes == {"create", "reveal", "delete"}

ASSUME SecretsAssumption ==
  /\ Operations \subseteq Changes \union {"list"}
  /\ Faults \in BOOLEAN
  /\ None \notin Requests \union Old \union Projects \union Keys \union Secret
  /\ Requests \intersect Old = {}

VARIABLES
  key,       \* SECRET_KEY of the running server, None if there is none
  projects,  \* the projects there are
  secrets,   \* the row of each id
  audit,     \* requests in the order of their audit rows
  pc,        \* the statement each request awaits
  op,        \* what it asks for
  arg,       \* the secret, or the project, it is about
  row,       \* the row it has encrypted or read
  told,      \* the plain text it was answered
  answer,    \* the HTTP answer; "none" while the handler runs
  done,      \* ghost: the requests that have had their effect
  before     \* ghost: those answered when each request arrived

secretVars == <<projects, secrets, audit, pc, op, arg, row, told, answer, done,
                before>>
vars == <<key, secretVars>>

(* No row; rows of the keys the server has had before; with a project, or  *)
(* without.                                                                *)
Init ==
  /\ key \in Keys
  /\ projects = Projects
  /\ \E old \in [Old -> Keys], p \in Projects \union {None} :
       secrets = [i \in Ids |->
                    IF i \in Old THEN [value |-> i, key |-> old[i], project |-> p]
                    ELSE None]
  /\ audit = << >>
  /\ pc = [r \in Requests |-> "idle"]
  /\ op = [r \in Requests |-> "none"]
  /\ arg = [r \in Requests |-> None]
  /\ row = [r \in Requests |-> None]
  /\ told = [r \in Requests |-> None]
  /\ answer = [r \in Requests |-> "none"]
  /\ done = {}
  /\ before = [r \in Requests |-> {}]

-----------------------------------------------------------------------------
(* The handlers *)

Running(r) == pc[r] # "idle" /\ answer[r] = "none"
Writing == {"insert", "delete", "audit"}

(* The handler answers, if it is still there to do so.                     *)
Respond(r, a) ==
  /\ pc' = [pc EXCEPT ![r] = "done"]
  /\ answer' = [answer EXCEPT ![r] = IF Running(r) THEN a ELSE @]

Continue(r, step) ==
  /\ pc' = [pc EXCEPT ![r] = IF Running(r) THEN step ELSE "done"]
  /\ UNCHANGED answer

FirstStep(o) ==
  CASE o = "create" -> "insert"
    [] o = "reveal" -> "select"
    [] OTHER -> o

(* create_secret refuses a blank name or value, and encrypts, before its   *)
(* first await.                                                            *)
Receive(r, o, a) ==
  /\ pc[r] = "idle" /\ key # None
  /\ op' = [op EXCEPT ![r] = o]
  /\ arg' = [arg EXCEPT ![r] = a]
  /\ before' = [before EXCEPT ![r] = {q \in Requests : answer[q] # "none"}]
  /\ \/ /\ pc' = [pc EXCEPT ![r] = FirstStep(o)]
        /\ row' = [row EXCEPT ![r] =
                     IF o = "create"
                     THEN [value |-> r, key |-> key, project |-> a] ELSE @]
        /\ UNCHANGED answer
     \/ /\ o = "create"
        /\ pc' = [pc EXCEPT ![r] = "done"]
        /\ answer' = [answer EXCEPT ![r] = "bad request"]
        /\ UNCHANGED row
  /\ UNCHANGED <<key, projects, secrets, audit, told, done>>

(* require_auth does not let the request through.                          *)
Refuse(r) ==
  /\ pc[r] = "idle" /\ key # None
  /\ pc' = [pc EXCEPT ![r] = "done"]
  /\ answer' = [answer EXCEPT ![r] = "unauthorized"]
  /\ UNCHANGED <<key, projects, secrets, audit, op, arg, row, told, done, before>>

(* Ids are random: none is known before its row is there.                  *)
Known == Old \union {r \in done : op[r] = "create"}

Ask(r) ==
  \/ "create" \in Operations
     /\ \E p \in Projects \union {None} : Receive(r, "create", p)
  \/ \E o \in Operations \intersect {"reveal", "delete"}, i \in Known :
       Receive(r, o, i)
  \/ "list" \in Operations /\ Receive(r, "list", None)

(* INSERT, which the foreign key refuses if the project is gone.           *)
Insertable(p) == p \in projects \union {None}

Insert(r) ==
  /\ pc[r] = "insert"
  /\ IF Insertable(arg[r])
     THEN /\ secrets' = [secrets EXCEPT ![r] = row[r]]
          /\ done' = done \union {r}
          /\ Continue(r, "audit")
     ELSE Respond(r, "error") /\ UNCHANGED <<secrets, done>>
  /\ UNCHANGED <<key, projects, audit, op, arg, row, told, before>>

AnyKey(s) == TRUE               \* slip: the cipher text is not authenticated
Decrypts(s) == s.key = key

(* SELECT, and the value is decrypted at once; the audit row comes next.   *)
Select(r) ==
  /\ pc[r] = "select"
  /\ row' = [row EXCEPT ![r] = secrets[arg[r]]]
  /\ IF secrets[arg[r]] = None THEN Respond(r, "not found") /\ UNCHANGED done
     ELSE IF Decrypts(secrets[arg[r]])
     THEN Continue(r, "audit") /\ done' = done \union {r}
     ELSE Respond(r, "error") /\ UNCHANGED done
  /\ UNCHANGED <<key, projects, secrets, audit, op, arg, told, before>>

(* DELETE, and the check of rows_affected().                               *)
Uncounted(r) == FALSE           \* slip: rows_affected() is not looked at
NoRow(r) == secrets[arg[r]] = None

Delete(r) ==
  /\ pc[r] = "delete"
  /\ IF NoRow(r) THEN Respond(r, "not found") /\ UNCHANGED <<secrets, done>>
     ELSE /\ secrets' = [secrets EXCEPT ![arg[r]] = None]
          /\ done' = done \union {r}
          /\ Continue(r, "audit")
  /\ UNCHANGED <<key, projects, audit, op, arg, row, told, before>>

(* list_secrets: no value, no audit row.                                   *)
List(r) ==
  /\ pc[r] = "list"
  /\ Respond(r, "ok")
  /\ UNCHANGED <<key, projects, secrets, audit, op, arg, row, told, done, before>>

Plain(r) == IF op[r] = "reveal" /\ Running(r) THEN row[r].value ELSE None

AuditLater(r) ==                \* slip: the answer does not wait for the row
  /\ pc[r] = "audit"
  /\ told' = [told EXCEPT ![r] = IF Running(r) THEN Plain(r) ELSE @]
  /\ IF Running(r)
     THEN /\ answer' = [answer EXCEPT ![r] = "ok"]
          /\ UNCHANGED <<pc, audit>>
     ELSE /\ audit' = Append(audit, r)
          /\ Continue(r, "done")
  /\ UNCHANGED <<key, projects, secrets, op, arg, row, done, before>>

Audit(r) ==
  /\ pc[r] = "audit"
  /\ audit' = Append(audit, r)
  /\ told' = [told EXCEPT ![r] = Plain(r)]
  /\ Respond(r, "ok")
  /\ UNCHANGED <<key, projects, secrets, op, arg, row, done, before>>

-----------------------------------------------------------------------------
(* What may happen to them *)

(* A statement fails, its answer is lost, or the client leaves.  One that  *)
(* writes may have been sent already.                                      *)
Abandon(r) ==
  /\ Faults
  /\ Running(r)
  /\ answer' = [answer EXCEPT ![r] = "lost"]
  /\ pc' = [pc EXCEPT ![r] = IF @ \in Writing THEN @ ELSE "done"]
  /\ UNCHANGED <<key, projects, secrets, audit, op, arg, row, told, done, before>>

NeverRuns(r) ==
  /\ pc[r] \in Writing /\ ~Running(r)
  /\ Continue(r, "done")
  /\ UNCHANGED <<key, projects, secrets, audit, op, arg, row, told, done, before>>

(* The server stops: all of its clients are left alone at once.            *)
StopAll ==
  /\ key # None /\ key' = None
  /\ answer' = [r \in Requests |-> IF Running(r) THEN "lost" ELSE answer[r]]
  /\ pc' = [r \in Requests |->
              IF Running(r) /\ pc[r] \notin Writing THEN "done" ELSE pc[r]]
  /\ UNCHANGED <<projects, secrets, audit, op, arg, row, told, done, before>>

StartWith(k) == key = None /\ key' = k /\ UNCHANGED secretVars

(* delete_project commits: ON DELETE SET NULL.                             *)
CascadedTo(s) == None           \* slip: ON DELETE CASCADE
OrphanOf(s) == [s EXCEPT !.project = None]

DeleteProject(p) ==
  /\ p \in projects
  /\ projects' = projects \ {p}
  /\ secrets' = [i \in Ids |->
                   IF secrets[i] # None /\ secrets[i].project = p
                   THEN OrphanOf(secrets[i]) ELSE secrets[i]]
  /\ UNCHANGED <<key, audit, pc, op, arg, row, told, answer, done, before>>

Proceed(r) == Insert(r) \/ Select(r) \/ Delete(r) \/ List(r) \/ Audit(r)
Disturb(r) == Abandon(r) \/ NeverRuns(r)

Rest == (\A r \in Requests : pc[r] = "done") /\ UNCHANGED vars

Next == \/ \E r \in Requests : Refuse(r) \/ Ask(r) \/ Proceed(r) \/ Disturb(r)
        \/ \E p \in Projects : DeleteProject(p)
        \/ StopAll
        \/ \E k \in Keys : StartWith(k)
        \/ Rest

Spec == Init /\ [][Next]_vars

-----------------------------------------------------------------------------
(* Properties *)

Recorded == {audit[i] : i \in DOMAIN audit}

(* Types; a request that awaits its audit row has had its effect and has   *)
(* no row yet, and a plain text is only with those who were told.          *)
TypeOK ==
  /\ key \in Keys \union {None}
  /\ projects \subseteq Projects
  /\ secrets \in [Ids -> Secret \union {None}]
  /\ audit \in Seq(Requests)
  /\ pc \in [Requests -> {"idle", "insert", "select", "delete", "list",
                          "audit", "done"}]
  /\ op \in [Requests -> Operations \union {"none"}]
  /\ arg \in [Requests -> Ids \union Projects \union {None}]
  /\ row \in [Requests -> Secret \union {None}]
  /\ told \in [Requests -> Ids \union {None}]
  /\ answer \in [Requests -> {"none", "ok", "not found", "bad request",
                              "unauthorized", "error", "lost"}]
  /\ done \subseteq Requests
  /\ before \in [Requests -> SUBSET Requests]
  /\ \A r \in Requests : pc[r] = "audit" => r \in done \ Recorded
  /\ \A r \in Requests : told[r] # None => r \in Recorded /\ answer[r] = "ok"

(* What was answered with 201 is stored, with its value and under the key  *)
(* it was given, and outlives its project, until it is deleted.            *)
SecretHolds ==
  \A r \in Requests :
    op[r] = "create" /\ answer[r] = "ok" =>
      \/ /\ secrets[r] # None
         /\ secrets[r] \in {row[r], [row[r] EXCEPT !.project = None]}
         /\ secrets[r].project \in projects \union {None}
      \/ \E q \in done : op[q] = "delete" /\ arg[q] = r

(* A delete is final: no two requests delete one secret, and none that     *)
(* arrived after the answer reveals it.                                    *)
DeleteIsFinal ==
  \A r, q \in Requests :
    /\ r # q /\ op[q] = "delete" /\ q \in done /\ arg[r] = arg[q]
    => /\ op[r] = "delete" => r \notin done
       /\ op[r] = "reveal" /\ q \in before[r] /\ answer[q] = "ok"
          => r \notin done

(* A reveal answers the value that was stored under this id; it answers    *)
(* 500 without a failure only if the server's key is not the one the       *)
(* secret was stored with, and the server that has it again answers again. *)
RevealExplained ==
  \A r \in Requests :
    op[r] = "reveal" /\ answer'[r] # answer[r] =>
      /\ answer'[r] = "ok" => /\ told'[r] = arg[r]
                              /\ row[r].key = key
      /\ answer'[r] = "error" => secrets[arg[r]].key # key

(* A create answers 500 without a failure only for a project that is gone. *)
CreateErrorExplained ==
  \A r \in Requests :
    op[r] = "create" /\ answer[r] = "error" =>
      arg[r] \in Projects \ projects

(* Without a failure, 500 is the answer of a lost project or another key.  *)
AnswerExplained == CreateErrorExplained' /\ RevealExplained
AnswersExplained == [][AnswerExplained]_vars

(* "ALWAYS writes an audit log so every plaintext read is traceable", and  *)
(* the same for a stored and a deleted secret.                             *)
Log == INSTANCE AuditTrail WITH
  trail <- audit,
  answered <- {r \in Requests : op[r] \in Changes /\ answer[r] = "ok"}

ImplementsAuditTrail == Log!Spec
=============================================================================
