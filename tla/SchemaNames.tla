------------------------------ MODULE SchemaNames ------------------------------
(***************************************************************************)
(* The name of the schema a project gets (services/shared.rs): the loop    *)
(* that cleans the display name, the loop that looks for a free name, the  *)
(* checks of schema and role, and the names that the migration of          *)
(* 2026-04-21 gave to the projects of before.                              *)
(*                                                                         *)
(* A name is a sequence of characters.  Requests are taken one at a time   *)
(* (their interleaving is the subject of Provisioning), but projects may   *)
(* be deleted at any moment.  The transaction that provisions the project  *)
(* is one step here: it inserts the row, or it does not.                   *)
(***************************************************************************)
EXTENDS Integers, SequencesExt

CONSTANTS
  Names,       \* the display names
  Former,      \* the sets of projects there may be before the migration
  Prefix,      \* "proj_"
  RoleSuffix,  \* "_user"
  Unnamed,     \* "unnamed"
  Keep,        \* how much of a slug is kept (58)
  MaxIdent,    \* longest identifier (63)
  MaxCreates   \* bound on the projects that are created

Upper == {"A", "B"}
Digits == {"0", "1", "2", "3", "4", "5", "6", "7", "8", "9"}
Alphanumeric == {"a", "b", "p", "u"} \union Upper \union Digits
Billion == 1000000000        \* more than the projects there ever are
Plain == (Alphanumeric \ Upper) \union {"_"}

ASSUME NamesAssumption ==
  /\ \A n \in Names : n \in Seq(STRING) /\ n # << >>
  /\ Prefix \in Seq(Plain) /\ Prefix # << >> /\ Prefix[1] \notin Digits
  /\ Unnamed \in Seq(Plain) /\ RoleSuffix \in Seq(Plain)
  /\ Keep \in Nat \ {0} /\ MaxIdent \in Nat /\ MaxCreates \in Nat
  /\ \A f \in Former : /\ f \subseteq Names /\ IsFiniteSet(f)
                       /\ Cardinality(f) + MaxCreates < Billion

VARIABLES
  schemas,   \* the schema of each project that is there
  former,    \* the projects that have no schema yet
  pc,        \* what the request, or the migration, does next
  name,      \* the display name in the request
  rest,      \* what the first loop has still to read
  cleaned,   \* what it has written
  prevUnderscore,
  candidate, suffix, finalName,
  answer,    \* what the last request was answered
  creates    \* how many requests there have been

vars == <<schemas, former, pc, name, rest, cleaned, prevUnderscore, candidate,
          suffix, finalName, answer, creates>>

Projects == DOMAIN schemas

Init ==
  /\ schemas = << >> /\ former \in Former
  /\ pc = "migrate"
  /\ name = << >> /\ rest = << >> /\ cleaned = << >>
  /\ prevUnderscore = FALSE
  /\ candidate = << >> /\ suffix = 2 /\ finalName = << >>
  /\ answer = "none" /\ creates = 0

-----------------------------------------------------------------------------
(* Characters *)

Lower(c) == CASE c = "A" -> "a" [] c = "B" -> "b" [] OTHER -> c
Lowered(s) == [i \in DOMAIN s |-> Lower(s[i])]

IsAlphanumeric(c) == c \in Alphanumeric

(* trim_matches('_'): from the first to the last other character.          *)
Untrimmed(s) == s               \* slip: the ends are left
Trimmed(s) ==
  LET Other(c) == c # "_" IN
  IF SelectInSeq(s, Other) = 0 THEN << >>
  ELSE SubSeq(s, SelectInSeq(s, Other), SelectLastInSeq(s, Other))

(* What a name has at some of its positions, in their order: a letter or   *)
(* digit as it is, and an underscore for anything else.                    *)
Nth(P, k) == CHOOSE i \in P : Cardinality({j \in P : j <= i}) = k
Written(n, P) ==
  [k \in 1 .. Cardinality(P) |-> LET c == n[Nth(P, k)] IN
                                IF IsAlphanumeric(c) THEN c ELSE "_"]

(* A number from one to below a billion in decimal.                        *)
Powers == <<1, 10, 100, 1000, 10000, 100000, 1000000, 10000000, 100000000>>
Digit(d) == <<"0", "1", "2", "3", "4", "5", "6", "7", "8", "9">>[d + 1]
Decimal(n) ==
  LET width == Max({k \in 1 .. 9 : Powers[k] <= n})
  IN  [i \in 1 .. width |-> Digit((n \div Powers[width + 1 - i]) % 10)]

Cut(s, n) == SubSeq(s, 1, IF Len(s) < n THEN Len(s) ELSE n)

(* ensure_safe_ident.                                                      *)
LengthAllowed(s) == Len(s) \in 1 .. MaxIdent
SafeIdent(s) ==
  /\ LengthAllowed(s)
  /\ s[1] \notin Digits
  /\ \A i \in DOMAIN s : IsAlphanumeric(s[i]) \/ s[i] = "_"

-----------------------------------------------------------------------------
(* The migration *)

(* lower(regexp_replace(name, '[^a-zA-Z0-9]+', '_', 'g')): one underscore  *)
(* where a run of other characters begins.                                 *)
Kept(n) == {i \in DOMAIN n : \/ i = 1 \/ IsAlphanumeric(n[i])
                             \/ IsAlphanumeric(n[i - 1])}
Replaced(n) == Lowered(Written(n, Kept(n)))
MigratedName(n) == Prefix \o Replaced(n)

(* UNIQUE (schema_name) is added after the update: a server whose projects *)
(* would share a schema does not start.                                    *)
Migrate ==
  /\ pc = "migrate"
  /\ IF IsInjective([n \in former |-> MigratedName(n)])
     THEN /\ schemas' = [n \in former |-> MigratedName(n)]
          /\ pc' = "idle"
     ELSE UNCHANGED schemas /\ pc' = "failed"
  /\ UNCHANGED <<former, name, rest, cleaned, prevUnderscore, candidate, suffix,
                 finalName, answer, creates>>

-----------------------------------------------------------------------------
(* create_project *)

Respond(a) == pc' = "idle" /\ answer' = a

(* required_text, and the first statements of generate_schema_name.        *)
Receive(n) ==
  /\ pc = "idle" /\ creates < MaxCreates
  /\ creates' = creates + 1
  /\ name' = n
  /\ rest' = Lowered(n) /\ cleaned' = << >> /\ prevUnderscore' = FALSE
  /\ pc' = "scan" /\ answer' = "none"
  /\ UNCHANGED <<schemas, former, candidate, suffix, finalName>>

(* One character.                                                          *)
AfterLetter(prev) == prev       \* slip: prev_underscore is not reset
Reset(prev) == FALSE

Scan ==
  /\ pc = "scan" /\ rest # << >>
  /\ rest' = Tail(rest)
  /\ IF IsAlphanumeric(Head(rest))
     THEN /\ cleaned' = Append(cleaned, Head(rest))
          /\ prevUnderscore' = Reset(prevUnderscore)
     ELSE /\ cleaned' = IF prevUnderscore THEN cleaned ELSE Append(cleaned, "_")
          /\ prevUnderscore' = TRUE
  /\ UNCHANGED <<schemas, former, pc, name, candidate, suffix, finalName, answer,
                 creates>>

Candidate(s) ==
  Prefix \o Cut(IF Trimmed(s) = << >> THEN Unnamed ELSE Trimmed(s), Keep)

Trim ==
  /\ pc = "scan" /\ rest = << >>
  /\ candidate' = Candidate(cleaned)
  /\ finalName' = Candidate(cleaned)
  /\ suffix' = 2
  /\ pc' = "probe"
  /\ UNCHANGED <<schemas, former, name, rest, cleaned, prevUnderscore, answer,
                 creates>>

Taken(s) == \E n \in Projects : schemas[n] = s

(* The SELECT, and what follows it up to the next await.                   *)
SameAgain(n) == n               \* slip: suffix += 1 is forgotten
Following(n) == n + 1
SecondIsFree(s) == s = candidate /\ Taken(s)    \* slip: if, not loop
Occupied(s) == Taken(s)

Role(s) == s \o RoleSuffix

Probe ==
  /\ pc = "probe"
  /\ IF Occupied(finalName)
     THEN /\ finalName' = candidate \o <<"_">> \o Decimal(suffix)
          /\ suffix' = Following(suffix)
          /\ UNCHANGED <<pc, answer>>
     ELSE /\ IF SafeIdent(finalName) /\ SafeIdent(Role(finalName))
             THEN pc' = "insert" /\ UNCHANGED answer
             ELSE Respond("bad request")
          /\ UNCHANGED <<finalName, suffix>>
  /\ UNCHANGED <<schemas, former, name, rest, cleaned, prevUnderscore, candidate,
                 creates>>

(* INSERT: both the name and the schema are UNIQUE.                        *)
Insert ==
  /\ pc = "insert"
  /\ \/ /\ name \notin Projects /\ ~Taken(finalName)
        /\ schemas' = [n \in Projects \union {name} |->
                         IF n = name THEN finalName ELSE schemas[n]]
        /\ Respond("created")
     \/ /\ name \in Projects \/ Taken(finalName)
        /\ Respond("error") /\ UNCHANGED schemas
  /\ UNCHANGED <<former, name, rest, cleaned, prevUnderscore, candidate, suffix,
                 finalName, creates>>

DeleteProject(n) ==
  /\ pc # "migrate" /\ n \in Projects
  /\ schemas' = [m \in Projects \ {n} |-> schemas[m]]
  /\ UNCHANGED <<former, pc, name, rest, cleaned, prevUnderscore, candidate,
                 suffix, finalName, answer, creates>>

Step == Migrate \/ Scan \/ Trim \/ Probe \/ Insert

Rest == /\ \/ pc = "failed"
           \/ pc = "idle" /\ creates = MaxCreates
        /\ UNCHANGED vars

Next == \/ Step
        \/ \E n \in Names : Receive(n) \/ DeleteProject(n)
        \/ Rest

(* The handler runs on as long as PostgreSQL answers.                      *)
Spec == Init /\ [][Next]_vars /\ WF_vars(Step)

-----------------------------------------------------------------------------
(* Properties *)

(* What the slug of a name should be, told by the positions of its letters *)
(* and digits: they are kept in order, in lower case, with one underscore  *)
(* where anything else stands between two of them.                         *)
Letters(n) == {i \in DOMAIN n : IsAlphanumeric(n[i])}
Gaps(n) == {i \in DOMAIN n \ Letters(n) :
              i - 1 \in Letters(n) /\ \E j \in Letters(n) : j > i}
Slug(n) == IF Letters(Lowered(n)) = {} THEN Unnamed
           ELSE Written(Lowered(n), Letters(Lowered(n)) \union Gaps(Lowered(n)))

(* Types; the first loop's invariant; the second loop has had no more      *)
(* turns than there were projects; no two projects, migrated or created,   *)
(* share a schema, and what they have is an identifier but for its length. *)
TypeOK ==
  /\ Projects \subseteq Names /\ IsInjective(schemas)
  /\ \A n \in Projects : schemas[n] \in Seq(Plain) /\ IsPrefix(Prefix, schemas[n])
  /\ pc \in {"migrate", "failed", "idle", "scan", "probe", "insert"}
  /\ answer \in {"none", "created", "bad request", "error"}
  /\ suffix \in 2 .. IF creates = 0 THEN 2 ELSE Cardinality(former) + creates + 1
  /\ prevUnderscore <=> cleaned # << >> /\ Last(cleaned) = "_"

(* The candidate is the slug, cut, after the prefix, for every name.       *)
SlugExact ==
  pc \in {"probe", "insert"} => candidate = Prefix \o Cut(Slug(name), Keep)

(* A name is refused for nothing but the length of its slug, or of the     *)
(* suffix that others make necessary; the role is what gets too long.      *)
RefusalExplained ==
  answer = "bad request" =>
    LET room == MaxIdent - Len(Prefix) - Len(RoleSuffix)
        slug == IF Len(Slug(name)) < Keep THEN Len(Slug(name)) ELSE Keep
    IN  IF finalName = candidate THEN slug > room
        ELSE slug + 1 + Len(Decimal(suffix - 1)) > room

(* The name that was probed is free: without another creation beside it,   *)
(* an INSERT is only refused for the display name.                         *)
ErrorExplained ==
  answer' = "error" /\ answer # "error" => name \in Projects

(* Every refusal has its cause in the name.                                *)
RefusalsExplained == [][RefusalExplained' /\ ErrorExplained]_vars

(* The loop finds a free name, whatever is deleted meanwhile.              *)
ProbingEnds == pc = "probe" ~> pc \in {"insert", "idle"}
=============================================================================
