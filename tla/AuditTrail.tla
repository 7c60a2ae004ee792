------------------------------ MODULE AuditTrail ------------------------------
(***************************************************************************)
(* What the audit log promises of operations that commit a change (or      *)
(* reveal something) first and insert their audit row afterwards, on       *)
(* another connection: no row without the change, at most one row per      *)
(* request, and the row before the answer.  Not promised: that every       *)
(* change has a row, or that the rows are in the order of the changes.     *)
(***************************************************************************)
EXTENDS Naturals, Sequences

CONSTANT Requests

VARIABLES
  done,      \* requests that have had their effect
  trail,     \* requests in the order of their audit rows
  answered   \* requests that were told of their success

vars == <<done, trail, answered>>

Recorded == {trail[i] : i \in DOMAIN trail}

Init == done = {} /\ trail = << >> /\ answered = {}

Act(r) ==
  /\ r \notin done
  /\ done' = done \union {r}
  /\ UNCHANGED <<trail, answered>>

(* An audit row whose request is not told is one whose client has left.    *)
Record(r) ==
  /\ r \in done \ Recorded
  /\ trail' = Append(trail, r)
  /\ answered' \in {answered, answered \union {r}}
  /\ UNCHANGED done

Next == \E r \in Requests : Act(r) \/ Record(r)

Spec == Init /\ [][Next]_vars
=============================================================================
