---------------------------- MODULE GuardedSecrets ----------------------------
(***************************************************************************)
(* Secrets behind require_auth (lib.rs): every request to /api/secrets     *)
(* carries a token or none, which is looked at once, when the request      *)
(* arrives; and both halves belong to one process, which stops and starts  *)
(* with another environment, whose SECRET_KEY is the key of the secrets.   *)
(***************************************************************************)
EXTENDS Authentication, Secrets

ASSUME GuardedAssumption == \A c \in Configs : Starts(c) => c.key \in Keys

VARIABLE
  gate       \* the token in the header of each request

guardedVars == <<authVars, vars, gate>>

NoToken == [jwt |-> None]

GuardedInit ==
  /\ AuthInit
  /\ Init /\ key = server.key
  /\ gate = [r \in Requests |-> NoToken]

-----------------------------------------------------------------------------

(* require_auth: a missing header, then the token.                         *)
Unchecked(t) == TRUE            \* slip: the route is outside of the layer
Passes(t) == t # NoToken /\ Verifies(t)

Arrive(r, t) ==
  /\ server # Down
  /\ UNCHANGED authVars
  /\ IF Passes(t) THEN Ask(r) ELSE Refuse(r)
  /\ gate' = [gate EXCEPT ![r] = t]

Handle(r) == (Proceed(r) \/ Disturb(r)) /\ UNCHANGED <<authVars, gate>>

LogIn == (\E a \in Attempts : Login(a)) /\ UNCHANGED <<vars, gate>>

Pass == Tick /\ UNCHANGED <<vars, gate>>

StopServer == Stop /\ StopAll /\ UNCHANGED gate

StartServer ==
  /\ \E c \in Configs : Start(c) /\ StartWith(c.key)
  /\ UNCHANGED gate

RemoveProject ==
  /\ \E p \in Projects : DeleteProject(p)
  /\ UNCHANGED <<authVars, gate>>

AllRest == Rest /\ UNCHANGED guardedVars

GuardedNext ==
  \/ \E r \in Requests, t \in tokens \union {NoToken} : Arrive(r, t)
  \/ \E r \in Requests : Handle(r)
  \/ LogIn \/ Pass \/ StopServer \/ StartServer \/ RemoveProject
  \/ AllRest

GuardedSpec == GuardedInit /\ [][GuardedNext]_guardedVars

-----------------------------------------------------------------------------
(* Properties *)

(* A token opens the panel for as long as the login announced, and no      *)
(* longer than the leeway after that, restarts or not, a changed password  *)
(* or not; with another JWT_SECRET it opens nothing.                       *)
TokenLives ==
  \A r \in Requests :
    pc[r] = "idle" /\ pc'[r] # "idle" /\ gate'[r] # NoToken =>
      LET age == now - gate'[r].iat IN
      IF answer'[r] = "unauthorized"
      THEN gate'[r].jwt # server.jwt \/ age > Lifetime
      ELSE gate'[r].jwt = server.jwt /\ age <= Lifetime + Leeway

TokenLife == [][TokenLives]_guardedVars

(* A plain text has left the panel only for a request that has an audit    *)
(* row and a token, of a login with the password, byte for byte, that the  *)
(* server had then, whatever bytes and lengths the two have.               *)
PlaintextTraceable ==
  \A r \in Requests :
    told[r] # None =>
      /\ r \in Recorded
      /\ gate[r] # NoToken
      /\ gate[r].typed = gate[r].set
=============================================================================
