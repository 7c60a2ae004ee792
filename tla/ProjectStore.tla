---------------------------- MODULE ProjectStore ----------------------------
(***************************************************************************)
(* What provisioning promises, with every operation in one indivisible     *)
(* step: the password the panel stores for a project and the password of   *)
(* its database role change together, together with one audit record.      *)
(*                                                                         *)
(* It also says what is NOT promised: removing a project may leave its     *)
(* role behind, and a request that had read the project before may still   *)
(* give that role a password, or even create the role afterwards.          *)
(***************************************************************************)
CONSTANTS Projects, Passwords, Gone, NoLogin

VARIABLES
  stored,   \* the password in the project's row; NoLogin; or Gone
  login,    \* the password of the project's role, or NoLogin
  log       \* audit records <<operation, project, request>>

vars == <<stored, login, log>>

TypeOK ==
  /\ stored \in [Projects -> Passwords \union {NoLogin, Gone}]
  /\ login \in [Projects -> Passwords \union {NoLogin}]

InSync == \A p \in Projects : stored[p] \in Passwords => login[p] = stored[p]

Init ==
  /\ stored \in [Projects -> Passwords \union {NoLogin, Gone}]
  /\ login = [p \in Projects |->
                IF stored[p] \in Passwords THEN stored[p] ELSE NoLogin]
  /\ log = {}

(* reset-password: first provisioning or replacement.                      *)
SetPassword(p, pw) ==
  /\ stored[p] # Gone
  /\ stored' = [stored EXCEPT ![p] = pw]
  /\ login' = [login EXCEPT ![p] = pw]
  /\ log' = log \union {<<"reset", p, pw>>}

(* delete, with the role or - if it was given one meanwhile - without it.  *)
Remove(p, by) ==
  /\ stored[p] # Gone
  /\ stored' = [stored EXCEPT ![p] = Gone]
  /\ login' \in {login, [login EXCEPT ![p] = NoLogin]}
  /\ log' = log \union {<<"delete", p, by>>}

(* reset or delete by a request that had read the row before it was gone.  *)
ChangeOrphan(p, by) ==
  /\ stored[p] = Gone
  /\ UNCHANGED stored
  /\ \/ /\ login' = [login EXCEPT ![p] = by]
        /\ log' = log \union {<<"reset", p, by>>}
     \/ /\ login' \in {login, [login EXCEPT ![p] = NoLogin]}
        /\ log' = log \union {<<"delete", p, by>>}

Next == \E p \in Projects, by \in Passwords :
          SetPassword(p, by) \/ Remove(p, by) \/ ChangeOrphan(p, by)

Spec == Init /\ [][Next]_vars
=============================================================================
