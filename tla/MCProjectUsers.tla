---------------------------- MODULE MCProjectUsers ----------------------------
(***************************************************************************)
(* An instance of ProjectUsers for TLC.                                    *)
(***************************************************************************)
EXTENDS ProjectUsers, TLC

Good == [table |-> "users", banned |-> "b", password |-> "t",
         algorithm |-> "plaintext"]

(* Bans in the password column, and argon2; no columns; columns that do    *)
(* not exist or have another type; no such table; what put_config refuses. *)
Other == [Good EXCEPT !.banned = "t", !.algorithm = "argon2"]
Bare == [Good EXCEPT !.banned = "none", !.password = "none",
                     !.algorithm = "bcrypt"]
Broken == [Good EXCEPT !.banned = "nocolumn", !.password = "b"]
Nowhere == [Good EXCEPT !.table = "nowhere"]
Refused == [Good EXCEPT !.algorithm = "unknown"]

AllConfigs == {Good, Other, Bare, Broken, Nowhere, Refused}

UsersSymmetry == Permutations(Requests) \union Permutations(Users)
===============================================================================
