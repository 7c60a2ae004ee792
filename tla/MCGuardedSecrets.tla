--------------------------- MODULE MCGuardedSecrets ---------------------------
(***************************************************************************)
(* An instance of GuardedSecrets for TLC.                                  *)
(***************************************************************************)
EXTENDS GuardedSecrets, TLC

CONSTANTS j1, j2, k1, k2, short

First == [password |-> <<3, 1>>, jwt |-> j1, key |-> k1, connections |-> 2]

(* The password is changed, or the two secrets are.                        *)
NewPassword == [First EXCEPT !.password = <<1, 3>>]
NewSecrets == [First EXCEPT !.jwt = j2, !.key = k2]

(* What a server does not start with.                                      *)
Weak == {[First EXCEPT !.password = <<3>>], [First EXCEPT !.jwt = short],
         [First EXCEPT !.key = short], [First EXCEPT !.connections = 0]}

Environments == {First, NewPassword, NewSecrets} \union Weak

KeysThatStart == {k1, k2}

(* The passwords, one that is a zero byte longer, one that is cut.         *)
Typed == {<<3, 1>>, <<1, 3>>, <<3, 1, 0>>, <<3>>, <<3, 2>>}

SecretsSymmetry == Permutations(Requests)
===============================================================================
