-------------------------- MODULE MCProvisioning --------------------------
(***************************************************************************)
(* Instances of Provisioning for TLC.                                      *)
(***************************************************************************)
EXTENDS ProvisioningInvariant, TLC

CONSTANTS p1, p2, s1, s2, s3

OneHome == p1 :> s1
TwoHomes == p1 :> s1 @@ p2 :> s2

(* Names collide: the name of every project is first probed as s1.         *)
OneName == s1 :> s1
TwoNames == s1 :> s2 @@ s2 :> s2
ThreeNames == s1 :> s2 @@ s2 :> s3 @@ s3 :> s3

RequestSymmetry == Permutations(Requests)
=============================================================================
