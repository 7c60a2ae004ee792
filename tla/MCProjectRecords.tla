--------------------------- MODULE MCProjectRecords ---------------------------
(***************************************************************************)
(* An instance of ProjectRecords for TLC.                                  *)
(***************************************************************************)
EXTENDS ProjectRecords, TLC

Asked(page, limit, success) ==
  [page |-> page, limit |-> limit, success |-> success]

(* Out of range and left out; the second page; the offsets 12 and 18, of   *)
(* which four bits leave -4 and 2.                                         *)
Pages == {Asked(-1, Unset, TRUE), Asked(2, 0, Unset), Asked(5, 7, Unset),
          Asked(7, 7, Unset)}

CONSTANTS p, q, s

(* Two projects, and a saved query of the first.                           *)
TwoProjects ==
  {(p :> [project |-> p, name |-> "a", notes |-> "a"]
    @@ q :> [project |-> q, name |-> "b", notes |-> Null]
    @@ s :> [project |-> p, name |-> "a", notes |-> "b"]
    @@ [r \in Requests |-> Absent])}

TwoQueries == <<[project |-> p, success |-> TRUE],
                [project |-> p, success |-> FALSE]>>

Set(name, notes) == [name |-> name, notes |-> notes]
FourPatches == {Set("a", Keep), Set("b", "b"), Set(Keep, "a"), Set(Keep, "")}

RecordsSymmetry == Permutations(Requests)
===============================================================================
