----------------------------- MODULE MCSchemaNames -----------------------------
(***************************************************************************)
(* An instance of SchemaNames for TLC, with an identifier of 8 characters: *)
(* room for "p_", a slug of three, "_2" and "u".                           *)
(***************************************************************************)
EXTENDS SchemaNames

P == <<"p", "_">>
U == <<"u">>

(* All names of up to three characters, and some that are cut, in the      *)
(* middle of a word, behind one or at an underscore.                       *)
Short == BoundedSeq({"a", "A", "2", "-"}, 3) \ {<< >>}
Long == {<<"b", "a", "A", "2", "a", "-">>, <<"a", "_", "B", "é", "a", "2">>,
         <<"-", "a", "2", "b", "2", "-", "a">>, <<"a", "a", "a", "a">>, <<"a", "-", "3">>}
Some == Short \union Long

(* Projects of before the migration: two that take each other's schema;    *)
(* one that looks like a suffix beside the one it could be mistaken for;   *)
(* one with the underscores that are trimmed today.                        *)
Before == {{}, {<<"a">>, <<"A">>}, {<<"a">>, <<"a", "-", "2">>},
           {<<"-", "a", "-">>, <<"a", "-", "3">>}}
===============================================================================
