--------------------------- MODULE MCParameterValue ---------------------------
(* The tokenizer over lines of up to MaxLen characters: a letter in both   *)
(* cases, '=', the blank, the single quote and the backslash, and two      *)
(* field names of one letter, neither a prefix of the other, as none of    *)
(* db_object_new's names is a prefix of another.                           *)
EXTENDS ParameterValue

MCChars == {"a", "B", "=", " ", "'", "\\"}
MCFields == {<<"a">>, <<"b">>}
====
