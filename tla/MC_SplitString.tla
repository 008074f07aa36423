--------------------------- MODULE MC_SplitString ---------------------------
(***************************************************************************)
(* Strings of up to four characters over a letter and a comma, split at a *)
(* comma, at a double comma (which can overlap itself) and at a letter.   *)
(***************************************************************************)
EXTENDS SplitString

MC_Chars == {"a", ","}
MC_MaxLen == 4
MC_Delimiters == {<<",">>, <<",", ",">>, <<"a">>}

=============================================================================
