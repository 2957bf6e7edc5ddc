----------------------------- MODULE MCConsole -----------------------------
(* A screen of two rows of two, which five characters wrap, strings with a *)
(* line feed, and numbers of one, two and three digits.                    *)
EXTENDS Console

MCAlphabet == {"a", "b", LF}
MCStrings == {<<"a">>, <<"b", LF>>, <<"a", "b", "a">>}
MCColors == {<<4, 15>>}
=============================================================================
