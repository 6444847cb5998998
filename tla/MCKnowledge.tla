---------------------------- MODULE MCKnowledge ----------------------------
(* A small instance of Knowledge for TLC.                                  *)
EXTENDS Knowledge, TLC

(* Embeddings know nothing of words: the distance of a text is that of its *)
(* length from the query's.                                                *)
LengthDistance(query, text) ==
  IF Len(query) > Len(text) THEN Len(query) - Len(text) ELSE Len(text) - Len(query)

(* "L" and "T" are the two bytes of a character, "X" is upper case.        *)
LowerCase == [b \in Bytes |-> IF b = "X" THEN "x" ELSE b]

Notes ==
  {<<>>, <<"y">>, <<"X", "x", "y">>, <<"x", "L", "T">>, <<"x", "y", "percent", "x">>}
Words ==
  {<<"y">>, <<"X", "y">>, <<"x", "underscore">>, <<"backslash", "y">>, <<"y", "backslash">>}
LimitOptions == {-1, 0, 1, 2}
SizeOptions == {-1, 3}
BackendSymmetry == Permutations(Backends)
=============================================================================
