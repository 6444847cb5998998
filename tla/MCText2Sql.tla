----------------------------- MODULE MCText2Sql -----------------------------
(* Small instances of Text2Sql for TLC.                                    *)
EXTENDS Text2Sql, TLC

CONSTANTS t, u, q

Query == <<"SELECT", t, "call">>
TwoQueries == <<"select", t, "semicolon", "select", u, "call", "semicolon">>

GeneratedAnswers ==
  {Query, <<"prose", "fence">> \o TwoQueries \o <<"fence", "prose">>,
   <<"INSERT", t, "SELECT", u>>, <<"UPDATE", t>>, <<"prose">>, <<"SELECT", "prose">>, <<>>,
   <<"select", t, "fence", "SELECT">>}

CallersScripts ==
  {Query, TwoQueries, <<"SELECT", "call", "semicolon", "DELETE", t>>, <<"semicolon", "SELECT", "call">>, <<"semicolon">>}

OneQuery == {<<"SELECT", t>>}
SchemaInfo == {{t}, Malformed}
LimitOptions == {-1, 5, Malformed}
=============================================================================
