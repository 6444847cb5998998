------------------------------ MODULE SqlText ------------------------------
(* The text of a model's answer and of SQL, as sequences of tokens: what   *)
(* Text2SQL::extract_sql cuts out of an answer, and how SPI splits SQL     *)
(* into statements.                                                        *)
EXTENDS Integers, Sequences, FiniteSets
LOCAL INSTANCE FiniteSetsExt

CONSTANT Tables   \* tables a statement may name

(* "call" is a call of a volatile function, "prose" any other word,        *)
(* "fence" the ``` around code.                                            *)
Queries == {"SELECT", "select"}
Writes == {"INSERT", "insert", "UPDATE", "update", "DELETE", "delete"}
Others == {"call", "prose", "fence", "semicolon"}
Tokens == Queries \cup Writes \cup Tables \cup Others

ASSUME SqlTextAssumption == Tables \cap (Queries \cup Writes \cup Others) = {}

-----------------------------------------------------------------------------
(* extract_sql looks for one keyword after the other, anywhere in the      *)
(* answer, and cuts from the first it finds to the next fence; an answer   *)
(* without any is taken whole.                                             *)
Keywords == <<"SELECT", "select", "INSERT", "insert", "UPDATE", "update", "DELETE", "delete">>

Positions(text, token) == {i \in DOMAIN text : text[i] = token}
Occurring(text) == {k \in DOMAIN Keywords : Positions(text, Keywords[k]) # {}}
LastKeywordStart(text) == Max(Positions(text, Keywords[Min(Occurring(text))]))
KeywordStart(text) == Min(Positions(text, Keywords[Min(Occurring(text))]))

UpToFence(text) ==
  IF Positions(text, "fence") = {} THEN text
                                   ELSE SubSeq(text, 1, Min(Positions(text, "fence")) - 1)

extract_sql(answer) ==
  IF Occurring(answer) = {} THEN answer
  ELSE UpToFence(SubSeq(answer, KeywordStart(answer), Len(answer)))

-----------------------------------------------------------------------------
(* The statement at position i of sql, up to the next semicolon, and the   *)
(* statements SPI runs: those that are not empty.                          *)
Ends(sql) == Positions(sql, "semicolon") \cup {Len(sql) + 1}
StatementFrom(sql, i) == SubSeq(sql, i, Min({e \in Ends(sql) : e >= i}) - 1)
Starts(sql) ==
  {i \in DOMAIN sql : sql[i] # "semicolon" /\ (i = 1 \/ sql[i - 1] = "semicolon")}

Uses(statement) == {statement[i] : i \in DOMAIN statement} \cap Tables
Calls(statement) == Positions(statement, "call") # {}

Kind(statement) ==
  CASE statement[1] \in Queries
       /\ \A i \in 2..Len(statement) : statement[i] \in Tables \cup {"call"} -> "query"
    [] statement[1] \in Writes
       /\ \A i \in 2..Len(statement) : statement[i] \notin {"prose", "fence"} -> "write"
    [] OTHER -> "bad"

(* What the raw parser accepts, as it stands and after EXPLAIN.            *)
WellFormed(sql) == \A i \in Starts(sql) : Kind(StatementFrom(sql, i)) # "bad"
Explainable(sql) == WellFormed(sql) /\ 1 \in Starts(sql)
=============================================================================
