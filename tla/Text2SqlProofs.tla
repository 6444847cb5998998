--------------------------- MODULE Text2SqlProofs ---------------------------
(***************************************************************************)
(* Proofs about Text2Sql and the text it runs (SqlText): what becomes of a *)
(* model's answer, which tables the SQL can rely on, and what requests     *)
(* leave when their transactions commit.                                   *)
(***************************************************************************)
EXTENDS Text2Sql, FiniteSetTheorems, SequenceTheorems, WellFoundedInduction, TLAPS
LOCAL INSTANCE FiniteSetsExt

-----------------------------------------------------------------------------
(* The inductive invariant.                                                *)

Live == kept \cup txn
Left(i) == {<<e.at, e.pass>> : e \in {e \in effects : e.id = i /\ e.what = "query"}}
Filed(i) == {r.in : r \in {r \in records : r.id = i}}
Calling(s) == {i \in Starts(s) : Calls(StatementFrom(s, i))}
Lasting(s) == Calling(s) \X {1} \cup (Calling(s) \ {1}) \X {2}

(* A request in progress is of the open transaction and has no outcome yet. *)
Requests ==
  /\ kept \cap txn = {} /\ Live \subseteq 1..id
  /\ \A o \in outcomes : o.id <= id
  /\ \A e \in effects : e.id \in Live /\ e.what = "query"
  /\ \A r \in records : r.id \in Live
  /\ pc # "idle" => id \in txn /\ \A o \in outcomes : o.id # id

(* Tables that were sampled are locked until the request ends.             *)
Prompts ==
  /\ pc \in {"retrieve", "sample", "run"} => schema \ unsampled \subseteq locked
  /\ pc = "run" => unsampled = {}

(* What has run was a query, and holds its tables for the second pass.     *)
Ran ==
  pc = "run" => \A i \in Starts(sql) : i < position \/ pass = 2 =>
    Uses(StatementFrom(sql, i)) \subseteq locked /\ Kind(StatementFrom(sql, i)) = "query"

(* The request has left what the statements that ran have left ...         *)
Wrote ==
  /\ pc \in {"model", "schema", "retrieve", "sample"} => Left(id) = {} /\ pass = 1 /\ position = 1
  /\ pc = "run" /\ pass = 1 => Left(id) = {i \in Calling(sql) : i < position} \X {1}
  /\ pc = "run" /\ pass = 2 =>
       Left(id) = Calling(sql) \X {1} \cup {i \in Calling(sql) \ {1} : i < position} \X {2}
  /\ pc \in {"report", "audit", "trace", "done"} => Left(id) = Lasting(sql)

ReportRow(e) == IF e = "report" THEN {"reports"} ELSE {}
AuditRow == IF AuditEnabled THEN {"audit"} ELSE {}
TraceRow == IF TraceEnabled THEN {"trace"} ELSE {}

(* ... and the rows of the functions that returned.                        *)
Recorded ==
  /\ pc \in {"model", "schema", "retrieve", "sample", "run", "report"} => Filed(id) = {}
  /\ pc = "report" => event = "report"
  /\ pc = "audit" => Filed(id) = ReportRow(event)
  /\ pc = "trace" => Filed(id) = ReportRow(event) \cup AuditRow
  /\ pc = "done" => Filed(id) = ReportRow(event) \cup AuditRow \cup TraceRow

(* So do the requests that have ended.                                     *)
Stood ==
  \A o \in outcomes : o.id \in Live =>
    /\ o.end = "answer"
    /\ Left(o.id) = Lasting(o.sql)
    /\ Filed(o.id) = ReportRow(o.event) \cup AuditRow \cup TraceRow

Extracted == answer = <<>> \/ sql = extract_sql(answer)

PipelineInv ==
  /\ TypeOK /\ Requests /\ Prompts /\ Ran /\ Wrote /\ Recorded
  /\ Stood /\ PromptIsReliable /\ Extracted

-----------------------------------------------------------------------------
(* Smallest numbers.                                                       *)

LEMMA MinIsSmallest ==
  ASSUME NEW T, T \subseteq Nat, T # {}
  PROVE  Min(T) \in T /\ \A x \in T : Min(T) <= x
<1> DEFINE R == OpToRel(<, Nat)
<1>1. IsWellFoundedOn(R, Nat)
  BY NatLessThanWellFounded, Zenon
<1>2. \A x, y \in T : y < x => <<y, x>> \in R
  <2> SUFFICES ASSUME NEW x \in T, NEW y \in T, y < x PROVE <<y, x>> \in R
    OBVIOUS
  <2>1. <<y, x>> \in Nat \X Nat /\ <<y, x>>[1] < <<y, x>>[2]
    OBVIOUS
  <2> QED BY <2>1, Zenon DEF OpToRel
<1> HIDE DEF R
<1>3. PICK x \in T : \A y \in T : <<y, x>> \notin R
  BY <1>1, WFMin, Zenon
<1>4. \A y \in T : ~(y < x)
  BY <1>2, <1>3, Zenon
<1>5. \A y \in T : x <= y
  BY <1>4
<1> QED BY <1>5, Zenon DEF Min

LEMMA MinIs ==
  ASSUME NEW T, T \subseteq Nat, NEW m \in T, \A x \in T : m <= x
  PROVE  Min(T) = m
<1>1. PICK n : n = Min(T)
  OBVIOUS
<1>2. n \in T /\ \A x \in T : n <= x
  BY <1>1, MinIsSmallest
<1>3. n \in Nat /\ m \in Nat /\ n <= m /\ m <= n
  BY <1>2
<1> QED BY <1>1, <1>3

-----------------------------------------------------------------------------
(* Statements.                                                             *)

LEMMA PositionsIn ==
  ASSUME NEW s \in Seq(Tokens), NEW token
  PROVE  /\ Positions(s, token) = {i \in 1..Len(s) : s[i] = token}
         /\ Positions(s, token) \subseteq 1..Len(s) /\ Positions(s, token) \subseteq Nat
<1>1. DOMAIN s = 1..Len(s) /\ Len(s) \in Nat
  BY LenProperties
<1>2. Positions(s, token) = {i \in 1..Len(s) : s[i] = token}
  BY <1>1, Zenon DEF Positions
<1> QED BY <1>1, <1>2

LEMMA StartsIn ==
  ASSUME NEW s \in Seq(Tokens)
  PROVE  /\ Starts(s) = {i \in 1..Len(s) : s[i] # "semicolon" /\ (i = 1 \/ s[i - 1] = "semicolon")}
         /\ Starts(s) \subseteq 1..Len(s) /\ Starts(s) \subseteq Nat
<1>1. DOMAIN s = 1..Len(s) /\ Len(s) \in Nat
  BY LenProperties
<1>2. Starts(s) = {i \in 1..Len(s) : s[i] # "semicolon" /\ (i = 1 \/ s[i - 1] = "semicolon")}
  BY <1>1, Zenon DEF Starts
<1> QED BY <1>1, <1>2

LEMMA PartOfText ==
  ASSUME NEW s \in Seq(Tokens), NEW m \in Nat \ {0}, NEW n \in Nat, n <= Len(s)
  PROVE  /\ SubSeq(s, m, n) \in Seq(Tokens)
         /\ Len(SubSeq(s, m, n)) = IF m <= n THEN n - m + 1 ELSE 0
         /\ \A i \in 1..Len(SubSeq(s, m, n)) : SubSeq(s, m, n)[i] = s[m + i - 1]
<1>1. \A i \in m..n : s[i] \in Tokens
  OBVIOUS
<1>2. /\ SubSeq(s, m, n) \in Seq(Tokens)
      /\ Len(SubSeq(s, m, n)) = IF m <= n THEN n - m + 1 ELSE 0
      /\ \A i \in 1..(n - m + 1) : SubSeq(s, m, n)[i] = s[m + i - 1]
  BY <1>1, SubSeqProperties
<1> QED BY <1>2

(* A statement goes up to the semicolon or the end, and has none inside.   *)
LEMMA StatementFacts ==
  ASSUME NEW s \in Seq(Tokens), NEW i \in Starts(s)
  PROVE  \E e \in (i + 1)..(Len(s) + 1) :
           /\ e = Len(s) + 1 \/ s[e] = "semicolon"
           /\ StatementFrom(s, i) = SubSeq(s, i, e - 1)
           /\ StatementFrom(s, i) \in Seq(Tokens) /\ Len(StatementFrom(s, i)) = e - i
           /\ \A k \in 1..(e - i) : StatementFrom(s, i)[k] = s[i + k - 1]
           /\ \A k \in i..(e - 1) : s[k] # "semicolon"
<1> DEFINE T == {e \in Ends(s) : e >= i}
           l == Len(s)
<1>1. i \in 1..l /\ s[i] # "semicolon" /\ l \in Nat
  BY StartsIn, LenProperties
<1>2. Ends(s) = Positions(s, "semicolon") \cup {l + 1} /\ Positions(s, "semicolon") \subseteq 1..l
  BY PositionsIn DEF Ends
<1>3. T \subseteq Nat /\ l + 1 \in T
  BY <1>1, <1>2
<1>4. PICK e : e = Min(T)
  OBVIOUS
<1>5. e \in T /\ \A x \in T : e <= x
  <2> HIDE DEF T
  <2> QED BY <1>3, <1>4, MinIsSmallest
<1>6. e \in (i + 1)..(l + 1)
  <2>1. e # i
    BY <1>1, <1>2, <1>5, PositionsIn
  <2> QED BY <1>1, <1>2, <1>5, <2>1
<1>7. e = l + 1 \/ s[e] = "semicolon"
  BY <1>2, <1>5, PositionsIn
<1>8. \A k \in i..(e - 1) : s[k] # "semicolon"
  <2> SUFFICES ASSUME NEW k \in i..(e - 1), s[k] = "semicolon" PROVE FALSE
    OBVIOUS
  <2>1. k \in 1..l
    BY <1>1, <1>6
  <2>2. k \in T
    BY <1>1, <1>2, <2>1, PositionsIn
  <2> QED BY <1>1, <1>5, <1>6, <2>2
<1>9. StatementFrom(s, i) = SubSeq(s, i, e - 1)
  BY <1>4 DEF StatementFrom
<1> HIDE DEF T
<1>10. /\ SubSeq(s, i, e - 1) \in Seq(Tokens)
       /\ Len(SubSeq(s, i, e - 1)) = e - i
       /\ \A k \in 1..(e - i) : SubSeq(s, i, e - 1)[k] = s[i + k - 1]
  <2>1. i \in Nat \ {0} /\ e - 1 \in Nat /\ e - 1 <= Len(s) /\ i <= e - 1
    BY <1>1, <1>6
  <2>2. /\ SubSeq(s, i, e - 1) \in Seq(Tokens)
        /\ Len(SubSeq(s, i, e - 1)) = (e - 1) - i + 1
        /\ \A k \in 1..Len(SubSeq(s, i, e - 1)) : SubSeq(s, i, e - 1)[k] = s[i + k - 1]
    BY <2>1, PartOfText
  <2>3. (e - 1) - i + 1 = e - i
    BY <2>1, <1>6
  <2> QED BY <2>2, <2>3
<1> QED BY <1>6, <1>7, <1>8, <1>9, <1>10

LEMMA NextStatement ==
  ASSUME NEW s \in Seq(Tokens), NEW i \in Starts(s), NEW j \in Starts(s), i < j
  PROVE  i + Len(StatementFrom(s, i)) <= j
<1>1. PICK e \in (i + 1)..(Len(s) + 1) :
        /\ Len(StatementFrom(s, i)) = e - i
        /\ \A k \in i..(e - 1) : s[k] # "semicolon"
  BY StatementFacts
<1>2. i \in 1..Len(s) /\ j \in 1..Len(s) /\ s[j - 1] = "semicolon"
  BY StartsIn
<1>3. ~(j < e)
  <2> SUFFICES ASSUME j < e PROVE FALSE
    OBVIOUS
  <2>1. j - 1 \in i..(e - 1)
    BY <1>1, <1>2
  <2> QED BY <1>1, <1>2, <2>1
<1>4. i + Len(StatementFrom(s, i)) = e
  BY <1>1, <1>2
<1> QED BY <1>1, <1>2, <1>3, <1>4

LEMMA TablesOfStatement ==
  ASSUME NEW s \in Seq(Tokens), NEW i \in Starts(s), NEW x \in Uses(StatementFrom(s, i))
  PROVE  x \in Tables /\ Positions(s, x) # {}
<1>1. PICK e \in (i + 1)..(Len(s) + 1) :
        /\ Len(StatementFrom(s, i)) = e - i /\ StatementFrom(s, i) \in Seq(Tokens)
        /\ \A k \in 1..(e - i) : StatementFrom(s, i)[k] = s[i + k - 1]
  BY StatementFacts
<1>2. i \in 1..Len(s)
  BY StartsIn
<1>3. PICK k \in 1..(e - i) : x = StatementFrom(s, i)[k]
  BY <1>1, LenProperties DEF Uses
<1>4. i + k - 1 \in 1..Len(s) /\ x = s[i + k - 1]
  BY <1>1, <1>2, <1>3
<1> QED BY <1>4, PositionsIn DEF Uses

LEMMA KindsOfStatements ==
  ASSUME NEW statement
  PROVE  Kind(statement) \in {"query", "write", "bad"}
BY Zenon DEF Kind

LEMMA QueryText ==
  ASSUME NEW statement, Kind(statement) = "query"
  PROVE  /\ statement[1] \in Queries
         /\ \A i \in 2..Len(statement) : statement[i] \in Tables \cup {"call"}
BY Zenon DEF Kind

-----------------------------------------------------------------------------
(* What extract_sql cuts out.                                              *)

LEMMA OccurringIn ==
  ASSUME NEW s \in Seq(Tokens)
  PROVE  /\ Occurring(s) \subseteq Nat
         /\ \A k \in Occurring(s) : Positions(s, Keywords[k]) # {}
         /\ 1 \in Occurring(s) <=> Positions(s, "SELECT") # {}
         /\ 2 \in Occurring(s) <=> Positions(s, "select") # {}
         /\ \A k \in Occurring(s) : k = 1 \/ 2 <= k
<1>1. DOMAIN Keywords = 1..8 /\ Keywords[1] = "SELECT" /\ Keywords[2] = "select"
  BY DEF Keywords
<1>2. Occurring(s) = {k \in 1..8 : Positions(s, Keywords[k]) # {}}
  BY <1>1 DEF Occurring
<1> QED BY <1>1, <1>2

LEMMA ExtractedIsText ==
  ASSUME NEW a \in Seq(Tokens)
  PROVE  extract_sql(a) \in Seq(Tokens)
<1>1. CASE Occurring(a) = {}
  BY <1>1 DEF extract_sql
<1>2. CASE Occurring(a) # {}
  <2>1. Min(Occurring(a)) \in Occurring(a)
    BY <1>2, OccurringIn, MinIsSmallest
  <2>2. PICK P : P = Positions(a, Keywords[Min(Occurring(a))])
    OBVIOUS
  <2>3. P # {} /\ P \subseteq 1..Len(a) /\ P \subseteq Nat
    BY <2>1, <2>2, OccurringIn, PositionsIn
  <2>4. KeywordStart(a) \in 1..Len(a)
    BY <2>2, <2>3, MinIsSmallest DEF KeywordStart
  <2>5. PICK b : b = SubSeq(a, KeywordStart(a), Len(a))
    OBVIOUS
  <2>6. b \in Seq(Tokens)
    <3>1. KeywordStart(a) \in Nat \ {0} /\ Len(a) \in Nat
      BY <2>4
    <3> QED BY <2>5, <3>1, PartOfText
  <2>7. UpToFence(b) \in Seq(Tokens)
    <3>1. CASE Positions(b, "fence") = {}
      BY <2>6, <3>1 DEF UpToFence
    <3>2. CASE Positions(b, "fence") # {}
      <4>1. PICK m : m = Min(Positions(b, "fence"))
        OBVIOUS
      <4>2. m \in 1..Len(b)
        BY <2>6, <3>2, <4>1, PositionsIn, MinIsSmallest
      <4>3. 1 \in Nat \ {0} /\ m - 1 \in Nat /\ m - 1 <= Len(b)
        BY <4>2
      <4>4. SubSeq(b, 1, m - 1) \in Seq(Tokens)
        BY <2>6, <4>3, PartOfText
      <4> QED BY <3>2, <4>1, <4>4 DEF UpToFence
    <3> QED BY <3>1, <3>2
  <2> QED BY <1>2, <2>5, <2>7 DEF extract_sql
<1> QED BY <1>1, <1>2

(* Every token but a semicolon is of a statement.                          *)
LEMMA OfSomeStatement ==
  ASSUME NEW q \in Seq(Tokens), NEW k \in 1..Len(q), q[k] # "semicolon"
  PROVE  \E i \in Starts(q) :
           /\ i <= k /\ k - i + 1 \in 1..Len(StatementFrom(q, i))
           /\ StatementFrom(q, i)[k - i + 1] = q[k]
<1> DEFINE T == {n \in 0..(k - 1) : n = k - 1 \/ q[k - n - 1] = "semicolon"}
<1>1. k \in Nat \ {0} /\ Len(q) \in Nat /\ k <= Len(q)
  OBVIOUS
<1>2. T \subseteq Nat /\ k - 1 \in T
  BY <1>1
<1>3. PICK n \in T : \A m \in T : n <= m
  <2> HIDE DEF T
  <2> QED BY <1>2, MinIsSmallest
<1>4. PICK i : i = k - n
  OBVIOUS
<1>5. i \in 1..k /\ (i = 1 \/ q[i - 1] = "semicolon") /\ n = k - i
  <2>1. n \in 0..(k - 1) /\ (n = k - 1 \/ q[k - n - 1] = "semicolon")
    OBVIOUS
  <2>2. k - n - 1 = i - 1
    BY <1>1, <1>4, <2>1
  <2> QED BY <1>1, <1>4, <2>1, <2>2
<1>6. \A r \in i..k : q[r] # "semicolon"
  <2> SUFFICES ASSUME NEW r \in i..k, q[r] = "semicolon" PROVE FALSE
    OBVIOUS
  <2>1. r < k /\ r \in Nat
    BY <1>1, <1>5
  <2>2. PICK m : m = k - r - 1
    OBVIOUS
  <2>3. m \in 0..(k - 1) /\ k - m - 1 = r
    BY <1>1, <1>5, <2>1, <2>2
  <2>4. m \in T
    BY <2>3
  <2> QED BY <1>1, <1>3, <1>5, <2>1, <2>2, <2>4
<1>7. i \in Starts(q)
  BY <1>1, <1>5, <1>6, StartsIn
<1>8. PICK e \in (i + 1)..(Len(q) + 1) :
        /\ e = Len(q) + 1 \/ q[e] = "semicolon"
        /\ Len(StatementFrom(q, i)) = e - i
        /\ \A x \in 1..(e - i) : StatementFrom(q, i)[x] = q[i + x - 1]
  BY <1>7, StatementFacts
<1>9. k < e
  BY <1>1, <1>5, <1>6, <1>8
<1>10. k - i + 1 \in 1..(e - i) /\ i + (k - i + 1) - 1 = k
  BY <1>1, <1>5, <1>8, <1>9
<1> QED BY <1>5, <1>7, <1>8, <1>10

LEMMA NoFenceInQueries ==
  ASSUME NEW q \in Seq(Tokens), \A i \in Starts(q) : Kind(StatementFrom(q, i)) = "query"
  PROVE  Positions(q, "fence") = {}
<1> SUFFICES ASSUME NEW k \in 1..Len(q), q[k] = "fence" PROVE FALSE
  BY PositionsIn
<1>1. q[k] # "semicolon"
  OBVIOUS
<1>2. PICK i \in Starts(q) :
        /\ i <= k /\ k - i + 1 \in 1..Len(StatementFrom(q, i))
        /\ StatementFrom(q, i)[k - i + 1] = q[k]
  BY <1>1, OfSomeStatement
<1>3. PICK s : s = StatementFrom(q, i)
  OBVIOUS
<1>4. PICK n : n = k - i + 1
  OBVIOUS
<1>5. /\ s[1] \in Queries
      /\ \A x \in 2..Len(s) : s[x] \in Tables \cup {"call"}
  BY <1>2, <1>3, QueryText
<1>6. n \in 1..Len(s) /\ s[n] = "fence"
  BY <1>2, <1>3, <1>4
<1>7. s[n] \in Queries \/ s[n] \in Tables \/ s[n] = "call"
  BY <1>5, <1>6
<1> QED BY <1>6, <1>7, SqlTextAssumption DEF Queries, Others

LEMMA QueriesExtracted ==
  ASSUME NEW a \in Seq(Tokens), NEW i \in 1..Len(a), NEW j \in 1..Len(a), i <= j,
         \/ a[i] = "SELECT"
         \/ a[i] = "select" /\ Positions(a, "SELECT") = {},
         \A k \in Starts(SubSeq(a, i, j)) : Kind(StatementFrom(SubSeq(a, i, j), k)) = "query",
         Occurring(SubSeq(a, 1, i - 1)) = {},
         j = Len(a) \/ a[j + 1] = "fence"
  PROVE  extract_sql(a) = SubSeq(a, i, j)
<1> DEFINE q == SubSeq(a, i, j)
           l == Len(a)
<1>1. i \in Nat \ {0} /\ j \in Nat /\ j <= l /\ l \in Nat
  OBVIOUS
<1>2. q \in Seq(Tokens) /\ Len(q) = j - i + 1 /\ \A x \in 1..(j - i + 1) : q[x] = a[i + x - 1]
  BY <1>1, PartOfText
<1>3. PICK n \in {1, 2} : Keywords[n] = a[i] /\ Min(Occurring(a)) = n /\ n \in Occurring(a)
  <2>1. Keywords[1] = "SELECT" /\ Keywords[2] = "select"
    BY DEF Keywords
  <2>2. Positions(a, a[i]) # {}
    BY PositionsIn
  <2>3. CASE a[i] = "SELECT"
    <3>1. 1 \in Occurring(a) /\ \A k \in Occurring(a) : 1 <= k
      BY <2>2, <2>3, OccurringIn
    <3>2. Min(Occurring(a)) = 1
      BY <3>1, OccurringIn, MinIs
    <3> QED BY <2>1, <2>3, <3>1, <3>2
  <2>4. CASE a[i] = "select" /\ Positions(a, "SELECT") = {}
    <3>1. 2 \in Occurring(a) /\ 1 \notin Occurring(a)
      BY <2>2, <2>4, OccurringIn
    <3>2. \A k \in Occurring(a) : 2 <= k
      BY <3>1, OccurringIn
    <3>3. Min(Occurring(a)) = 2
      BY <3>1, <3>2, OccurringIn, MinIs
    <3> QED BY <2>1, <2>4, <3>1, <3>3
  <2> QED BY <2>3, <2>4
<1>4. KeywordStart(a) = i
  <2> DEFINE P == Positions(a, a[i])
  <2>1. P \subseteq Nat /\ i \in P /\ P = {x \in 1..l : a[x] = a[i]}
    BY PositionsIn
  <2>2. \A x \in P : i <= x
    <3> SUFFICES ASSUME NEW x \in 1..(i - 1), a[x] = a[i] PROVE FALSE
      BY <1>1, <2>1
    <3> DEFINE before == SubSeq(a, 1, i - 1)
    <3>1. before \in Seq(Tokens) /\ Len(before) = i - 1 /\ \A y \in 1..(i - 1) : before[y] = a[y]
      <4>1. 1 \in Nat \ {0} /\ i - 1 \in Nat /\ i - 1 <= l /\ 1 <= i - 1
        BY <1>1
      <4>2. /\ before \in Seq(Tokens)
            /\ Len(before) = IF 1 <= i - 1 THEN (i - 1) - 1 + 1 ELSE 0
            /\ \A y \in 1..Len(before) : before[y] = a[1 + y - 1]
        BY <4>1, PartOfText
      <4>3. Len(before) = i - 1
        BY <1>1, <4>1, <4>2
      <4>4. \A y \in 1..(i - 1) : 1 + y - 1 = y
        BY <1>1
      <4> HIDE DEF before
      <4> QED BY <4>2, <4>3, <4>4
    <3> HIDE DEF before
    <3>2. Positions(before, a[i]) # {}
      <4>1. x \in 1..Len(before) /\ before[x] = a[i]
        BY <3>1
      <4>2. Positions(before, a[i]) = {y \in 1..Len(before) : before[y] = a[i]}
        BY <3>1, PositionsIn
      <4> QED BY <4>1, <4>2
    <3>3. a[i] = "SELECT" \/ a[i] = "select"
      OBVIOUS
    <3>4. Occurring(before) # {}
      BY <3>1, <3>2, <3>3, OccurringIn
    <3> QED BY <3>4 DEF before
  <2> HIDE DEF P
  <2>3. Min(P) = i
    BY <2>1, <2>2, MinIs
  <2> QED BY <1>3, <2>3 DEF P, KeywordStart
<1>5. Positions(q, "fence") = {}
  BY <1>2, NoFenceInQueries
<1> DEFINE r == SubSeq(a, i, l)
<1>6. r \in Seq(Tokens) /\ Len(r) = l - i + 1 /\ \A x \in 1..(l - i + 1) : r[x] = a[i + x - 1]
  BY <1>1, PartOfText
<1>7. extract_sql(a) = UpToFence(r)
  BY <1>3, <1>4 DEF extract_sql
<1>8. \A x \in 1..(j - i + 1) : r[x] = q[x] /\ r[x] # "fence"
  <2> HIDE DEF q, r, l
  <2>1. Positions(q, "fence") = {x \in 1..Len(q) : q[x] = "fence"}
    BY <1>2, PositionsIn
  <2>2. \A x \in 1..(j - i + 1) : x \in 1..(l - i + 1) /\ x \in 1..Len(q)
    BY <1>1, <1>2
  <2> QED BY <1>2, <1>5, <1>6, <2>1, <2>2
<1>9. CASE j = l
  <2>1. r = q
    BY <1>9
  <2> QED BY <1>5, <1>7, <2>1 DEF UpToFence
<1>10. CASE j # l
  <2>1. a[j + 1] = "fence" /\ j + 1 <= l
    BY <1>1, <1>10
  <2> DEFINE m == j - i + 2
             P == Positions(r, "fence")
  <2>2. m \in 1..(l - i + 1) /\ i + m - 1 = j + 1 /\ m - 1 = j - i + 1 /\ m - 1 \in Nat
    <3> HIDE DEF l
    <3> QED BY <1>1, <2>1
  <2> HIDE DEF m, q, r
  <2>3. P = {x \in 1..Len(r) : r[x] = "fence"} /\ P \subseteq Nat
    BY <1>6, PositionsIn
  <2> HIDE DEF P
  <2>4. r[m] = "fence"
    BY <1>6, <2>1, <2>2
  <2>5. m \in P
    BY <1>6, <2>2, <2>3, <2>4
  <2>6. \A x \in P : m <= x
    <3> SUFFICES ASSUME NEW x \in P, x < m PROVE FALSE
      BY <2>2, <2>3
    <3>1. x \in 1..(j - i + 1)
      <4> HIDE DEF l
      <4> QED BY <2>2, <2>3
    <3> QED BY <1>8, <2>3, <3>1
  <2>7. Min(P) = m
    BY <2>3, <2>5, <2>6, MinIs
  <2>8. UpToFence(r) = SubSeq(r, 1, m - 1)
    BY <2>5, <2>7 DEF UpToFence, P
  <2>9. SubSeq(r, 1, m - 1) = q
    <3> DEFINE f == SubSeq(r, 1, m - 1)
    <3>1. 1 \in Nat \ {0} /\ m - 1 \in Nat /\ m - 1 <= Len(r) /\ 1 <= m - 1
      <4> HIDE DEF l
      <4> QED BY <1>1, <1>6, <2>2
    <3>2. /\ f \in Seq(Tokens) /\ Len(f) = (m - 1) - 1 + 1
          /\ \A x \in 1..Len(f) : f[x] = r[1 + x - 1]
      BY <1>6, <3>1, PartOfText
    <3>3. (m - 1) - 1 + 1 = m - 1 /\ \A x \in 1..(m - 1) : 1 + x - 1 = x
      BY <2>2
    <3> HIDE DEF f
    <3>4. Len(f) = Len(q) /\ \A x \in 1..Len(f) : f[x] = q[x]
      <4>1. Len(f) = m - 1
        BY <3>2, <3>3
      <4>2. \A x \in 1..(m - 1) : f[x] = r[x]
        BY <3>2, <3>3, <4>1
      <4> QED BY <1>2, <1>8, <2>2, <4>1, <4>2
    <3>5. f = q
      BY <1>2, <3>2, <3>4, SeqEqual
    <3> QED BY <3>5 DEF f
  <2> QED BY <1>7, <2>8, <2>9 DEF q
<1> QED BY <1>9, <1>10

-----------------------------------------------------------------------------
(* The steps.                                                              *)

LEMMA InProgress ==
  ASSUME PipelineInv, pc # "idle"
  PROVE  /\ id \in txn /\ id \in Live /\ id \notin kept /\ id \in Ids
         /\ \A o \in outcomes : o.id # id
         /\ sql \in Seq(Tokens) /\ pass \in {1, 2} /\ position \in Nat
BY DEF PipelineInv, TypeOK, Requests, Live, Ids

(* What is stored is the same: so are the rows and effects of each request. *)
LEMMA SameStored ==
  ASSUME UNCHANGED <<effects, records>>
  PROVE  \A i : Left(i)' = Left(i) /\ Filed(i)' = Filed(i)
BY DEF Left, Filed

LEMMA OutcomeTyped ==
  ASSUME PipelineInv, pc # "idle", NEW end \in {"answer", "error", "missing", "restart"}
  PROVE  Outcome(end) \in Outcomes
BY InProgress DEF Outcome, Outcomes, PipelineInv, TypeOK, Events

(* An abort takes away all that the open transaction has left.             *)
LEMMA AbortLeaves ==
  ASSUME PipelineInv, Abort
  PROVE  /\ Live' = kept /\ kept' \cap txn' = {}
         /\ \A i \in kept : Left(i)' = Left(i) /\ Filed(i)' = Filed(i)
         /\ effects' \subseteq effects /\ records' \subseteq records
         /\ \A e \in effects' : e.id \in Live' /\ e.what = "query"
         /\ \A r \in records' : r.id \in Live'
         /\ locked' = {} /\ txn' = {} /\ kept' = kept
<1>1. /\ effects' = {e \in effects : e.id \notin txn}
      /\ records' = {r \in records : r.id \notin txn}
      /\ locked' = {} /\ txn' = {} /\ kept' = kept
  BY DEF Abort
<1>2. /\ kept \cap txn = {}
      /\ \A e \in effects : e.id \in kept \cup txn /\ e.what = "query"
      /\ \A r \in records : r.id \in kept \cup txn
  BY DEF PipelineInv, Requests, Live
<1>3. ASSUME NEW i \in kept PROVE Left(i)' = Left(i) /\ Filed(i)' = Filed(i)
  <2>1. \A e \in effects : e.id = i => e \in effects'
    BY <1>1, <1>2
  <2>2. \A r \in records : r.id = i => r \in records'
    BY <1>1, <1>2
  <2> QED BY <1>1, <2>1, <2>2 DEF Left, Filed
<1> QED BY <1>1, <1>2, <1>3 DEF Live

LEMMA FailKeeps ==
  ASSUME PipelineInv, pc # "idle", NEW end \in {"error", "missing", "restart"}, Fail(end),
         end = "missing" =>
           /\ pass = 1
           /\ event = "text2sql" => \E t \in Tables \ schema : Positions(sql, t) # {}
  PROVE  PipelineInv'
<1>1. /\ pc' = "idle" /\ Abort
      /\ outcomes' = outcomes \cup {Outcome(end)}
      /\ UNCHANGED <<existing, id, event, snapshot, given, limit, schema, unsampled, answer, sql,
                     pass, position, explain>>
  BY DEF Fail, GoTo, arguments, prompt, text, run
<1>2. /\ Live' = kept /\ kept' \cap txn' = {}
      /\ \A i \in kept : Left(i)' = Left(i) /\ Filed(i)' = Filed(i)
      /\ effects' \subseteq effects /\ records' \subseteq records
      /\ \A e \in effects' : e.id \in Live' /\ e.what = "query"
      /\ \A r \in records' : r.id \in Live'
      /\ locked' = {} /\ txn' = {} /\ kept' = kept
  BY <1>1, AbortLeaves
<1>3. id \notin kept /\ Outcome(end) \in Outcomes /\ id \in Ids
  BY InProgress, OutcomeTyped
<1>4. /\ Outcome(end).id = id /\ Outcome(end).end = end /\ Outcome(end).pass = pass
      /\ Outcome(end).event = event /\ Outcome(end).prompt = schema /\ Outcome(end).sql = sql
  BY DEF Outcome
<1>5. TypeOK'
  BY <1>1, <1>2, <1>3 DEF PipelineInv, TypeOK, Places
<1>6. Requests'
  <2>1. Live' \subseteq 1..id'
    BY <1>1, <1>2 DEF PipelineInv, Requests, Live
  <2>2. \A o \in outcomes' : o.id <= id'
    BY <1>1, <1>3, <1>4 DEF PipelineInv, Requests, Ids
  <2> QED BY <1>1, <1>2, <2>1, <2>2 DEF Requests
<1>7. Prompts' /\ Ran' /\ Wrote' /\ Recorded'
  BY <1>1 DEF Prompts, Ran, Wrote, Recorded
<1>8. Stood'
  <2> SUFFICES ASSUME NEW o \in outcomes', o.id \in kept
               PROVE  /\ o.end = "answer"
                      /\ Left(o.id)' = Lasting(o.sql)
                      /\ Filed(o.id)' = ReportRow(o.event) \cup AuditRow \cup TraceRow
    BY <1>2 DEF Stood
  <2>1. o \in outcomes
    BY <1>1, <1>3, <1>4
  <2>2. /\ o.end = "answer"
        /\ Left(o.id) = Lasting(o.sql)
        /\ Filed(o.id) = ReportRow(o.event) \cup AuditRow \cup TraceRow
    BY <2>1 DEF PipelineInv, Stood, Live
  <2> QED BY <1>2, <2>2
<1>9. PromptIsReliable'
  BY <1>1, <1>4 DEF PipelineInv, PromptIsReliable
<1>10. Extracted'
  BY <1>1 DEF PipelineInv, Extracted
<1> QED BY <1>5, <1>6, <1>7, <1>8, <1>9, <1>10 DEF PipelineInv

LEMMA StartKeeps ==
  ASSUME PipelineInv, NEW e \in Events, NEW place \in {"model", "run"}, NEW s \in Seq(Tokens),
         NEW g \in Given \cup {NoSchemaInfo}, NEW n \in Limits \cup {0}, Start(e, place, s, g, n)
  PROVE  PipelineInv'
<1>1. /\ pc = "idle" /\ id < MaxRequests
      /\ id' = id + 1 /\ event' = e /\ snapshot' = existing /\ given' = g /\ limit' = n
      /\ answer' = <<>> /\ sql' = s /\ schema' = {} /\ unsampled' = {}
      /\ pass' = 1 /\ position' = 1 /\ explain' = "none"
      /\ txn' = txn \cup {id + 1} /\ pc' = place
      /\ UNCHANGED <<existing, locked, effects, records, kept, outcomes>>
  BY DEF Start, GoTo, stored
<1>2. id \in 0..MaxRequests /\ MaxRequests \in Nat /\ Live \subseteq 1..id
  BY Text2SqlAssumption DEF PipelineInv, TypeOK, Requests
<1>3. id + 1 \in Ids /\ id + 1 \notin Live /\ Live' = Live \cup {id + 1}
  BY <1>1, <1>2 DEF Ids, Live
<1>4. \A i : Left(i)' = Left(i) /\ Filed(i)' = Filed(i)
  BY <1>1, SameStored
<1>5. Left(id') = {} /\ Filed(id') = {}
  <2>1. \A x \in effects : x.id # id + 1
    BY <1>3 DEF PipelineInv, Requests
  <2>2. \A x \in records : x.id # id + 1
    BY <1>3 DEF PipelineInv, Requests
  <2> QED BY <1>1, <2>1, <2>2 DEF Left, Filed
<1>6. TypeOK'
  <2>1. id' \in 0..MaxRequests /\ pc' \in Places /\ answer' \in Seq(Tokens)
    BY <1>1, <1>2 DEF Places
  <2>2. txn' \subseteq Ids /\ kept' \subseteq Ids
    BY <1>1, <1>3 DEF PipelineInv, TypeOK
  <2> QED BY <1>1, <2>1, <2>2 DEF PipelineInv, TypeOK
<1>7. \A o \in outcomes : o.id <= id /\ o.id \in Int
  BY DEF PipelineInv, Requests, TypeOK, Outcomes, Ids
<1>8. Requests'
  <2>1. kept' \cap txn' = {}
    BY <1>1, <1>3 DEF PipelineInv, Requests, Live
  <2>2. Live' \subseteq 1..id'
    BY <1>1, <1>2, <1>3
  <2>3. \A o \in outcomes' : o.id <= id' /\ o.id # id'
    BY <1>1, <1>2, <1>7
  <2>4. /\ \A x \in effects' : x.id \in Live' /\ x.what = "query"
        /\ \A x \in records' : x.id \in Live'
    BY <1>1, <1>3 DEF PipelineInv, Requests
  <2>5. id' \in txn'
    BY <1>1
  <2> QED BY <2>1, <2>2, <2>3, <2>4, <2>5 DEF Requests
<1>9. Prompts'
  BY <1>1 DEF Prompts
<1>10. Ran'
  <2>1. \A i \in Starts(s) : ~(i < 1)
    BY StartsIn
  <2> QED BY <1>1, <2>1 DEF Ran
<1>11. Left(id)' = {} /\ Filed(id)' = {}
  <2>1. Left(id)' = Left(id') /\ Filed(id)' = Filed(id')
    BY <1>1 DEF Left, Filed
  <2> QED BY <1>5, <2>1
<1>12. Wrote'
  <2>1. {i \in Calling(s) : i < 1} \X {1} = {}
    BY StartsIn DEF Calling
  <2> QED BY <1>1, <1>11, <2>1 DEF Wrote
<1>13. Recorded'
  BY <1>1, <1>11 DEF Recorded
<1>14. Stood'
  <2> SUFFICES ASSUME NEW o \in outcomes, o.id \in Live'
               PROVE  /\ o.end = "answer"
                      /\ Left(o.id)' = Lasting(o.sql)
                      /\ Filed(o.id)' = ReportRow(o.event) \cup AuditRow \cup TraceRow
    BY <1>1 DEF Stood
  <2>1. o.id \in Live
    BY <1>2, <1>3, <1>7
  <2> QED BY <1>4, <2>1 DEF PipelineInv, Stood
<1>15. PromptIsReliable' /\ Extracted'
  BY <1>1 DEF PipelineInv, PromptIsReliable, Extracted
<1> QED BY <1>6, <1>8, <1>9, <1>10, <1>12, <1>13, <1>14, <1>15 DEF PipelineInv

(* A request that goes on, and leaves only what is its own.                *)
LEMMA GoesOn ==
  ASSUME PipelineInv, pc # "idle", UNCHANGED <<id, txn, kept, outcomes>>,
         effects \subseteq effects', records \subseteq records',
         \A e \in effects' \ effects : e.id = id /\ e.what = "query",
         \A r \in records' \ records : r.id = id
  PROVE  Requests' /\ Stood' /\ PromptIsReliable'
<1>1. id \in txn /\ \A o \in outcomes : o.id # id
  BY InProgress
<1>2. Requests'
  BY <1>1 DEF PipelineInv, Requests, Live
<1>3. Stood'
  <2> SUFFICES ASSUME NEW o \in outcomes, o.id \in Live
               PROVE  /\ o.end = "answer"
                      /\ Left(o.id)' = Lasting(o.sql)
                      /\ Filed(o.id)' = ReportRow(o.event) \cup AuditRow \cup TraceRow
    BY DEF Stood, Live
  <2>1. Left(o.id)' = Left(o.id) /\ Filed(o.id)' = Filed(o.id)
    <3>1. /\ \A e \in effects' : e.id = o.id => e \in effects
          /\ \A r \in records' : r.id = o.id => r \in records
      BY <1>1
    <3>2. /\ {e \in effects' : e.id = o.id /\ e.what = "query"}
             = {e \in effects : e.id = o.id /\ e.what = "query"}
          /\ {r \in records' : r.id = o.id} = {r \in records : r.id = o.id}
      BY <3>1
    <3> QED BY <3>2 DEF Left, Filed
  <2> QED BY <2>1 DEF PipelineInv, Stood
<1>4. PromptIsReliable'
  BY DEF PipelineInv, PromptIsReliable
<1> QED BY <1>2, <1>3, <1>4

(* Until the SQL runs, nothing is left.                                    *)
LEMMA Preparing ==
  ASSUME PipelineInv, pc \in {"model", "schema", "retrieve", "sample"},
         UNCHANGED <<id, event, pass, position, explain, effects, records, txn, kept, outcomes>>
  PROVE  /\ Requests' /\ Stood' /\ PromptIsReliable'
         /\ Left(id)' = {} /\ Filed(id)' = {} /\ pass' = 1 /\ position' = 1
<1>1. Requests' /\ Stood' /\ PromptIsReliable'
  BY GoesOn
<1>2. Left(id) = {} /\ Filed(id) = {} /\ pass = 1 /\ position = 1
  BY DEF PipelineInv, Wrote, Recorded
<1> QED BY <1>1, <1>2, SameStored

LEMMA PromptKeeps ==
  ASSUME PipelineInv,
         \/ GetModel \/ SchemaGiven \/ SchemaRead \/ Retrieve
         \/ \E t \in Tables : Sample(t)
  PROVE  PipelineInv'
<1>1. /\ pc \in {"model", "schema", "retrieve", "sample"}
      /\ UNCHANGED <<existing, id, event, snapshot, given, limit, answer, sql, pass, position,
                     explain, effects, records, txn, kept, outcomes>>
      /\ pc' \in {"schema", "retrieve", "sample"}
  BY DEF GetModel, SchemaGiven, SchemaRead, Retrieve, Sample, GoTo, arguments, prompt, text, run,
         stored, history
<1>2. /\ Requests' /\ Stood' /\ PromptIsReliable'
      /\ Left(id)' = {} /\ Filed(id)' = {} /\ pass' = 1 /\ position' = 1
  BY <1>1, Preparing
<1>3. Ran' /\ Wrote' /\ Recorded' /\ Extracted'
  BY <1>1, <1>2 DEF PipelineInv, Ran, Wrote, Recorded, Extracted
<1>4. /\ schema' \subseteq Tables /\ unsampled' \subseteq schema'
      /\ locked' \subseteq existing
      /\ pc' \in {"retrieve", "sample"} => schema' \ unsampled' \subseteq locked'
  <2>1. CASE GetModel \/ Retrieve
    BY <2>1 DEF GetModel, Retrieve, GoTo, prompt, PipelineInv, TypeOK, Prompts
  <2>2. CASE SchemaGiven
    <3>1. given \in SUBSET Tables
      BY <2>2, Text2SqlAssumption DEF SchemaGiven, Readable, PipelineInv, TypeOK
    <3> QED BY <2>2, <3>1 DEF SchemaGiven, PipelineInv, TypeOK
  <2>3. CASE SchemaRead
    BY <2>3 DEF SchemaRead, PipelineInv, TypeOK
  <2>4. ASSUME NEW t \in Tables, Sample(t)
        PROVE  /\ schema' \subseteq Tables /\ unsampled' \subseteq schema'
               /\ locked' \subseteq existing
               /\ schema' \ unsampled' \subseteq locked'
    BY <2>4 DEF Sample, Sampled, Resolves, PipelineInv, TypeOK, Prompts
  <2> QED BY <2>1, <2>2, <2>3, <2>4
<1>5. TypeOK'
  BY <1>1, <1>4 DEF PipelineInv, TypeOK, Places
<1>6. Prompts'
  BY <1>1, <1>4 DEF Prompts
<1> QED BY <1>2, <1>3, <1>5, <1>6 DEF PipelineInv

LEMMA AskModelKeeps ==
  ASSUME PipelineInv, NEW a \in Answers, AskModel(a)
  PROVE  PipelineInv'
<1>1. /\ pc = "sample" /\ unsampled = {} /\ pc' = "run"
      /\ answer' = a /\ sql' = extract_sql(a)
      /\ UNCHANGED <<existing, locked, id, event, snapshot, given, limit, schema, unsampled,
                     pass, position, explain, effects, records, txn, kept, outcomes>>
  BY DEF AskModel, GoTo, arguments, prompt, run, stored, history
<1>2. /\ Requests' /\ Stood' /\ PromptIsReliable'
      /\ Left(id)' = {} /\ Filed(id)' = {} /\ pass' = 1 /\ position' = 1
  BY <1>1, Preparing
<1>3. a \in Seq(Tokens) /\ sql' \in Seq(Tokens)
  BY <1>1, Text2SqlAssumption, ExtractedIsText
<1>4. TypeOK'
  BY <1>1, <1>3 DEF PipelineInv, TypeOK, Places
<1>5. Prompts' /\ Recorded' /\ Extracted'
  BY <1>1, <1>2 DEF PipelineInv, Prompts, Recorded, Extracted
<1>6. \A i \in Starts(sql)' : ~(i < 1)
  <2>1. PICK s \in Seq(Tokens) : s = sql'
    BY <1>3
  <2>2. \A i \in Starts(s) : ~(i < 1)
    BY StartsIn
  <2> QED BY <2>1, <2>2 DEF Starts
<1>7. Ran'
  BY <1>2, <1>6 DEF Ran
<1>8. Wrote'
  <2>1. Calling(sql)' \subseteq Starts(sql)'
    BY DEF Calling
  <2>2. {i \in Calling(sql)' : i < 1} \X {1} = {}
    BY <1>6, <2>1
  <2> QED BY <1>1, <1>2, <2>2 DEF Wrote
<1> QED BY <1>2, <1>4, <1>5, <1>7, <1>8 DEF PipelineInv

(* The statement that runs next, and where the one after it can start.     *)
LEMMA CurrentFacts ==
  ASSUME PipelineInv, pc = "run", Remaining # {}
  PROVE  \E i \in Starts(sql) :
           /\ i = Min(Remaining) /\ i >= position /\ i \in Nat /\ Current = StatementFrom(sql, i)
           /\ i + Len(Current) \in Nat
           /\ \A k \in Starts(sql) : k < i + Len(Current) <=> k < position \/ k = i
           /\ 1 \in Remaining => i = 1
<1>1. sql \in Seq(Tokens) /\ position \in Nat
  BY DEF PipelineInv, TypeOK
<1>2. Remaining \subseteq Starts(sql) /\ Starts(sql) \subseteq 1..Len(sql) /\ Remaining \subseteq Nat
  BY <1>1, StartsIn DEF Remaining
<1>3. PICK i : i = Min(Remaining)
  OBVIOUS
<1>4. i \in Remaining /\ \A k \in Remaining : i <= k
  BY <1>2, <1>3, MinIsSmallest
<1>5. Current = StatementFrom(sql, i)
  BY <1>3 DEF Current
<1>6. i \in Starts(sql) /\ i >= position /\ i \in Nat
  BY <1>2, <1>4 DEF Remaining
<1>7. Len(Current) \in Nat \ {0}
  <2>1. PICK e \in (i + 1)..(Len(sql) + 1) : Len(StatementFrom(sql, i)) = e - i
    BY <1>1, <1>6, StatementFacts
  <2> QED BY <1>1, <1>5, <1>6, <2>1
<1>8. ASSUME NEW k \in Starts(sql)
      PROVE  k < i + Len(Current) <=> k < position \/ k = i
  <2>1. k \in Nat
    BY <1>1, StartsIn
  <2>2. k < position \/ k = i => k < i + Len(Current)
    BY <1>1, <1>6, <1>7, <2>1
  <2>3. i < k => i + Len(Current) <= k
    BY <1>1, <1>5, <1>6, NextStatement
  <2>4. k < position \/ i <= k
    BY <1>1, <1>4, <2>1 DEF Remaining
  <2> QED BY <1>1, <1>6, <1>7, <2>1, <2>2, <2>3, <2>4
<1>9. 1 \in Remaining => i = 1
  BY <1>2, <1>4
<1> QED BY <1>3, <1>5, <1>6, <1>7, <1>8, <1>9

(* What a statement leaves: of a query, its calls, but for the one that    *)
(* EXPLAIN takes.                                                          *)
LEMMA EffectOfStatement ==
  ASSUME PipelineInv, Execute, NEW i \in Starts(sql), i = Min(Remaining), Current = StatementFrom(sql, i),
         i \in Nat, i >= position, 1 \in Remaining => i = 1
  PROVE  /\ Kind(Current) = "query"
         /\ \A e \in Effect : e \in [id : Ids, at : Nat, pass : {1, 2}, what : {"query", "write"}]
                              /\ e.id = id /\ e.what = "query"
         /\ Left(id)' = Left(id) \cup
              IF Calls(Current) /\ ~(pass = 2 /\ i = 1) THEN {<<i, pass>>} ELSE {}
<1>1. /\ pc = "run" /\ Remaining # {} /\ ~Refused /\ Parses
      /\ effects' = effects \cup Effect /\ UNCHANGED id
  BY DEF Execute, arguments
<1>2. Kind(Current) = "query"
  <2>1. WellFormed(sql)
    BY <1>1 DEF Parses, Explainable
  <2>2. Kind(Current) \in {"query", "write"}
    BY <2>1, KindsOfStatements DEF WellFormed
  <2>3. pass = 1 => Kind(Current) # "write"
    BY <1>1 DEF Refused
  <2>4. pass = 2 => Kind(Current) = "query"
    BY <1>1 DEF PipelineInv, Ran
  <2> QED BY <2>2, <2>3, <2>4 DEF PipelineInv, TypeOK
<1>3. Explained <=> pass = 2 /\ i = 1
  BY DEF Explained, Remaining
<1>4. Effect = IF Calls(Current) /\ ~(pass = 2 /\ i = 1)
               THEN {[id |-> id, at |-> i, pass |-> pass, what |-> "query"]} ELSE {}
  BY <1>2, <1>3 DEF Effect
<1>5. id \in Ids /\ pass \in {1, 2}
  BY <1>1, InProgress
<1>6. Left(id)' = Left(id) \cup {<<e.at, e.pass>> : e \in Effect}
  <2>1. \A e \in Effect : e.id = id /\ e.what = "query"
    BY <1>4
  <2> HIDE DEF Effect
  <2>2. {e \in effects' : e.id = id /\ e.what = "query"}
          = {e \in effects : e.id = id /\ e.what = "query"} \cup Effect
    BY <1>1, <2>1
  <2> QED BY <1>1, <2>2 DEF Left
<1>7. {<<e.at, e.pass>> : e \in Effect}
        = IF Calls(Current) /\ ~(pass = 2 /\ i = 1) THEN {<<i, pass>>} ELSE {}
  <2>1. PICK r : r = [id |-> id, at |-> i, pass |-> pass, what |-> "query"]
    OBVIOUS
  <2>2. r.at = i /\ r.pass = pass
    BY <2>1
  <2>3. Effect = {r} \/ Effect = {}
    BY <1>4, <2>1
  <2>4. Effect = {r} <=> Calls(Current) /\ ~(pass = 2 /\ i = 1)
    BY <1>4, <2>1
  <2> HIDE DEF Effect
  <2> QED BY <2>2, <2>3, <2>4
<1>8. \A e \in Effect : e \in [id : Ids, at : Nat, pass : {1, 2}, what : {"query", "write"}]
                        /\ e.id = id /\ e.what = "query"
  BY <1>4, <1>5
<1> QED BY <1>2, <1>6, <1>7, <1>8

LEMMA ExecuteKeeps ==
  ASSUME PipelineInv, Execute
  PROVE  PipelineInv'
<1>1. /\ pc = "run" /\ Parses /\ Remaining # {} /\ ~Refused /\ Uses(Current) \subseteq existing
      /\ locked' = locked \cup Uses(Current)
      /\ effects' = effects \cup Effect
      /\ explain' \in {"none", "plan", "rows"}
      /\ position' = Min(Remaining) + Len(Current)
      /\ UNCHANGED <<existing, pc, id, event, snapshot, given, limit, schema, unsampled, answer,
                     sql, pass, records, txn, kept, outcomes>>
  BY DEF Execute, arguments, prompt, text, history
<1>2. PICK i \in Starts(sql) :
        /\ i = Min(Remaining) /\ i >= position /\ i \in Nat /\ Current = StatementFrom(sql, i)
        /\ i + Len(Current) \in Nat
        /\ \A k \in Starts(sql) : k < i + Len(Current) <=> k < position \/ k = i
        /\ 1 \in Remaining => i = 1
  BY <1>1, CurrentFacts
<1>3. /\ Kind(Current) = "query"
      /\ \A e \in Effect : e \in [id : Ids, at : Nat, pass : {1, 2}, what : {"query", "write"}]
                           /\ e.id = id /\ e.what = "query"
      /\ Left(id)' = Left(id) \cup
           IF Calls(Current) /\ ~(pass = 2 /\ i = 1) THEN {<<i, pass>>} ELSE {}
  BY <1>2, EffectOfStatement
<1>4. position' = i + Len(Current)
  BY <1>1, <1>2
<1>5. TypeOK'
  <2>1. effects' \subseteq [id : Ids, at : Nat, pass : {1, 2}, what : {"query", "write"}]
    BY <1>1, <1>3 DEF PipelineInv, TypeOK
  <2>2. locked' \subseteq existing'
    BY <1>1 DEF PipelineInv, TypeOK
  <2> QED BY <1>1, <1>2, <1>4, <2>1, <2>2 DEF PipelineInv, TypeOK
<1>6. Requests' /\ Stood' /\ PromptIsReliable'
  BY <1>1, <1>3, GoesOn
<1>7. Prompts'
  BY <1>1 DEF PipelineInv, Prompts
<1>8. Ran'
  BY <1>1, <1>2, <1>3, <1>4 DEF PipelineInv, Ran
<1>9. Calls(Current) <=> i \in Calling(sql)
  BY <1>2 DEF Calling
<1>10. Calling(sql)' = Calling(sql) /\ Calling(sql) \subseteq Starts(sql)
  BY <1>1 DEF Calling
<1>11. Wrote'
  <2> DEFINE C == Calling(sql)
             n == i + Len(Current)
  <2>3. \A k \in C : k < n <=> k < position \/ k = i
    BY <1>2, <1>10
  <2>4. Calling(sql)' = C /\ position' = n /\ pass' = pass /\ pc' = "run"
    BY <1>1, <1>4, <1>10
  <2>5. i \in C <=> Calls(Current)
    BY <1>9
  <2> HIDE DEF C, n
  <2>1. CASE pass = 1
    <3>1. Left(id) = {k \in C : k < position} \X {1}
      BY <1>1, <2>1 DEF PipelineInv, Wrote, C
    <3>2. Left(id)' = Left(id) \cup IF i \in C THEN {<<i, 1>>} ELSE {}
      BY <1>3, <2>1, <2>5
    <3>3. {k \in C : k < n} = {k \in C : k < position} \cup IF i \in C THEN {i} ELSE {}
      BY <2>3
    <3>4. Left(id)' = {k \in C : k < n} \X {1}
      BY <3>1, <3>2, <3>3
    <3> QED BY <1>1, <2>1, <2>4, <3>4 DEF Wrote
  <2>2. CASE pass = 2
    <3>1. Left(id) = C \X {1} \cup {k \in C \ {1} : k < position} \X {2}
      BY <1>1, <2>2 DEF PipelineInv, Wrote, C
    <3>2. Left(id)' = Left(id) \cup IF i \in C \ {1} THEN {<<i, 2>>} ELSE {}
      BY <1>3, <2>2, <2>5
    <3>3. {k \in C \ {1} : k < n}
            = {k \in C \ {1} : k < position} \cup IF i \in C \ {1} THEN {i} ELSE {}
      BY <2>3
    <3>4. Left(id)' = C \X {1} \cup {k \in C \ {1} : k < n} \X {2}
      BY <3>1, <3>2, <3>3
    <3> QED BY <1>1, <2>2, <2>4, <3>4 DEF Wrote
  <2> QED BY <2>1, <2>2 DEF PipelineInv, TypeOK
<1>12. Recorded' /\ Extracted'
  BY <1>1 DEF PipelineInv, Recorded, Extracted, Filed
<1> QED BY <1>5, <1>6, <1>7, <1>8, <1>11, <1>12 DEF PipelineInv

LEMMA ExecutedKeeps ==
  ASSUME PipelineInv, Executed
  PROVE  PipelineInv'
<1>1. /\ pc = "run" /\ Remaining = {} /\ pass' = 2 /\ position' = 1
      /\ pc' = IF pass = 1 THEN "run" ELSE IF event = "report" THEN "report" ELSE "audit"
      /\ UNCHANGED <<existing, locked, id, event, snapshot, given, limit, schema, unsampled,
                     answer, sql, explain, effects, records, txn, kept, outcomes>>
  BY DEF Executed, GoTo, arguments, prompt, text, stored, history
<1>2. sql \in Seq(Tokens) /\ position \in Nat /\ pass \in {1, 2}
  BY DEF PipelineInv, TypeOK
<1>3. Starts(sql) \subseteq Nat /\ \A k \in Starts(sql) : 1 <= k /\ k < position
  BY <1>1, <1>2, StartsIn DEF Remaining
<1>4. Calling(sql) \subseteq Starts(sql)
  BY DEF Calling
<1>5. TypeOK'
  BY <1>1 DEF PipelineInv, TypeOK, Places
<1>6. Requests' /\ Stood' /\ PromptIsReliable'
  BY <1>1, GoesOn
<1>7. Prompts'
  BY <1>1 DEF PipelineInv, Prompts
<1>8. Ran'
  BY <1>1, <1>3 DEF PipelineInv, Ran
<1>9. Left(id)' = Left(id) /\ Filed(id)' = Filed(id)
  BY <1>1 DEF Left, Filed
<1>10. Wrote'
  <2>1. CASE pass = 1
    <3>1. Left(id) = {k \in Calling(sql) : k < position} \X {1}
      BY <1>1, <2>1 DEF PipelineInv, Wrote
    <3>2. {k \in Calling(sql) : k < position} = Calling(sql)
      BY <1>3, <1>4
    <3>3. {k \in Calling(sql) \ {1} : k < 1} = {}
      BY <1>3, <1>4
    <3>4. Left(id) = Calling(sql) \X {1} \cup {k \in Calling(sql) \ {1} : k < 1} \X {2}
      BY <3>1, <3>2, <3>3
    <3>5. Calling(sql)' = Calling(sql)
      BY <1>1 DEF Calling
    <3> QED BY <1>1, <1>9, <2>1, <3>4, <3>5 DEF Wrote
  <2>2. CASE pass = 2
    <3>1. Left(id) = Calling(sql) \X {1} \cup {k \in Calling(sql) \ {1} : k < position} \X {2}
      BY <1>1, <2>2 DEF PipelineInv, Wrote
    <3>2. {k \in Calling(sql) \ {1} : k < position} = Calling(sql) \ {1}
      BY <1>3, <1>4
    <3>3. Left(id) = Lasting(sql)
      BY <3>1, <3>2 DEF Lasting
    <3>4. Lasting(sql)' = Lasting(sql) /\ pc' \in {"report", "audit"}
      BY <1>1, <2>2 DEF Lasting, Calling
    <3> QED BY <1>9, <3>3, <3>4 DEF Wrote
  <2> QED BY <1>2, <2>1, <2>2
<1>11. Recorded'
  BY <1>1, <1>9 DEF PipelineInv, Recorded, ReportRow
<1>12. Extracted'
  BY <1>1 DEF PipelineInv, Extracted
<1> QED BY <1>5, <1>6, <1>7, <1>8, <1>10, <1>11, <1>12 DEF PipelineInv

(* A missing table is not one of the prompt, and none of the first         *)
(* execution is missing in the second: both are locked.                    *)
LEMMA TableMissingKeeps ==
  ASSUME PipelineInv, TableMissing
  PROVE  PipelineInv'
<1>1. /\ pc = "run" /\ Remaining # {} /\ Fail("missing")
      /\ ~(Uses(Current) \subseteq existing)
  BY DEF TableMissing
<1>2. PICK i \in Starts(sql) : Current = StatementFrom(sql, i)
  BY <1>1, CurrentFacts
<1>3. sql \in Seq(Tokens) /\ locked \subseteq existing /\ pass \in {1, 2}
  BY DEF PipelineInv, TypeOK
<1>4. pass = 1
  <2>1. pass = 2 => Uses(Current) \subseteq locked
    BY <1>1, <1>2 DEF PipelineInv, Ran
  <2> QED BY <1>1, <1>3, <2>1
<1>5. schema \subseteq locked
  BY <1>1 DEF PipelineInv, Prompts
<1>6. PICK t \in Uses(Current) : t \notin schema
  BY <1>1, <1>3, <1>5
<1>7. t \in Tables /\ Positions(sql, t) # {}
  BY <1>2, <1>3, <1>6, TablesOfStatement
<1>8. \E x \in Tables \ schema : Positions(sql, x) # {}
  BY <1>6, <1>7
<1>9. pc # "idle"
  BY <1>1
<1> QED BY <1>1, <1>4, <1>8, <1>9, FailKeeps

LEMMA OtherFailuresKeep ==
  ASSUME PipelineInv,
         \/ ArgumentThrows \/ SchemaFails \/ RetrieveFails \/ ExecuteFails \/ Fails
         \/ \E t \in Tables : SampleFails(t)
  PROVE  PipelineInv'
<1>1. pc # "idle" /\ (Fail("error") \/ Fail("restart"))
  BY DEF ArgumentThrows, SchemaFails, RetrieveFails, ExecuteFails, Fails, SampleFails
<1>2. "error" # "missing" /\ "restart" # "missing"
  OBVIOUS
<1> QED BY <1>1, <1>2, FailKeeps

LEMMA RecordKeeps ==
  ASSUME PipelineInv, Report \/ Audit \/ Trace
  PROVE  PipelineInv'
<1>1. PICK place \in {"report", "audit", "trace"}, next \in {"audit", "trace", "done"},
           table \in {"reports", "audit", "trace"}, on \in BOOLEAN :
        /\ Record(place, table, next, on)
        /\ \/ place = "report" /\ next = "audit" /\ table = "reports" /\ on = TRUE
           \/ place = "audit" /\ next = "trace" /\ table = "audit" /\ on = AuditEnabled
           \/ place = "trace" /\ next = "done" /\ table = "trace" /\ on = TraceEnabled
  BY Text2SqlAssumption DEF Report, Audit, Trace
<1>2. /\ pc = place /\ pc' = next
      /\ records' = IF on THEN records \cup Row(table) ELSE records
      /\ UNCHANGED <<existing, locked, id, event, snapshot, given, limit, schema, unsampled, answer,
                     sql, pass, position, explain, effects, txn, kept, outcomes>>
  BY <1>1 DEF Record, GoTo, arguments, prompt, text, run, history
<1>3. id \in Ids
  BY <1>2, InProgress
<1>4. PICK r : r = [id |-> id, in |-> table]
  OBVIOUS
<1>5. /\ r.id = id /\ r.in = table
      /\ records' = IF on THEN records \cup {r} ELSE records
  BY <1>2, <1>4 DEF Row
<1>6. TypeOK'
  <2>1. r \in [id : Ids, in : {"reports", "audit", "trace"}]
    BY <1>3, <1>4
  <2>2. records' \subseteq [id : Ids, in : {"reports", "audit", "trace"}]
    BY <1>5, <2>1 DEF PipelineInv, TypeOK
  <2> QED BY <1>2, <2>2 DEF PipelineInv, TypeOK, Places
<1>7. Requests' /\ Stood' /\ PromptIsReliable'
  BY <1>2, <1>5, GoesOn
<1>8. Prompts' /\ Ran' /\ Extracted'
  BY <1>2 DEF PipelineInv, Prompts, Ran, Extracted
<1>9. Wrote'
  <2>1. Left(id) = Lasting(sql)
    BY <1>2 DEF PipelineInv, Wrote
  <2>2. Left(id)' = Left(id) /\ Lasting(sql)' = Lasting(sql)
    BY <1>2 DEF Left, Lasting, Calling
  <2> QED BY <1>2, <2>1, <2>2 DEF Wrote
<1>10. Filed(id)' = Filed(id) \cup IF on THEN {table} ELSE {}
  <2>1. CASE on
    <3>1. {x \in records' : x.id = id} = {x \in records : x.id = id} \cup {r}
      BY <1>5, <2>1
    <3> QED BY <1>2, <1>5, <2>1, <3>1 DEF Filed
  <2>2. CASE ~on
    BY <1>2, <1>5, <2>2 DEF Filed
  <2> QED BY <2>1, <2>2
<1>11. Recorded'
  BY <1>1, <1>2, <1>10 DEF PipelineInv, Recorded, ReportRow, AuditRow, TraceRow
<1> QED BY <1>6, <1>7, <1>8, <1>9, <1>11 DEF PipelineInv

LEMMA ReturnKeeps ==
  ASSUME PipelineInv, Return
  PROVE  PipelineInv'
<1>1. /\ pc = "done" /\ pc' = "idle"
      /\ outcomes' = outcomes \cup {Outcome("answer")}
      /\ UNCHANGED <<existing, locked, id, event, snapshot, given, limit, schema, unsampled, answer,
                     sql, pass, position, explain, effects, records, txn, kept>>
  BY DEF Return, GoTo, arguments, prompt, text, run, stored
<1>2. Outcome("answer") \in Outcomes /\ id \in Ids
  BY <1>1, InProgress, OutcomeTyped
<1>3. /\ Outcome("answer").id = id /\ Outcome("answer").end = "answer"
      /\ Outcome("answer").event = event /\ Outcome("answer").sql = sql
  BY DEF Outcome
<1>4. TypeOK'
  BY <1>1, <1>2 DEF PipelineInv, TypeOK, Places
<1>5. Requests'
  <2>1. \A o \in outcomes' : o.id <= id'
    BY <1>1, <1>2, <1>3 DEF PipelineInv, Requests, Ids
  <2> QED BY <1>1, <2>1 DEF PipelineInv, Requests, Live
<1>6. Prompts' /\ Ran' /\ Wrote' /\ Recorded' /\ Extracted'
  BY <1>1 DEF PipelineInv, Prompts, Ran, Wrote, Recorded, Extracted
<1>7. Left(id) = Lasting(sql) /\ Filed(id) = ReportRow(event) \cup AuditRow \cup TraceRow
  BY <1>1 DEF PipelineInv, Wrote, Recorded
<1>8. Stood'
  <2>1. \A i : Left(i)' = Left(i) /\ Filed(i)' = Filed(i)
    BY <1>1, SameStored
  <2> SUFFICES ASSUME NEW o \in outcomes', o.id \in Live
               PROVE  /\ o.end = "answer"
                      /\ Left(o.id) = Lasting(o.sql)
                      /\ Filed(o.id) = ReportRow(o.event) \cup AuditRow \cup TraceRow
    BY <1>1, <2>1 DEF Stood, Live
  <2>2. CASE o \in outcomes
    BY <2>2 DEF PipelineInv, Stood
  <2>3. CASE o = Outcome("answer")
    BY <1>3, <1>7, <2>3
  <2> QED BY <1>1, <2>2, <2>3
<1>9. PromptIsReliable'
  BY <1>1, <1>3 DEF PipelineInv, PromptIsReliable
<1> QED BY <1>4, <1>5, <1>6, <1>8, <1>9 DEF PipelineInv

LEMMA CommitKeeps ==
  ASSUME PipelineInv, Commit
  PROVE  PipelineInv'
<1>1. /\ pc = "idle" /\ kept' = kept \cup txn /\ txn' = {} /\ locked' = {}
      /\ UNCHANGED <<existing, pc, id, event, snapshot, given, limit, schema, unsampled, answer,
                     sql, pass, position, explain, effects, records, outcomes>>
  BY DEF Commit, arguments, prompt, text, run, stored
<1>2. TypeOK'
  BY <1>1 DEF PipelineInv, TypeOK
<1>3. Live' = Live
  BY <1>1 DEF Live
<1>4. Requests'
  BY <1>1, <1>3 DEF PipelineInv, Requests
<1>5. Prompts' /\ Ran' /\ Wrote' /\ Recorded' /\ Extracted' /\ PromptIsReliable'
  BY <1>1 DEF PipelineInv, Prompts, Ran, Wrote, Recorded, Extracted, PromptIsReliable
<1>6. Stood'
  BY <1>1, <1>3, SameStored DEF PipelineInv, Stood
<1> QED BY <1>2, <1>4, <1>5, <1>6 DEF PipelineInv

LEMMA RollbackKeeps ==
  ASSUME PipelineInv, Rollback
  PROVE  PipelineInv'
<1>1. /\ pc = "idle" /\ Abort
      /\ UNCHANGED <<existing, pc, id, event, snapshot, given, limit, schema, unsampled, answer,
                     sql, pass, position, explain, outcomes>>
  BY DEF Rollback, arguments, prompt, text, run
<1>2. /\ Live' = kept /\ kept' \cap txn' = {}
      /\ \A i \in kept : Left(i)' = Left(i) /\ Filed(i)' = Filed(i)
      /\ effects' \subseteq effects /\ records' \subseteq records
      /\ \A e \in effects' : e.id \in Live' /\ e.what = "query"
      /\ \A r \in records' : r.id \in Live'
      /\ locked' = {} /\ txn' = {} /\ kept' = kept
  BY <1>1, AbortLeaves
<1>3. TypeOK'
  BY <1>1, <1>2 DEF PipelineInv, TypeOK
<1>4. Requests'
  BY <1>1, <1>2 DEF PipelineInv, Requests, Live
<1>5. Prompts' /\ Ran' /\ Wrote' /\ Recorded' /\ Extracted' /\ PromptIsReliable'
  BY <1>1 DEF PipelineInv, Prompts, Ran, Wrote, Recorded, Extracted, PromptIsReliable
<1>6. Stood'
  BY <1>1, <1>2 DEF PipelineInv, Stood, Live
<1> QED BY <1>3, <1>4, <1>5, <1>6 DEF PipelineInv

LEMMA OtherClientsKeep ==
  ASSUME PipelineInv, NEW t \in Tables, CreateTable(t) \/ DropTable(t)
  PROVE  PipelineInv'
<1>1. /\ existing' \subseteq Tables /\ locked \subseteq existing'
      /\ UNCHANGED <<locked, pc, id, event, snapshot, given, limit, schema, unsampled, answer,
                     sql, pass, position, explain, effects, records, txn, kept, outcomes>>
  BY DEF CreateTable, DropTable, arguments, prompt, text, run, stored, history, PipelineInv, TypeOK
<1>2. TypeOK'
  BY <1>1 DEF PipelineInv, TypeOK
<1>3. Requests' /\ Prompts' /\ Ran' /\ Wrote' /\ Recorded'
  BY <1>1 DEF PipelineInv, Requests, Live, Prompts, Ran, Wrote, Recorded, Left, Filed
<1>4. Stood' /\ PromptIsReliable' /\ Extracted'
  BY <1>1 DEF PipelineInv, Stood, Live, Left, Filed, PromptIsReliable, Extracted
<1> QED BY <1>2, <1>3, <1>4 DEF PipelineInv

-----------------------------------------------------------------------------
LEMMA PipelineInit ==
  ASSUME Init
  PROVE  PipelineInv
<1>1. TypeOK
  BY Text2SqlAssumption DEF Init, TypeOK, Places, Events
<1>2. Requests /\ Prompts /\ Ran /\ Wrote /\ Recorded /\ Stood /\ PromptIsReliable /\ Extracted
  BY DEF Init, Requests, Live, Prompts, Ran, Wrote, Recorded, Stood, PromptIsReliable, Extracted
<1> QED BY <1>1, <1>2 DEF PipelineInv

LEMMA PipelineStep ==
  ASSUME PipelineInv, [Next]_vars
  PROVE  PipelineInv'
<1>1. ASSUME NEW g \in Given \cup {NoSchemaInfo}, NEW n \in Limits, StartText2Sql(g, n)
      PROVE  PipelineInv'
  <2>1. <<>> \in Seq(Tokens) /\ n \in Limits \cup {0}
    OBVIOUS
  <2> QED BY <1>1, <2>1, StartKeeps DEF StartText2Sql, Events
<1>2. ASSUME NEW s \in Scripts, StartExecute(s) \/ StartReport(s)
      PROVE  PipelineInv'
  <2>1. s \in Seq(Tokens)
    BY Text2SqlAssumption
  <2> QED BY <1>2, <2>1, StartKeeps DEF StartExecute, StartReport, Events
<1>3. CASE GetModel \/ SchemaGiven \/ SchemaRead \/ Retrieve \/ \E t \in Tables : Sample(t)
  BY <1>3, PromptKeeps
<1>4. CASE \E a \in Answers : AskModel(a)
  BY <1>4, AskModelKeeps
<1>5. CASE Execute \/ Executed \/ TableMissing
  BY <1>5, ExecuteKeeps, ExecutedKeeps, TableMissingKeeps
<1>6. CASE \/ ArgumentThrows \/ SchemaFails \/ RetrieveFails \/ ExecuteFails \/ Fails
           \/ \E t \in Tables : SampleFails(t)
  BY <1>6, OtherFailuresKeep
<1>7. CASE Report \/ Audit \/ Trace \/ Return
  BY <1>7, RecordKeeps, ReturnKeeps
<1>8. CASE Commit \/ Rollback
  BY <1>8, CommitKeeps, RollbackKeeps
<1>9. CASE \E t \in Tables : CreateTable(t) \/ DropTable(t)
  BY <1>9, OtherClientsKeep
<1>10. CASE UNCHANGED vars
  <2>1. UNCHANGED <<existing, locked, pc, id, event, snapshot, given, limit, schema, unsampled,
                    answer, sql, pass, position, explain, effects, records, txn, kept, outcomes>>
    BY <1>10 DEF vars, arguments, prompt, text, run, stored, history
  <2>2. TypeOK'
    BY <2>1 DEF PipelineInv, TypeOK
  <2>3. Requests' /\ Prompts' /\ Ran' /\ Wrote' /\ Recorded'
    BY <2>1 DEF PipelineInv, Requests, Live, Prompts, Ran, Wrote, Recorded, Left, Filed
  <2>4. Stood' /\ PromptIsReliable' /\ Extracted'
    BY <2>1 DEF PipelineInv, Stood, Live, Left, Filed, PromptIsReliable, Extracted
  <2> QED BY <2>2, <2>3, <2>4 DEF PipelineInv
<1> QED
  BY <1>1, <1>2, <1>3, <1>4, <1>5, <1>6, <1>7, <1>8, <1>9, <1>10, Zenon DEF Next

LEMMA PipelineAlways == Spec => []PipelineInv
<1>1. Init => PipelineInv
  BY PipelineInit
<1>2. PipelineInv /\ [Next]_vars => PipelineInv'
  BY PipelineStep
<1> QED BY <1>1, <1>2, PTL DEF Spec

-----------------------------------------------------------------------------
(* The requests, what they leave and what they come to are of their types. *)
THEOREM PipelineTyped == Spec => []TypeOK
<1>1. PipelineInv => TypeOK
  BY DEF PipelineInv
<1> QED BY <1>1, PipelineAlways, PTL

(* For every text the model answers and the callers give: in a transaction *)
(* that may still commit, or has, all requests answered, left the calls of *)
(* their queries, once or twice, nothing else, and their rows.             *)
THEOREM RequestsStandTogether == Spec => []StandTogether
<1>1. ASSUME PipelineInv PROVE StandTogether
  <2>1. /\ \A e \in effects : e.id \in kept \cup txn /\ e.what = "query"
        /\ \A r \in records : r.id \in kept \cup txn
    BY <1>1 DEF PipelineInv, Requests, Live
  <2>2. ASSUME NEW o \in outcomes, o.id \in kept \cup txn
        PROVE  /\ o.end = "answer"
               /\ Left(o.id) = Lasting(o.sql)
               /\ Filed(o.id) = ReportRow(o.event) \cup AuditRow \cup TraceRow
    BY <1>1, <2>2 DEF PipelineInv, Stood, Live
  <2> QED
    BY <2>1, <2>2, Zenon
    DEF StandTogether, Left, Filed, Lasting, Calling, ReportRow, AuditRow, TraceRow
<1> QED BY <1>1, PipelineAlways, PTL

(* Whatever clients create and drop meanwhile, SQL that misses a table     *)
(* does so in its first execution, and generated SQL one that the prompt   *)
(* did not show.                                                           *)
THEOREM PromptsAreReliable == Spec => []PromptIsReliable
<1>1. PipelineInv => PromptIsReliable
  BY DEF PipelineInv
<1> QED BY <1>1, PipelineAlways, PTL

(* For every answer of every length: queries after prose without keywords  *)
(* are cut out whole, with nothing of what surrounds them.                 *)
THEOREM QueriesAreExtracted == Spec => []QueriesSurviveExtraction
<1>1. ASSUME PipelineInv PROVE QueriesSurviveExtraction
  <2>1. answer \in Seq(Tokens) /\ DOMAIN answer = 1..Len(answer)
    BY <1>1, LenProperties DEF PipelineInv, TypeOK
  <2>2. ASSUME NEW i \in 1..Len(answer), NEW j \in 1..Len(answer), i <= j,
               \/ answer[i] = "SELECT"
               \/ answer[i] = "select" /\ Positions(answer, "SELECT") = {},
               \A k \in Starts(SubSeq(answer, i, j)) :
                 Kind(StatementFrom(SubSeq(answer, i, j), k)) = "query",
               Occurring(SubSeq(answer, 1, i - 1)) = {},
               j = Len(answer) \/ answer[j + 1] = "fence"
        PROVE  sql = SubSeq(answer, i, j)
    <3>1. extract_sql(answer) = SubSeq(answer, i, j)
      BY <2>1, <2>2, QueriesExtracted
    <3>2. answer # <<>>
      BY <2>2
    <3> QED BY <1>1, <3>1, <3>2 DEF PipelineInv, Extracted
  <2> QED BY <2>1, <2>2, Zenon DEF QueriesSurviveExtraction
<1> QED BY <1>1, PipelineAlways, PTL

=============================================================================
