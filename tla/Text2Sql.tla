------------------------------ MODULE Text2Sql ------------------------------
(* pg_llm_text2sql, pg_llm_execute_sql_with_analysis and                   *)
(* pg_llm_generate_report (src/pg_llm.cpp): the context of the prompt, the *)
(* generated SQL, its two executions and the records that are kept, while  *)
(* other clients create and drop tables.  READ COMMITTED; a request is one *)
(* statement of its client, whose snapshot every read-only SPI call uses,  *)
(* while names are resolved in the catalog of the moment.  An exception    *)
(* ends the process, and with it the transactions of all backends.         *)
EXTENDS SqlText
LOCAL INSTANCE FiniteSetsExt

CONSTANTS
  Unquotable,    \* those of Tables whose name is no identifier without quotes
  Answers,       \* what the model may answer
  Scripts,       \* SQL given by callers
  Given,         \* the tables callers may list in schema_info
  NoSchemaInfo,
  Malformed,     \* schema_info that is no JSON, an option of another type
  Limits,        \* option sample_data_limit
  AuditEnabled, TraceEnabled,
  MaxRequests    \* bound on requests

ASSUME Text2SqlAssumption ==
  /\ Unquotable \subseteq Tables
  /\ Answers \subseteq Seq(Tokens) /\ Scripts \subseteq Seq(Tokens)
  /\ Given \subseteq (SUBSET Tables) \cup {Malformed} /\ NoSchemaInfo \notin Given
  /\ Limits \subseteq Int \cup {Malformed}
  /\ AuditEnabled \in BOOLEAN /\ TraceEnabled \in BOOLEAN
  /\ MaxRequests \in Nat

VARIABLES
  existing,      \* tables of the schema public
  locked,        \* tables the open transaction holds ACCESS SHARE on
  pc, id, event, \* the request
  snapshot,      \* tables its statement sees
  given, limit,  \* its arguments
  answer, sql,   \* what the model said, what is executed
  schema,        \* tables of the prompt
  unsampled,     \* tables of the prompt without sample data so far
  pass, position,  \* execution: which of the two, next statement
  explain,       \* what result["explain"] holds
  effects,       \* lasting effects of the SQL, those of the open transaction included
  records,       \* rows of pg_llm_reports, pg_llm_audit_log, pg_llm_trace_log
  txn, kept,     \* requests of the open transaction, of committed ones
  outcomes       \* history: what each request came to

arguments == <<id, event, snapshot, given, limit>>
prompt == <<schema, unsampled>>
text == <<answer, sql>>
run == <<pass, position, explain>>
stored == <<effects, records>>
history == <<txn, kept, outcomes>>
vars == <<existing, locked, pc, arguments, prompt, text, run, stored, history>>

Events == {"text2sql", "execute_sql", "report"}
Places == {"idle", "model", "schema", "retrieve", "sample", "run", "report", "audit", "trace", "done"}
Ids == 1..MaxRequests
Outcomes == [id : Ids, event : Events, end : {"answer", "error", "missing", "restart"},
             pass : {1, 2}, prompt : SUBSET Tables, sql : Seq(Tokens),
             explain : {"none", "plan", "rows"}]

TypeOK ==
  /\ existing \subseteq Tables /\ locked \subseteq existing
  /\ pc \in Places
  /\ id \in 0..MaxRequests /\ event \in Events
  /\ snapshot \subseteq Tables
  /\ given \in Given \cup {NoSchemaInfo} /\ limit \in Limits \cup {0}
  /\ answer \in Seq(Tokens) /\ sql \in Seq(Tokens)
  /\ schema \subseteq Tables /\ unsampled \subseteq schema
  /\ pass \in {1, 2} /\ position \in Nat
  /\ explain \in {"none", "plan", "rows"}
  /\ effects \subseteq [id : Ids, at : Nat, pass : {1, 2}, what : {"query", "write"}]
  /\ records \subseteq [id : Ids, in : {"reports", "audit", "trace"}]
  /\ txn \subseteq Ids /\ kept \subseteq Ids
  /\ outcomes \subseteq Outcomes

Init ==
  /\ existing \in SUBSET Tables /\ locked = {}
  /\ pc = "idle" /\ id = 0 /\ event = "text2sql"
  /\ snapshot = {} /\ given = NoSchemaInfo /\ limit = 0
  /\ answer = <<>> /\ sql = <<>>
  /\ schema = {} /\ unsampled = {}
  /\ pass = 1 /\ position = 1 /\ explain = "none"
  /\ effects = {} /\ records = {}
  /\ txn = {} /\ kept = {} /\ outcomes = {}

GoTo(place) == pc' = place

-----------------------------------------------------------------------------
(* Transactions and the other clients.                                     *)

(* An ERROR, or the client, ends the transaction.                          *)
Abort ==
  /\ effects' = {e \in effects : e.id \notin txn}
  /\ records' = {r \in records : r.id \notin txn}
  /\ txn' = {} /\ locked' = {}
  /\ UNCHANGED kept

Outcome(end) ==
  [id |-> id, event |-> event, end |-> end, pass |-> pass,
   prompt |-> schema, sql |-> sql, explain |-> explain]

Fail(end) ==
  /\ GoTo("idle")
  /\ Abort
  /\ outcomes' = outcomes \cup {Outcome(end)}
  /\ UNCHANGED <<existing, arguments, prompt, text, run>>

Commit ==
  /\ pc = "idle" /\ txn # {}
  /\ kept' = kept \cup txn /\ txn' = {} /\ locked' = {}
  /\ UNCHANGED <<existing, pc, arguments, prompt, text, run, stored, outcomes>>

Rollback ==
  /\ pc = "idle" /\ txn # {}
  /\ Abort
  /\ UNCHANGED <<existing, pc, arguments, prompt, text, run, outcomes>>

(* DROP TABLE waits for the transactions that read the table.              *)
CreateTable(t) ==
  /\ existing' = existing \cup {t}
  /\ t \notin existing
  /\ UNCHANGED <<locked, pc, arguments, prompt, text, run, stored, history>>

DropTable(t) ==
  /\ t \in existing \ locked
  /\ existing' = existing \ {t}
  /\ UNCHANGED <<locked, pc, arguments, prompt, text, run, stored, history>>

-----------------------------------------------------------------------------
(* Entry points.                                                           *)

Start(e, place, s, g, n) ==
  /\ pc = "idle" /\ id < MaxRequests
  /\ id' = id + 1 /\ event' = e
  /\ snapshot' = existing
  /\ given' = g /\ limit' = n
  /\ answer' = <<>> /\ sql' = s
  /\ schema' = {} /\ unsampled' = {}
  /\ pass' = 1 /\ position' = 1 /\ explain' = "none"
  /\ txn' = txn \cup {id + 1}
  /\ GoTo(place)
  /\ UNCHANGED <<existing, locked, stored, kept, outcomes>>

StartText2Sql(g, n) == Start("text2sql", "model", <<>>, g, n)
StartExecute(s) == Start("execute_sql", "run", s, NoSchemaInfo, 0)
StartReport(s) == Start("report", "run", s, NoSchemaInfo, 0)

-----------------------------------------------------------------------------
(* The prompt.                                                             *)

GetModel ==
  /\ pc = "model"
  /\ GoTo("schema")
  /\ UNCHANGED <<existing, locked, arguments, prompt, text, run, stored, history>>

(* The casts to regclass of get_schema_info resolve, now and without       *)
(* quotes, names its query found in the snapshot.                          *)
ResolvesInSnapshot(t) == t \in snapshot \ Unquotable
Resolves(t) == t \in existing \ Unquotable

Readable == Malformed \notin {given, limit}

(* pg_llm_parse_json and the accessors of a JSON value throw.              *)
ArgumentThrows == pc = "schema" /\ ~Readable /\ Fail("restart")

SchemaGiven ==
  /\ pc = "schema" /\ Readable /\ given # NoSchemaInfo
  /\ schema' = given /\ unsampled' = given
  /\ \E use_vector_search \in BOOLEAN : GoTo(IF use_vector_search THEN "retrieve" ELSE "sample")
  /\ UNCHANGED <<existing, locked, arguments, text, run, stored, history>>

SchemaRead ==
  /\ pc = "schema" /\ Readable /\ given = NoSchemaInfo
  /\ \A t \in snapshot : Resolves(t)
  /\ schema' = snapshot /\ unsampled' = snapshot
  /\ \E use_vector_search \in BOOLEAN : GoTo(IF use_vector_search THEN "retrieve" ELSE "sample")
  /\ UNCHANGED <<existing, locked, arguments, text, run, stored, history>>

SchemaFails ==
  /\ pc = "schema" /\ Readable /\ given = NoSchemaInfo
  /\ \E t \in snapshot : ~Resolves(t)
  /\ Fail("error")

(* search_vectors and get_similar_queries only read, and what they find is *)
(* only shown; a negative LIMIT is an error of the second.                 *)
Retrieve ==
  /\ pc = "retrieve" /\ limit >= 0
  /\ GoTo("sample")
  /\ UNCHANGED <<existing, locked, arguments, prompt, text, run, stored, history>>

RetrieveFails == pc = "retrieve" /\ limit < 0 /\ Fail("error")

(* SELECT * FROM t LIMIT sample_data_limit, for each table of the prompt.  *)
SampledUnlocked(t) == locked
Sampled(t) == locked \cup {t}
Sample(t) ==
  /\ pc = "sample" /\ t \in unsampled
  /\ limit >= 0 /\ Resolves(t)
  /\ locked' = Sampled(t)
  /\ unsampled' = unsampled \ {t}
  /\ UNCHANGED <<existing, pc, arguments, schema, text, run, stored, history>>

SampleFails(t) ==
  /\ pc = "sample" /\ t \in unsampled
  /\ limit < 0 \/ ~Resolves(t)
  /\ Fail("error")

AskModel(a) ==
  /\ pc = "sample" /\ unsampled = {}
  /\ answer' = a /\ sql' = extract_sql(a)
  /\ GoTo("run")
  /\ UNCHANGED <<existing, locked, arguments, prompt, run, stored, history>>

-----------------------------------------------------------------------------
(* build_sql_result_json: the SQL with read_only = true, then EXPLAIN and  *)
(* the SQL again, of which EXPLAIN takes the first statement, with         *)
(* read_only = false.                                                      *)

Remaining == {i \in Starts(sql) : i >= position}
Current == StatementFrom(sql, Min(Remaining))
Parses == IF pass = 1 THEN WellFormed(sql) ELSE Explainable(sql)

(* Told read_only, SPI refuses what is no plain query.                     *)
RefusedNever == FALSE
Refused == pass = 1 /\ Kind(Current) = "write"

Explained == pass = 2 /\ 1 \in Remaining

(* What SPI_execute returns if this statement is the last one: EXPLAIN is  *)
(* a utility statement although it returns rows.                           *)
SpiCode == IF Explained THEN "SPI_OK_UTILITY" ELSE "SPI_OK_SELECT"

(* A query that calls volatile functions leaves what they write.           *)
Effect ==
  IF ~Explained /\ (Calls(Current) \/ Kind(Current) = "write")
  THEN {[id |-> id, at |-> Min(Remaining), pass |-> pass, what |-> Kind(Current)]}
  ELSE {}

Execute ==
  /\ pc = "run" /\ Parses
  /\ Remaining # {} /\ ~Refused
  /\ Uses(Current) \subseteq existing
  /\ locked' = locked \cup Uses(Current)
  /\ effects' = effects \cup Effect
  /\ explain' = IF pass = 1 \/ SpiCode # "SPI_OK_SELECT" THEN "none"
                ELSE IF Explained THEN "plan" ELSE "rows"
  /\ position' = Min(Remaining) + Len(Current)
  /\ UNCHANGED <<existing, pc, arguments, prompt, text, pass, records, history>>

TableMissing ==
  /\ pc = "run" /\ Parses
  /\ Remaining # {} /\ ~Refused
  /\ ~(Uses(Current) \subseteq existing)
  /\ Fail("missing")

ExecuteFails ==
  /\ pc = "run"
  /\ \/ ~Parses
     \/ Starts(sql) = {}
     \/ Remaining # {} /\ Refused
  /\ Fail("error")

(* On to EXPLAIN, and from there to the model for a report's narrative.    *)
Executed ==
  /\ pc = "run" /\ Parses
  /\ Starts(sql) # {} /\ Remaining = {}
  /\ pass' = 2 /\ position' = 1
  /\ GoTo(IF pass = 1 THEN "run" ELSE IF event = "report" THEN "report" ELSE "audit")
  /\ UNCHANGED <<existing, locked, arguments, prompt, text, explain, stored, history>>

-----------------------------------------------------------------------------
(* What is kept.                                                           *)

Row(table) == {[id |-> id, in |-> table]}
Record(place, table, next, enabled) ==
  /\ pc = place
  /\ records' = IF enabled THEN records \cup Row(table) ELSE records
  /\ GoTo(next)
  /\ UNCHANGED <<existing, locked, arguments, prompt, text, run, effects, history>>

(* A report asks its model after the SQL has run; the model must load.     *)
Report == Record("report", "reports", "audit", TRUE)
Audit == Record("audit", "audit", "trace", AuditEnabled)
Trace == Record("trace", "trace", "done", TraceEnabled)

Return ==
  /\ pc = "done"
  /\ outcomes' = outcomes \cup {Outcome("answer")}
  /\ GoTo("idle")
  /\ UNCHANGED <<existing, locked, arguments, prompt, text, run, stored, txn, kept>>

(* A model that does not load, an INSERT that fails.                       *)
Fails == pc \in {"model", "report", "audit", "trace"} /\ Fail("error")

-----------------------------------------------------------------------------
Next ==
  \/ \E g \in Given \cup {NoSchemaInfo}, n \in Limits : StartText2Sql(g, n)
  \/ \E s \in Scripts : StartExecute(s) \/ StartReport(s)
  \/ GetModel \/ ArgumentThrows \/ SchemaGiven \/ SchemaRead \/ SchemaFails
  \/ Retrieve \/ RetrieveFails
  \/ \E t \in Tables : Sample(t) \/ SampleFails(t)
  \/ \E a \in Answers : AskModel(a)
  \/ Execute \/ TableMissing \/ ExecuteFails \/ Executed
  \/ Report \/ Audit \/ Trace \/ Return \/ Fails
  \/ Commit \/ Rollback
  \/ \E t \in Tables : CreateTable(t) \/ DropTable(t)

Spec == Init /\ [][Next]_vars

-----------------------------------------------------------------------------
(* What the pipeline owes its callers.                                     *)

(* Of what the SQL does only the calls in its queries last, once for the   *)
(* statement that EXPLAIN takes, twice for the others, although the second *)
(* execution is read-write; they and the report, audit and trace rows      *)
(* stand or fall together.                                                 *)
StandTogether ==
  LET live == kept \cup txn
      Done(o) == {r.in : r \in {r \in records : r.id = o.id}}
      Left(o) == {<<e.at, e.pass>> : e \in {e \in effects : e.id = o.id /\ e.what = "query"}}
      Calling(o) == {i \in Starts(o.sql) : Calls(StatementFrom(o.sql, i))}
  IN
  /\ \A e \in effects : e.id \in live /\ e.what = "query"
  /\ \A r \in records : r.id \in live
  /\ \A o \in outcomes : o.id \in live =>
       /\ o.end = "answer"
       /\ Left(o) = Calling(o) \X {1} \cup (Calling(o) \ {1}) \X {2}
       /\ Done(o) = (IF o.event = "report" THEN {"reports"} ELSE {})
                      \cup (IF AuditEnabled THEN {"audit"} ELSE {})
                      \cup (IF TraceEnabled THEN {"trace"} ELSE {})

(* The SQL fails for want of a table only in its first execution, and      *)
(* generated SQL only if it names a table that was not in its prompt: the  *)
(* sample data keeps the tables of the prompt from being dropped while the *)
(* model answers, the first execution those of the second.                 *)
PromptIsReliable ==
  \A o \in outcomes : o.end = "missing" =>
    /\ o.pass = 1
    /\ o.event = "text2sql" => \E t \in Tables \ o.prompt : Positions(o.sql, t) # {}

(* Queries are run to the last one and nothing else is, whatever prose     *)
(* without keywords comes before them and whatever follows their fence:    *)
(* unless they start in small letters and the answer has a SELECT in       *)
(* capitals anywhere, be it after the fence.                               *)
QueriesSurviveExtraction ==
  \A i, j \in DOMAIN answer :
    LET queries == SubSeq(answer, i, j) IN
    /\ i <= j
    /\ \/ answer[i] = "SELECT"
       \/ answer[i] = "select" /\ Positions(answer, "SELECT") = {}
    /\ \A k \in Starts(queries) : Kind(StatementFrom(queries, k)) = "query"
    /\ Occurring(SubSeq(answer, 1, i - 1)) = {}
    /\ j = Len(answer) \/ answer[j + 1] = "fence"
    => sql = queries

(* "execution.explain" holds the plan of the SQL.                          *)
ExplainCaptured == \A o \in outcomes : o.end = "answer" => o.explain = "plan"
=============================================================================
