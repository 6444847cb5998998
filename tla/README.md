# A TLA+ model of pg_llm

pg_llm is a PostgreSQL extension: C++ functions, called from SQL, that keep
a catalog of model instances, ask models, route questions among them, keep
chat sessions, generate and run SQL, and keep audit, trace, report and
knowledge rows.  This directory holds TLA+ modules for the parts of it whose
correctness depends on order, concurrency or failure, the TLC configurations
that check them, and proofs checked with TLAPS.

Sources are cited as `file:line` of the repository.  `P` is `src/pg_llm.cpp`,
`MM` `src/models/model_manager.cpp`, `LI` `src/models/llm_interface.cpp`, `T2`
`src/text2sql/text2sql.cpp`, `SUP` `src/utils/pg_llm_support.cpp`, `SQL`
`sql/pg_llm--1.1.sql`.

## 1. The system

Every function runs in a PostgreSQL backend, inside the transaction of its
client.  Backends share the tables of `_pg_llm_catalog` and nothing else; what
lives in C++ objects (the model cache) is private to a process and is not
transactional.  Access to the tables goes through SPI, one SQL statement at a
time: a statement run with `read_only = true` sees the snapshot of the client's
statement, one run with `false` takes a fresh snapshot (READ COMMITTED).
Between the statements of one function there may be a call to a model that
takes seconds.  An error is `ereport(ERROR)`, a `longjmp` that skips C++
destructors and aborts the transaction; a C++ exception that nothing catches
ends the process, and PostgreSQL restarts all backends.

| Component | State | Operations | Hard because | Correct when |
|---|---|---|---|---|
| Sessions (P:301-506, 1242-1323, 1453-1463) | `pg_llm_sessions`, `pg_llm_session_messages` (cascade) | create, turn, set_max_messages, update_state, delete, cleanup, get | turns of several backends insert, trim, touch and delete the same rows across a model call | no message outlives its session, the history is bounded, is a whole number of turns where it can be, and forgets from the old end; every call ends |
| Model catalog and `ModelManager` (MM, `src/catalog`, P:279-299, 1069-1113) | `pg_llm_models`; per process: instance cache, factories, mutex | add_model, remove_model, get_model | the cache outlives rollbacks and does not see other backends; an error raised under a `lock_guard` | no committed row is one that `initialize` refuses; caches are stale only for reasons one can name; every call returns |
| Chat routing (P:510-696, 1117-1131, 1325-1363, 1639-1720; MM:97-140) | candidate threads, the curl handle and buffer of each instance, answers; audit, trace and session message rows | chat, parallel_chat, multi_turn_chat, chat_stream, multi_turn_chat_stream | threads finish in any order, models are missing or fail, writes fail one by one, others use the session meanwhile | the best answer is selected and judged by the right policy, answers do not mix, the records are those of the answers that stand |
| Provider adapter `LLMInterface` (LI) | configuration, curl handle | initialize, chat, stream, embedding | shared by threads, network | see routing |
| Text2SQL and reports (T2, P:725-918, 1225-1240, 1365-1398) | the prompt, the SQL; report, audit and trace rows | text2sql, text2sql_json, execute_sql_with_analysis, generate_report | DDL of other clients during the model call; the SQL runs twice; several statements | what the SQL does stands or falls with its records, the prompt's tables stay, clean answers are executed as they are |
| Knowledge and RAG (P:932-1030, 1465-1528) | documents, chunks | add_knowledge, search, RAG context of chat | chunk by chunk insertion, ranking cut by LIMIT, queries used as ILIKE patterns | searches see whole documents and find plain words that stand in them |
| Secrets (SUP:152-300) | nothing but `pg_llm.master_key` | encrypt, decrypt | padding at byte level | what was sealed opens |
| Set-returning functions (P:1166-1222, 1282-1323, 1401-1451, 1484-1528, 1562-1610, 1639-1750) | the SPI stack, memory contexts, objects on the C++ heap | search_vectors, get_sessions, get_session_messages, get_audit_log, search_knowledge, chat_stream, multi_turn_chat_stream | four stay connected to SPI between the rows of a scan, and scans of a select list or of several cursors overlap | every scan gives back one connection, rows are those of the snapshot, generated SQL meets its own connection, a stream ends in its answer |
| Vector store, embeddings | `pg_llm_vectors`, `pg_llm_queries` | store_vector, search_vectors, get_embedding | set-returning functions hold SPI open | see the line above |
| Observability | `pg_llm_audit_log`, `pg_llm_trace_log` | written by requests; get_audit_log, get_trace | as routing | as routing |
| Feedback | `pg_llm_feedback` | record_feedback | a single INSERT | - |
| `SessionManager` (`include/models/session_manager.h`) | in-memory sessions | - | nothing includes it | - |

Interactions: chat functions call the registry for their models, the session
functions for history, the knowledge search for context and the observability
functions last, all in the transaction of the client.  Text2SQL and reports
call the registry, generated SQL runs through SPI in the same transaction.

## 2. The modules

| Module | Extends / uses | What it is |
|---|---|---|
| `MessageWindow` | | which messages a cap keeps (`ORDER BY id DESC OFFSET n`) |
| `SessionHistory` | `MessageWindow` | abstract specification: each session a bounded history, each call one step |
| `SessionStore` | `MessageWindow`; instance of `SessionHistory` | the session tables under concurrent backends, one SQL statement a step |
| `ModelRegistry` | | catalog rows, caches, mutexes, rollbacks, crashes |
| `ChatRouting` | | a chat request of any kind, thread by thread and write by write |
| `SqlText` | | answers and SQL as token sequences: `extract_sql`, and how SPI sees statements |
| `Text2Sql` | `SqlText` | the Text2SQL and report pipelines with concurrent DDL |
| `Knowledge` | | documents, chunks, characters and searches |
| `StreamChunks` | | the rows of a streamed answer, as operators |
| `Scans` | `StreamChunks` | the set-returning functions, call by call, over the SPI stack |
| `SecretCodec` | | sealing and opening over an abstract cipher |
| `MC...` | the module of the name | instances for TLC |
| `SessionStoreProofs`, `ModelRegistryProofs`, `ChatRoutingProofs`, `Text2SqlProofs`, `KnowledgeProofs`, `ScansProofs` | the module of the name, `TLAPS` | theorems |
| `SessionTurnsProofs` | `SessionStoreProofs` | theorems about turns, waiting and cleanup in `SessionStore` |
| `SessionWindowProofs` | `SessionTurnsProofs` | theorems about what `SessionStore` keeps and forgets |

A few operators that no specification uses stand next to the one they vary
(`NewestAndOne`, `TrimmedBeforeInsert`, `WholeChunks`, ...).  They are
plausible mistakes: replacing the right operator by the variant makes TLC
refute the property that the variant is listed with in `PROJECT.json`, so no
property holds whatever the code does.

### SessionStore

`sess` is the committed version of each session row, `newv` the version its
lock holder has written, `lock` that holder, `share` the KEY SHARE locks that
foreign-key checks leave on it; `msgs` are the committed messages, `ins` and
`del` what each open transaction has inserted and deleted.  `pc[b]` is the SQL
statement backend `b` is at.  The four statements of an append
(P:355-388: strict read, INSERT, trimming DELETE, UPDATE of `last_active_at`)
are `StartChat`, `InsertMessage`, `BeginTrim` with one `DeleteMessage` per row,
and `TouchSession`; an append of the question, then one of the answer, makes a
turn.  A DELETE visits its rows one by one in an order the database chooses
(`\E m \in todo[b]`), waiting for each row's writer: the deadlocks come from
there.  Waiting is a guard, `DeadlockAbort` is PostgreSQL's detector, `Fail`
any error or client ROLLBACK at any point, and also what a crash does to each
backend.  `offered`, `given` and `gone` are history variables: the caps a session
has had for good, those that the transaction holding its row has given it, which
join them when it commits, and the messages that are gone for good.  A
transaction may set a cap and set it back, and chat in between: what it has
trimmed by then was trimmed to a cap that no committed row ever showed.

### ModelRegistry

`row`, `newv`, `lock` are the catalog as above; `cache[b]` is
`model_instances_` (MM:49-94), `orphaned` the backends whose mutex was left
locked by an ERROR under `lock_guard` (MM:36), `key[b]` the master key of a
backend.  `Upsert` is the rest of add_model after its row lock is granted:
write, build, cache; `Forget` empties the cache before `DeleteRow` waits for
the row, in the order of P:1109-1113.  `Ask` is every function that needs a
model.  `Crash` is the exception of a function that nothing catches: caches are
empty after it, each backend that clients then connect to has whatever key they
set (`Restart`), and the catalog keeps committed rows.  `quality` says whether
`initialize` accepts a configuration, `legible` whether its sealed secrets come
back with the right key at all (`SecretCodec` shows that some do not): a
committed row that initializes may still never load.

### ChatRouting

One request after another of one backend.  Other backends append to the logs,
which is left out, and use the session of the multi-turn requests, which is not;
the catalog is read in one snapshot.  A `workload` says what rows and
instances there are (`catalog`), how the GUCs are set and what the clients may
ask; it is chosen in the beginning, so that one run covers many.  `workers` are
the threads of `parallel_inference`, in launch order, each with its own
exchange of several steps on the handle of its instance, so that two threads on
one instance interleave (`target`, `spilled`, kind "mixed").  `Collect` is
`future.get()` in launch order, `Compare` one turn of the selection loop.  A
value of `confidence` is a level 0..3: 0.0, two levels to compare thresholds
with, and 1.0; `RawLevel` stands for the constant 0.9 of LI:151.  Single
requests take the same path with one worker.  Every write can fail
(`WriteFails`), and the client can commit or roll back between requests.

`messages` are the rows of the session, numbered by request and by their order
in it.  `append_session_message` is P:355-388: insert, then trim to
`max_messages` whatever is older, messages of earlier turns included, or raise
an ERROR if there is no session or the cap is negative.  `DropSession` deletes
the messages with the session (P:459-478, and the foreign key).  It and
`OthersTurn` are another client's, between two requests, and wait for the session
row that a turn of the open transaction has locked (`OthersAct`); a deletion
during a request is one of the failures of its first append.
Caps are fixed here; `SessionStore` has their change and statements that
interleave.  `LogsMatchAnswers` therefore does not say that every answer stands
in the session, but that it does until the session is deleted or holds
`max_messages` newer messages.

An exchange may also give JSON of another shape, over which
chat_completion throws (kind "thrown", LI:110-140); so does a threshold option
that is no number (P:519).  `CollectThrows` and `FallbackThrows` are the end of
the process: the transaction is gone and the next request meets an empty cache
(`Restart`), so that an instance that was only cached loads no more.

### Text2Sql and SqlText

Text is a sequence of tokens: keywords in both cases, table names, a call of a
volatile function (an effect that a SELECT may leave), prose, fences,
semicolons.  `SqlText` has `extract_sql` (T2:523-566) and the statement kinds
of PostgreSQL that matter here: in the first execution (read-only) only plain
SELECTs pass; the second, `EXPLAIN ` followed by the text (P:793-794), is
read-write, explains the first statement and executes the others again.
`locked` holds the tables whose ACCESS SHARE lock the transaction has from its
sample queries or its SQL; `DropTable` of others waits for them.  A
`schema_info` that is no JSON, or an option of another type, is `Malformed`:
reading it ends the process (`ArgumentThrows`).

### Knowledge, SecretCodec

`chunks` and `documents` include uncommitted rows, `committed` says which
documents others see.  `Distance` between embeddings is a constant: no
property depends on what it computes.  A text is a sequence of bytes, some of
which make a character only in pairs (`Leads`, `Trails`): `split_content` cuts
between them, and ILIKE refuses such a chunk where the locale makes it verify
its input (`VerifiesText`).  The query goes between two percents as it is
(P:944): `Pattern`, `Takes` and `ILike` are the pattern language, with its
wildcards, its escapes, letters of either case (`Lower`), and underscores that
take a whole character.  `WordsAreFound` is about queries without the three
special bytes, and it compares bytes, not patterns.

`SecretCodec` models the payload as
IV, tag and ciphertext, whose value for a given key and text is chosen
freely, and base64 decoding by what it does to trailing zero bytes.

### Scans, StreamChunks

The executor calls a set-returning function once per row.  In FROM it calls it
to the end at once; in a select list it calls each unfinished function once per
row, in order, and a client may FETCH from another cursor between two rows or
CLOSE this one.  `portal` are the statements of a transaction, `scan` the calls
of each, `running` the call the executor is at.  `stack` is the stack of SPI
connections: SPI_finish ends the connection on top, whoever made it, and goes
back to the memory context in which that was made (`SavedBy`); the
context of a scan that has been read to its end is deleted.  `states` are the
objects the stream and knowledge functions keep on the C++ heap.  A read of
freed rows or an allocation in a freed context is `undefined`, and may also be a
`Crash`.  With `spi` the statement is one that `build_sql_result_json` runs
inside its own connection, `reader`.  Which rows pass `similarity_threshold`
(P:1185), or the ranking of a search, is a choice of their number (`Matching`); rows go by
their place in the result.  `StreamChunks` has the rows of
`stream_chat_completion` and of the mock provider: chunks of 24 and 16 bytes, or
the configured `mock_chunks` as they are (LI:325-330), which need not spell the
answer (`Spelt`), and a last row that has the whole answer.

## 3. Runs

| Run | Instance | Shows |
|---|---|---|
| `sessions_calls` | 3 backends, 2 sessions, 4 calls, 2 calls per transaction, caps 1 and 3, clock to 2, all functions | cap respected, oldest forgotten first, whole turns, answers numbered in commit order; no orphans, the locks that prevent them, cleanup spares active sessions, every deadlock cycle passes through a row-by-row DELETE |
| `sessions_history` | 2 backends, 1 session, 5 calls, one per transaction, caps -1, 0, 1, 3, fairness | refinement of `SessionHistory`; every transaction ends; the history fits some cap the session has had |
| `registry_cache` | 2 backends, 2 names, 1 key or none, 4 calls | no committed row is one that `initialize` refuses; the only two causes of a stale cache |
| `registry_hang` | 2 backends, 1 name, no keys, 3 calls, fairness | violated: `EveryCallReturns` (finding) |
| `routing_requests` | 3 instances; one request with 3 catalogs, lists of 2 and 3 with a repetition, 2 settings, 4 options; two requests of every kind, audit or trace off, malformed options; two requests around a restart; three multi-turn requests in sessions with cap -1, 0, 1 or 3, among which another client adds a turn or deletes the session; fairness | selection, fallback, separation of answers, records that match the answers that stand, termination |
| `routing_missing` | a list whose first model does not load | violated: `SelectedNamesItsAuthor` (finding) |
| `text2sql_pipeline` | 3 tables, one of them unquotable, 8 answers, 5 scripts, 2 requests, malformed arguments | effects stand with records, the prompt is reliable, queries survive extraction |
| `text2sql_explain` | one query | violated: `ExplainCaptured` (finding) |
| `knowledge_search` | 2 backends, 5 texts of 0 to 4 bytes, with a character of two bytes, a capital and a percent, 5 queries, 3 of them with a wildcard or a backslash, chunk size 2 or 3, limits -1 to 2, 2 documents, 1 search | whole documents, plain words found, searches refused only for a character across a border |
| `knowledge_characters` | the same | violated: `SearchesAnswer` (finding) |
| `scans` | 2 statements of 13 kinds, tables of 0 to 2 rows, texts of 0, 1 and 3 bytes in chunks of 1 and 2 | one connection given back per scan, FROM is safe in any company, when select lists take each other's connections, streams end in their answer and spell it or their `mock_chunks` |
| `secrets_open` | bytes 0 and 1, two keys | violated: `SealedOpens` (finding) |

Why the bounds are enough.  A race on a session needs two writers and, for the
trim, a third transaction whose rows they fight about: hence three backends.
The caps 1 and
3 are those with which a trim splits a turn and keeps a turn and a half, -1 and 0
(in `sessions_history`) the refused one and that which keeps nothing; other even
caps only cut where turns end.
Four calls are one creation and three turns, or a creation, a change of the cap, a
turn and a deletion, in two or more transactions; `sessions_history` has five. In the registry rows and cache
entries of different names meet only in deadlocks, and two backends writing
two names each, four calls, make the shortest.  Routing compares confidences only with each other and with
thresholds: four levels give every order of two answers and a threshold.  Two
requests let one transaction hold a good and a failing one, and one request
follow a restart; three turns fill a session of three messages and trim a
whole turn, with or without one of another client between them.  Scans meet in pairs: two statements with up to two calls each
have every order of first rows, last rows and abandonment of three scans.  Texts of
four bytes and chunks of two and three give full, partial and empty last
chunks and words across a border.  `Backends` and `Sessions` (or `Names`) are
symmetric sets wherever a run checks safety only.

`CHECK_DEADLOCK FALSE` stands in the runs whose clients stop after the
bounded number of calls; waiting for ever is caught by the liveness properties.

## 4. Fairness

- `SessionStore`: weak fairness of the statements of each backend (the kernel
  schedules every backend, and PostgreSQL wakes waiters when a lock is
  released), of its `Commit` (clients end their transactions: without it,
  nobody can promise anything to those who wait for their locks) and of
  `DeadlockAbort` (`deadlock_timeout`).  New calls, errors and time are not owed.
- `ModelRegistry`: the same.
- `ChatRouting`: weak fairness of the backend's next step and of the threads,
  hence of the endpoints.  The second is an assumption about the environment:
  no timeout is set on the curl handle (LI:215-232), so an endpoint that stays
  silent keeps the backend, its transaction and its locks.

## 5. Theorems

Every safety invariant and action property that a passing run checks is also a
theorem.  They are proved for every value of the constants that satisfies the
named ASSUMEs (`SessionStoreAssumption`, `ModelRegistryAssumption`,
`RoutingAssumption`, `Text2SqlAssumption`, `KnowledgeAssumption`,
`ScansAssumption`), which say little more than that the constants have their
types and that the null values are distinct from the others; `SqlTextAssumption`
adds that table names are no keywords, `ChunkAssumption` that chunks are not
empty.  TLC found each inductive invariant true on its run before the proof.

- `SessionStoreProofs`: `TypeCorrect`, `LocksHold`, `NoMessageOutlivesItsSession`.
  `NoOrphans` is not inductive: a commit makes the inserts of one transaction
  and the deletion of a session by another take effect, so the invariant has
  to carry what the locks guarantee before that.  `Inv` is
  `TypeOK /\ NoOrphans /\ LockDiscipline`; the four parts of `LockDiscipline`
  are: an unlocked row has no second version; who has inserted a message holds
  KEY SHARE on its session; who holds KEY SHARE sees a live row or wrote the
  row; while a transaction deletes a session nobody else holds KEY SHARE on it, and
  the messages the deleter still sees are those its cascade has yet to visit.  Each
  action has its lemma; insertion, commit and the cascade are the hard ones.
  Several calls in one transaction are included.
- `SessionTurnsProofs`: `RowLocksAloneDoNotDeadlock`, `CleanupDeletesIdleSessions`,
  `TurnsStayWhole`, `AnswersCommitInOrder`.  What a first call holds while it waits
  depends on its statement alone (`CallHoldings`): nothing, KEY SHARE on the
  session it answers in, or more if it deletes; a cycle of the first two kinds
  would have to wait for a lock that none of them keeps.  For turns, `TurnInv` says
  that the two messages of a turn have one number and one owner, that a question
  comes before its answer in the order of ids, that a transaction sees its own turns
  whole, and that whoever has an uncommitted answer holds its session's row.
- `SessionWindowProofs`: `HistoryStaysWithinOfferedCap`, `HistoryStaysWithinCap`,
  `TrimsForgetTheOldest`.  Neither bound is inductive: a trim counts what its
  transaction sees, which is not what is committed when it commits.  `Settled`
  carries what it leaves: a transaction with messages of a session, unless it has
  yet to trim, holds the row, so that it sees all other turns, and leaves no more
  than some cap allows.  `Trims` and `FullWindows` add, as long as the session has
  one cap, that whoever deletes leaves a full window of newer messages, and that
  what is gone is older than what is kept.
- `ModelRegistryProofs`: `RegistryTypeCorrect`, `CommittedRowsAlwaysInitialize` and
  `CachesGoStaleOnlyThroughOthers`.
  add_model writes the row before it builds the instance; the invariant adds
  that a row written and not yet committed initializes, unless its backend hangs on
  its mutex, and a hung backend never commits.  For the caches, `CacheInv` follows
  one revision from the call that makes it: nobody has it before its row is
  written, only its backend caches it before the commit, and a cached one is
  what the backend sees, undone, or has been replaced by another.
- `ChatRoutingProofs`: `RoutingTypeCorrect`, `BestAnswerIsSelected`,
  `RecordsMatchAnswers`, `AnswersStayApart` and `LowAnswersAreReplaced`.  For the
  selection the invariant says how far the launch has come, that the collected answers are
  those of the first workers in launch order, and the loop invariant of the
  selection: the best so far is maximal among the answers looked at, strictly
  above those before it.
  For `RecordsMatchAnswers`, `Stage` says what the running request has recorded at
  each place of its way, `Books` that a number is given once and that a request
  has no outcome while it runs; an ERROR, a restart or a ROLLBACK takes exactly
  the rows of the open transaction, and a row added for one request
  is nobody else's.  `Session` is about the messages: what is committed
  (`stored`) holds nothing of the open transaction, is within the cap, and is what
  is there unless that transaction has locked the session; a committed
  answer has its turn in it, or as many newer messages.  An append keeps that because a trim drops
  the oldest message only when enough newer ones are there (`TrimDropsOldest`), and
  leaves no more than the cap (`TrimKeepsFew`).  For `AnswersStayApart` the invariant is
  that threads of different names have different handles, each told to write to
  its own thread's buffer.  For `LowAnswersAreReplaced` it follows who gave the
  answer: when all models load, thread, name and answer have one place, so the
  selected label is the author and `KeepAnswer` judges by the author's policy; a
  restart empties caches and changes no policy.
- `Text2SqlProofs`: `PipelineTyped`, `RequestsStandTogether`, `PromptsAreReliable`,
  `QueriesAreExtracted`.  `PipelineInv` says what the running request has left and
  filed at each step (`Wrote`, `Recorded`), that a request that has ended and is
  neither rolled back nor failed has left the whole of it (`Stood`), that sampled
  tables are locked as long as it runs (`Prompts`) and that what the first
  execution has passed was queries, whose tables it holds for the second (`Ran`).
  Extraction is about sequences alone: of the keywords that occur, the first of the
  list that does stands where the queries begin, and no fence stands before
  their end.
- `KnowledgeProofs`: `KnowledgeTyped`, `SearchesFindWholeDocuments`,
  `SearchesFindWords`, `OnlySplitCharactersRefuse`.  What `split_content` cuts,
  each byte in one chunk, is a lemma about division by the chunk size; the
  invariant (`KnowledgeInv`) is that a document being added has a first part of its
  chunks and is not committed, any other has all, and that a search has seen
  whole documents.  A word within a chunk is then a word of that chunk.  That the
  pattern language finds a plain query in a text exactly where it stands
  (`HitStands`, `StandsHit`) goes by the cuts of the text among the items of the
  pattern: each byte of the query advances them by one.  A chunk that
  is no text has, at one end, part of a character.
- `ScansProofs`: `ScanTypesHold`, `ConnectionsBalance`, `FromScansAreWhole`,
  `ConnectionsAreTakenFromLater`, `UndefinedIsExplained`, `ReadersEndOnTop`,
  `StreamsSpellReplies`.  `ScansInv` counts the holders of connections
  (`HoldingsBalance`), keeps the stack in the order of first calls (`Stacked`) and
  says that a connection that is missing was taken (`Connected`); above the
  connection of a reader there are as many as its own scans hold (`Reading`); a
  scan in FROM that is open is the call the executor is at and on top
  (`FromRuns`).  That chunks join to their text is proved by unrolling
  `FlattenSeq` to its partial results and taking the least prefix that would
  not be one of the text.

Left to TLC: liveness (`EveryCallEnds`, `EveryRequestEnds`), whose fairness and
ENABLED are out of the prover's reach, and the refinement of `SessionHistory`
(`ActsAsBoundedHistory`, for one call per transaction: a commit of several is no
single step of the abstract machine).  The refinement is a safety property and
within reach; what `WindowIInv` lacks for it is which messages a chat leaves when
it has read one cap and the session has had others.  Induction over data as a rule is out of reach as
well; where it was needed, it is replaced by a least counterexample.  The
properties that the code violates are of course no theorems.  No module uses a
RECURSIVE operator.

The proofs have corrected the model twice.  `RetainedAreNewest` was false of a
transaction that sets the cap of a session down and back up and chats in
between; `given` now remembers what it has set.  `QueriesSurviveExtraction` had left
out that `extract_sql` looks for SELECT in capitals before it looks for anything
else, in the whole answer: a query in small letters is lost if an explanation
after its fence says SELECT.

## 6. Divergences

Checked, with a counterexample of a run:

1. MM:36: an ERROR under the `lock_guard` leaves the mutex locked; the next
   call of the backend hangs (`registry_hang`).
2. P:662, MM:106: a model that cannot be loaded shifts the names, thresholds
   and fallbacks of the answers behind it (`routing_missing`).
3. P:795: the plan of EXPLAIN never reaches `execution.explain`
   (`text2sql_explain`).
4. SUP:205: one sealed secret in 256 does not open (`secrets_open`).
5. P:1024: chunks are cut at byte offsets; one that ends inside a character
   makes every later search of the knowledge base fail where ILIKE verifies its
   input (`knowledge_characters`).

Met while modelling; the modules follow the code:

- P:376: an append trims to the cap it read before its model call.  After a
  concurrent `pg_llm_set_max_messages` the history may exceed the new cap until the
  next turn; `HistoryWithinOfferedCap` says what holds.
- MM:53: a backend keeps its instance of a model that another backend replaced
  or removed (README.md:11 promises runtime add and remove);
  `StaleOnlyThroughOthersOrRollback` says what holds.
- P:622: a failed request raises before its audit row, or takes it with it, so
  the log has no failures (docs/ARCHITECTURE.md:151, "captures request outcome").
- P:1706-1728: a streamed multi-turn request leaves a trace row and nothing
  else: neither question nor answer is kept in the session, and no audit row is
  written (docs/ARCHITECTURE.md:98-99 and 151 say that both are); P:1651: streams
  are not judged by a threshold (docs/ARCHITECTURE.md:96-97).  `LogsMatchAnswers`
  states it as it is.
- LI:325-330: the chunks of a mock model with `mock_chunks` are these, whether or
  not they spell the response that its last row has.
- LI:229: for a name listed twice two threads share one curl handle, and an
  answer may be that of the other exchange, or of a mixture (kind "mixed"); `AnswersUnmixed` is about lists
  without repetition.
- LI:151: the body of a failed HTTP exchange is an answer of confidence 0.9.
- LI:203 against LI:33: a remote model with only an `api_key` initializes and
  is never ready; it answers with confidence 0.
- T2:363, P:960: a float8 similarity read as float4.  P:203, LI:349: an
  embedding component meant to be negative wraps in `size_t`.
- P:726, SUP:152, P:519: malformed `schema_info`, options of another type and
  other JSON that does not parse end the process and restart all backends,
  where docs/text2sql_design.md:104-111 promises `ereport(ERROR)` (`ArgumentThrows`
  of `Text2Sql`, `FallbackThrows` of `ChatRouting`).
- LI:110: so does a provider whose JSON has another shape, e.g. an error object
  in a list; future.get() (MM:117) throws it again in the backend.
- P:1606, P:1214: in select lists, or with several cursors, set-returning
  functions finish one another's SPI connections and read freed rows;
  `TakenFromLater` and `UndefinedExplained` say exactly when.  A scan that LIMIT
  or CLOSE abandons leaves its connection until the transaction ends, and a
  stream or knowledge scan its chunks for the life of the process.
- LI:180-182: the rows of an answer without text are both numbered 1; chunks
  of a stream are cut inside characters as those of documents are.
- P:944: `%`, `_` and the backslash of a knowledge query are not escaped for
  ILIKE: the first two match other text as well, whose chunks may fill the limit;
  a backslash is not looked for, and one at the end of the query turns the
  percent behind it into a letter, so that the search silently misses text with
  that very query in it.  `WordsAreFound` is about the other queries.
- SQL:130-138: pg_llm_store_vector is STRICT and has metadata DEFAULT NULL:
  without metadata the call returns NULL and stores nothing.
- SQL:207, P:1126: the default `'{}'` of parallel_chat is an empty list of
  models, hence an ERROR, not all models.
- T2:294, T2:346: SPI is told to stop after one row, whatever the LIMIT.
- T2:525: `extract_sql` cuts `INSERT ... SELECT` at its SELECT, does not know
  keywords in mixed case, and cuts `select ...` at a SELECT in capitals that stands
  anywhere behind it, be it in prose after the fence.
- P:794: of several statements, all but the first are executed twice.
- `sql/pg_llm--1.0--1.1.sql`: an upgraded `pg_llm_models` has no key on
  `instance_name`, which the ON CONFLICT of add_model needs.

## 7. What is not modelled, and the plan

Not modelled: savepoints, whose ROLLBACK takes back part of a transaction
and whose end frees the SPI connections and rows made since (here a transaction
stands or falls as a whole, so a function called under PL/pgSQL's EXCEPTION is
outside all modules); texts of prompts, reports and charts; redaction, which rewrites
text on its way into a row; feedback, a single INSERT that refers to
nothing; `store_vector`, another, except for the row it adds to `Scans`; the
caches, parallel search, analysis and validation of `Text2SQL` (a Text2SQL
object lives for one call, and those functions have no caller);
`stream_write_callback`, which nothing registers with curl; `SessionManager`,
which nothing includes; logging from worker threads, whose effect on the backend
the code does not determine; scripts and build files.

Order of work, the first nine done:

1. `SessionStore` with `SessionHistory`: the shared state that most callers
   touch at once.  Proof of `NoOrphans`.
2. `ModelRegistry`.  Proof of `CommittedRowsInitialize`.
3. `ChatRouting`.  Proof of `BestAnswerSelected`.
4. `Text2Sql` with `SqlText`.
5. `Knowledge`, `SecretCodec`.
6. `Scans`: the SPI stack under set-returning functions.
7. `StreamChunks`; characters in `Knowledge`; exceptions and restarts in
   `ChatRouting` and `Text2Sql`.
8. Proofs of `LogsMatchAnswers`, `AnswersUnmixed` and `LowAnswersFallBack`.
9. Proofs of the other safety properties: history and turns, deadlocks and
   cleanup in `SessionStore`, staleness in `ModelRegistry`, and all of `Text2Sql`,
   `Knowledge` and `Scans`.
10. Proof of the refinement `SessionStore => SessionHistory` for one call per
   transaction.
11. A composition of `ModelRegistry` and `ChatRouting`, in which other backends
   change the catalog under a request.
