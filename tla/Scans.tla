------------------------------- MODULE Scans -------------------------------
(***************************************************************************)
(* The set-returning functions of src/pg_llm.cpp, as the executor of one   *)
(* backend calls them: once per row, row by row of a FETCH when they stand *)
(* in a select list, to the end at once when they stand in FROM.  Four of  *)
(* them connect to SPI in their first call, read their rows out of the     *)
(* result of that connection and finish, not it, but whatever connection   *)
(* is then on top; three keep their rows in an object of the C++ heap.     *)
(* Cursors let scans of several statements of a transaction overlap.       *)
(***************************************************************************)
EXTENDS Integers, Sequences, FiniteSets, StreamChunks

CONSTANTS
  Portals,    \* statements that call them
  NoPortal,
  Queries,    \* what such a statement may be
  Replies,    \* what models stream
  MaxStored   \* bound on the rows of a table

OverTable == {"search_vectors", "get_sessions", "get_session_messages", "get_audit_log"}
OverStream == {"chat_stream", "multi_turn_chat_stream"}
OverHeap == OverStream \cup {"search_knowledge"}
Unlimited == {"get_sessions", "get_session_messages"}
Searching == {"search_vectors", "search_knowledge"}

(* Those that turn arguments into palloc'd text before they look at the    *)
(* state of their scan.                                                    *)
Decoding == OverHeap \cup {"get_session_messages", "get_audit_log"}

Query == [form : {"from", "list"}, spi : BOOLEAN,
          calls : Seq([fn : OverTable \cup OverHeap, limit : Int])]

ASSUME ScansAssumption ==
  /\ NoPortal \notin Portals
  /\ Queries \subseteq Query
  /\ Replies \subseteq Reply
  /\ MaxStored \in Nat

VARIABLES
  stored,     \* rows of each table
  portal,     \* the statements
  scan,       \* their scans, by the place in the select list or FROM
  running,    \* the call the executor is at
  context,    \* CurrentMemoryContext: of the executor, or that of a scan
  stack,      \* the SPI connections, by owner
  states,     \* objects on the C++ heap, by scan
  reader,     \* the statement that runs inside an SPI call
  serial,     \* connections made
  taken,      \* history: whose connection which scan has finished before its time
  undefined   \* history: statements with a call whose effect C++ does not define

vars == <<stored, portal, scan, running, context, stack, states, reader, serial, taken, undefined>>

NoCall == [portal |-> NoPortal, place |-> 0]
NoQuery == [form |-> "list", spi |-> FALSE, calls |-> <<>>]
Executor == <<"executor">>
ByScan(p, k) == <<"scan", p, k>>
ByReader(p) == <<"reader", p>>
Garbage == [garbage |-> TRUE]

NewScan == [at |-> "new", serial |-> 0, rows |-> <<>>, got |-> <<>>, reply |-> <<>>]
Calls(p) == portal[p].query.calls
Places == UNION {{<<p, k>> : k \in DOMAIN scan[p]} : p \in Portals}
Fn(p, k) == Calls(p)[k].fn
OnTable(p, k) == Fn(p, k) \in OverTable

TypeOK ==
  /\ stored \in 0..MaxStored
  /\ portal \in [Portals -> [at : {"unused", "open", "closed"},
                             query : Queries \cup {NoQuery}, snapshot : 0..MaxStored]]
  /\ \A p \in Portals :
       /\ DOMAIN scan[p] = DOMAIN Calls(p)
       /\ \A k \in DOMAIN scan[p] :
            /\ scan[p][k].at \in {"new", "open", "done", "left", "gone"}
            /\ Len(scan[p][k].got) <= Len(scan[p][k].rows)
            /\ scan[p][k].at = "done" => Len(scan[p][k].got) = Len(scan[p][k].rows)
  /\ running = NoCall \/ (/\ portal[running.portal].at = "open"
                          /\ running.place \in 1..(Len(Calls(running.portal)) + 1))
  /\ \A i \in DOMAIN stack : \/ \E c \in Places : stack[i] = ByScan(c[1], c[2])
                             \/ \E p \in Portals : stack[i] = ByReader(p)
  /\ states \subseteq Places
  /\ reader \in Portals \cup {NoPortal}
  /\ undefined \subseteq Portals

Init ==
  /\ stored \in 0..MaxStored
  /\ portal = [p \in Portals |-> [at |-> "unused", query |-> NoQuery, snapshot |-> 0]]
  /\ scan = [p \in Portals |-> <<>>]
  /\ running = NoCall /\ context = Executor
  /\ stack = <<>> /\ states = {}
  /\ reader = NoPortal /\ serial = 0
  /\ taken = {} /\ undefined = {}

-----------------------------------------------------------------------------
(* Statements and transactions.                                            *)

(* pg_llm_store_vector, or whatever adds a row, in another backend.  While *)
(* a function runs it makes no difference: snapshots are taken before.     *)
AddRow ==
  /\ stored < MaxStored /\ running = NoCall
  /\ stored' = stored + 1
  /\ UNCHANGED <<portal, scan, running, context, stack, states, reader, serial, taken, undefined>>

(* A statement takes its snapshot.  build_sql_result_json runs the one it  *)
(* is given inside a connection of its own.                                *)
Open(p, q) ==
  /\ running = NoCall /\ reader = NoPortal
  /\ portal[p].at = "unused"
  /\ portal' = [portal EXCEPT ![p] = [at |-> "open", query |-> q, snapshot |-> stored]]
  /\ scan' = [scan EXCEPT ![p] = [k \in DOMAIN q.calls |-> NewScan]]
  /\ IF q.spi THEN reader' = p /\ stack' = Append(stack, ByReader(p)) ELSE UNCHANGED <<reader, stack>>
  /\ UNCHANGED <<stored, running, context, states, serial, taken, undefined>>

(* A row of the select list calls each function that is not finished.      *)
Unfinished(p, k) == scan[p][k].at \in {"new", "open"}
After(p, k) ==
  LET ahead == {j \in DOMAIN scan[p] : j > k /\ Unfinished(p, j)} IN
  [portal |-> p, place |-> IF ahead = {} THEN Len(Calls(p)) + 1
                           ELSE CHOOSE j \in ahead : \A i \in ahead : j <= i]

Fetch(p) ==
  /\ running = NoCall /\ reader \in {NoPortal, p}
  /\ portal[p].at = "open"
  /\ running' = After(p, 0)
  /\ context' = Executor
  /\ UNCHANGED <<stored, portal, scan, stack, states, reader, serial, taken, undefined>>

(* The statement ends with scans it did not read to their end: CLOSE, or a *)
(* LIMIT.  Their memory contexts go, their connections stay.               *)
Abandoned(f, ended) ==
  [k \in DOMAIN f |-> IF f[k].at \in {"open", "left"} THEN [f[k] EXCEPT !.at = ended] ELSE f[k]]

Close(p) ==
  /\ running = NoCall /\ reader = NoPortal
  /\ portal[p].at = "open"
  /\ portal' = [portal EXCEPT ![p].at = "closed"]
  /\ scan' = [scan EXCEPT ![p] = Abandoned(@, "left")]
  /\ UNCHANGED <<stored, running, context, stack, states, reader, serial, taken, undefined>>

(* The end of a transaction empties the SPI stack.                         *)
Reset ==
  /\ portal' = [p \in Portals |-> IF portal[p].at = "open" THEN [portal[p] EXCEPT !.at = "closed"]
                                  ELSE portal[p]]
  /\ scan' = [p \in Portals |-> Abandoned(scan[p], "gone")]
  /\ running' = NoCall /\ context' = Executor
  /\ stack' = <<>> /\ reader' = NoPortal
  /\ UNCHANGED <<stored, serial, taken>>

EndTransaction ==
  /\ running = NoCall /\ reader = NoPortal
  /\ Reset
  /\ UNCHANGED <<states, undefined>>

Error == Reset /\ UNCHANGED <<states, undefined>>

-----------------------------------------------------------------------------
(* One call of a function.                                                 *)

At(p, k) == running = [portal |-> p, place |-> k] /\ k \in DOMAIN scan[p]

(* similarity_threshold, or the words of the query, let some of the rows   *)
(* pass; which is data.                                                    *)
Matching(p, k) == IF Fn(p, k) \in Searching THEN 0..portal[p].snapshot ELSE {portal[p].snapshot}
RowCount(p, k, matching) ==
  IF Fn(p, k) \in Unlimited \/ Calls(p)[k].limit > matching THEN matching ELSE Calls(p)[k].limit

(* Rows go by their place in the result.                                   *)
TableRows(n) == [i \in 1..n |-> [row |-> i]]

(* read_only = true: the snapshot of the statement.                        *)
RowsNow(p, k) == {TableRows(stored)}
RowsOf(p, k) == {TableRows(RowCount(p, k, matching)) : matching \in Matching(p, k)}

ConnectionOnce(p, k) == IF OnTable(p, k) /\ stack = <<>> THEN <<ByScan(p, k)>> ELSE <<>>
Connection(p, k) == IF OnTable(p, k) THEN <<ByScan(p, k)>> ELSE <<>>

(* SRF_IS_FIRSTCALL: connect and run the query, or ask the model and keep  *)
(* its chunks; the call goes on with the first row.                        *)
Begin(p, k, rows, reply) ==
  /\ serial' = serial + 1
  /\ scan' = [scan EXCEPT ![p][k] =
       [at |-> "open", serial |-> serial + 1, rows |-> rows, got |-> <<>>, reply |-> reply]]
  /\ stack' = stack \o Connection(p, k)
  /\ states' = IF OnTable(p, k) THEN states ELSE states \cup {<<p, k>>}
  /\ UNCHANGED <<stored, portal, running, context, reader, taken, undefined>>

FirstCall(p, k) ==
  /\ At(p, k) /\ scan[p][k].at = "new"
  /\ Fn(p, k) \notin OverStream /\ Calls(p)[k].limit >= 0
  /\ \E rows \in RowsOf(p, k) : Begin(p, k, rows, <<>>)

FirstCallOfStream(p, k, reply) ==
  /\ At(p, k) /\ scan[p][k].at = "new"
  /\ Fn(p, k) \in OverStream
  /\ Begin(p, k, Rows(reply), reply)

(* No such model or session, a negative LIMIT, or an INSERT of the audit   *)
(* row, after which the new object is out of reach.                        *)
FirstCallFails(p, k) ==
  /\ At(p, k) /\ scan[p][k].at = "new"
  /\ Reset
  /\ states' \in {states} \cup IF OnTable(p, k) THEN {} ELSE {states \cup {<<p, k>>}}
  /\ UNCHANGED undefined

LiveContext ==
  context = Executor \/ \E c \in Places : context = ByScan(c[1], c[2]) /\ scan[c[1]][c[2]].at = "open"
LiveRows(p, k) == OnTable(p, k) => \E i \in DOMAIN stack : stack[i] = ByScan(p, k)

MoreThanOne(p, k) == Len(scan[p][k].got) + 1 < Len(scan[p][k].rows)
More(p, k) == Len(scan[p][k].got) < Len(scan[p][k].rows)

(* A function in FROM is called again at once, in a clean context.         *)
Again(p, k) == IF portal[p].query.form = "from" THEN running ELSE After(p, k)

Deliver(p, k, row) ==
  /\ scan' = [scan EXCEPT ![p][k].got = Append(@, row)]
  /\ running' = Again(p, k)
  /\ UNCHANGED <<stored, portal, context, stack, states, reader, serial, taken>>

(* SRF_RETURN_NEXT: a row out of the result, formed in CurrentMemoryContext. *)
NextRow(p, k) ==
  /\ At(p, k) /\ scan[p][k].at = "open" /\ More(p, k)
  /\ LiveContext /\ LiveRows(p, k)
  /\ Deliver(p, k, scan[p][k].rows[Len(scan[p][k].got) + 1])
  /\ UNCHANGED undefined

NextRowUndefined(p, k) ==
  /\ At(p, k) /\ scan[p][k].at = "open" /\ More(p, k)
  /\ ~LiveContext \/ ~LiveRows(p, k)
  /\ Deliver(p, k, Garbage)
  /\ undefined' = undefined \cup {p}

(* SPI_finish goes back to the context in which the connection was made,   *)
(* for a scan that of its own rows, which SRF_RETURN_DONE then deletes.    *)
Top == IF stack = <<>> THEN Executor ELSE stack[Len(stack)]
SavedBy(owner) == IF Len(owner) = 3 THEN owner ELSE Executor

FinishesAlways(p, k) == TRUE
Finishes(p, k) == OnTable(p, k)

Done(p, k) ==
  /\ At(p, k) /\ scan[p][k].at = "open" /\ ~More(p, k)
  /\ scan' = [scan EXCEPT ![p][k].at = "done"]
  /\ IF Finishes(p, k) /\ stack # <<>>
     THEN /\ stack' = SubSeq(stack, 1, Len(stack) - 1)
          /\ taken' = taken \cup {t \in Places \X {<<p, k>>} :
               Top = ByScan(t[1][1], t[1][2]) /\ scan[t[1][1]][t[1][2]].at = "open"}
          /\ context' = IF portal[p].query.form = "from" THEN Executor ELSE SavedBy(Top)
     ELSE UNCHANGED <<stack, taken, context>>
  /\ states' = states \ {<<p, k>>}
  /\ running' = After(p, k)
  /\ undefined' = IF LiveContext \/ Fn(p, k) \notin Decoding THEN undefined ELSE undefined \cup {p}
  /\ UNCHANGED <<stored, portal, reader, serial>>

(* What is undefined may also end the process; all backends start anew.    *)
Crash(p, k) ==
  /\ At(p, k) /\ scan[p][k].at = "open"
  /\ IF More(p, k) THEN ~LiveContext \/ ~LiveRows(p, k) ELSE ~LiveContext /\ Fn(p, k) \in Decoding
  /\ Reset
  /\ states' = {}
  /\ undefined' = undefined \cup {p}

-----------------------------------------------------------------------------
(* The end of a row.                                                       *)

EndOfRow(p) == running.portal = p /\ running.place = Len(Calls(p)) + 1
Exhausted(p) == \A k \in DOMAIN scan[p] : scan[p][k].at = "done"
Delivers(p) ==
  IF portal[p].query.form = "from" THEN \E k \in DOMAIN scan[p] : scan[p][k].got # <<>>
  ELSE ~Exhausted(p)

(* To the client, who may turn to another cursor.                          *)
SendRow(p) ==
  /\ EndOfRow(p) /\ reader # p
  /\ running' = NoCall /\ context' = Executor
  /\ portal' = IF Exhausted(p) THEN [portal EXCEPT ![p].at = "closed"] ELSE portal
  /\ UNCHANGED <<stored, scan, stack, states, reader, serial, taken, undefined>>

(* To the connection on top of the SPI stack, which is the reader's or has *)
(* no table to take it: "improper call to spi_printtup".                   *)
PrintRow(p) ==
  /\ EndOfRow(p) /\ reader = p
  /\ Delivers(p) => Top = ByReader(p)
  /\ IF Exhausted(p)
     THEN /\ portal' = [portal EXCEPT ![p].at = "closed"]
          /\ running' = NoCall /\ reader' = NoPortal
          /\ stack' = SubSeq(stack, 1, Len(stack) - 1)
     ELSE running' = After(p, 0) /\ UNCHANGED <<portal, reader, stack>>
  /\ context' = Executor
  /\ UNCHANGED <<stored, scan, states, serial, taken, undefined>>

PrintFails(p) ==
  /\ EndOfRow(p) /\ reader = p
  /\ Delivers(p) /\ Top # ByReader(p)
  /\ Error

-----------------------------------------------------------------------------
Call(p, k) ==
  \/ FirstCall(p, k) \/ \E reply \in Replies : FirstCallOfStream(p, k, reply)
  \/ FirstCallFails(p, k)
  \/ NextRow(p, k) \/ NextRowUndefined(p, k) \/ Done(p, k) \/ Crash(p, k)

Next ==
  \/ AddRow \/ EndTransaction
  \/ \E p \in Portals :
       \/ \E q \in Queries : Open(p, q)
       \/ Fetch(p) \/ Close(p)
       \/ \E k \in UNION {DOMAIN q.calls : q \in Queries} : Call(p, k)
       \/ SendRow(p) \/ PrintRow(p) \/ PrintFails(p)

Spec == Init /\ [][Next]_vars

-----------------------------------------------------------------------------
(* What the functions owe their callers.                                   *)

InFrom(p) == portal[p].query.form = "from"
Held(p, k) == OnTable(p, k) /\ scan[p][k].at \in {"open", "left"}

(* However scans overlap and whoever finishes whose connection, each scan  *)
(* gives back one: the stack is as high as there are scans that have not   *)
(* finished, so SPI_finish never finds it empty.  Chunks live until their  *)
(* scan is done, and leak when it is abandoned.                            *)
HoldingsBalance ==
  /\ Len(stack) = Cardinality({c \in Places : Held(c[1], c[2])})
                    + IF reader = NoPortal THEN 0 ELSE 1
  /\ \A c \in Places :
       /\ scan[c[1]][c[2]].at = "open" /\ ~OnTable(c[1], c[2]) => c \in states
       /\ scan[c[1]][c[2]].at = "done" => c \notin states

(* In FROM the functions are safe in any company: whatever cursors are     *)
(* open, abandoned or have taken one another's connections, they deliver   *)
(* the rows of their statement's snapshot up to their limit, or those of   *)
(* them a search lets pass, each once and in order, and are on top of the  *)
(* stack while they do.                                                    *)
FromScansWhole ==
  \A c \in Places :
    LET s == scan[c[1]][c[2]] IN
    /\ InFrom(c[1]) /\ s.at \in {"open", "done"}
    /\ ~(Fn(c[1], c[2]) \in OverStream)
    => /\ \A i \in DOMAIN s.got : s.got[i] = [row |-> i] /\ i <= portal[c[1]].snapshot
       /\ s.at = "done" =>
            \/ Len(s.got) = portal[c[1]].snapshot
            \/ Len(s.got) = Calls(c[1])[c[2]].limit /\ Fn(c[1], c[2]) \notin Unlimited
            \/ Len(s.got) < Calls(c[1])[c[2]].limit /\ Fn(c[1], c[2]) \in Searching
       /\ s.at = "open" /\ OnTable(c[1], c[2]) => Top = ByScan(c[1], c[2])

(* A scan finishes the connection of another that still reads from it only *)
(* in select lists, and then the other is the later one or its own has     *)
(* been finished before: cursors that are read to their end in the reverse *)
(* order of their first rows never meet.                                   *)
TakenFromLater ==
  \A t \in taken : t[1] # t[2] =>
    /\ ~InFrom(t[1][1]) /\ ~InFrom(t[2][1])
    /\ \/ scan[t[2][1]][t[2][2]].serial < scan[t[1][1]][t[1][2]].serial
       \/ \E u \in taken : u[1] = t[2] /\ u[2] # u[1]

(* Freed memory is only read, or written, in a select list, of which a     *)
(* connection has been finished by another scan or another function has    *)
(* finished in the row.  (Savepoints are not modelled: the end of one also *)
(* frees the rows and connections made in it.)                             *)
UndefinedExplained ==
  \A p \in undefined :
    /\ ~InFrom(p)
    /\ \/ \E t \in taken : t[1][1] = p /\ t[1] # t[2]
       \/ \E k \in DOMAIN scan[p] : k < Len(Calls(p)) /\ OnTable(p, k)

(* SQL that a function runs through SPI gives its rows to that function or *)
(* fails: when it ends, the connection on top is the function's.           *)
ReadersFinishTheirOwn ==
  \A p \in Portals : reader = p /\ EndOfRow(p) /\ Exhausted(p) => Top = ByReader(p)

(* The last row of a stream that is read to its end, and no other, is      *)
(* final and has the answer.  The rows before it spell what they are cut   *)
(* from: the answer, unless a mock model has mock_chunks, which are then   *)
(* given as configured, whatever they spell.  Rows are numbered without    *)
(* gaps or repetition except around the empty chunk of an answer without   *)
(* text.                                                                   *)
StreamsSpellTheirReply ==
  \A c \in Places :
    LET s == scan[c[1]][c[2]]
        n == Len(s.got) IN
    /\ s.at = "done" /\ Fn(c[1], c[2]) \in OverStream /\ c[1] \notin undefined
    => /\ \A i \in 1..n : s.got[i].is_final = (i = n)
       /\ s.got[n].chunk = s.reply.text
       /\ Joined(SubSeq(s.got, 1, n - 1)) = Spelt(s.reply)
       /\ \/ \A i \in 1..n : s.got[i].seq_no = i
          \/ s.reply.text = <<>> /\ ~s.reply.mock
=============================================================================
