---------------------------- MODULE ChatRouting ----------------------------
(***************************************************************************)
(* One chat request of one backend after another: the candidate models run *)
(* in threads of their own, the most confident answer is selected, judged  *)
(* against a threshold and replaced by a fallback model, kept in the       *)
(* session, and recorded in the audit and trace tables, all in the         *)
(* transaction of the client.  An exception ends the process, and with it  *)
(* all backends.                                                           *)
(*                                                                         *)
(* Backends share nothing here but tables they only append to, and a       *)
(* request reads the catalog under one snapshot: one backend with the rows *)
(* of one catalog is enough.  Of the other clients of its session there is *)
(* what they commit between two of its statements: whole turns, and the    *)
(* deletion.  SessionStore has the session tables in full, ModelRegistry   *)
(* the cache of instances.                                                 *)
(***************************************************************************)
EXTENDS Integers, Sequences, FiniteSets

CONSTANTS
  Instances,    \* model instances
  NoInstance,   \* empty fallback_instance
  Unset,        \* option absent
  Malformed,    \* option confidence_threshold, not a number
  MaxLevel,     \* confidences are 0..MaxLevel
  RawLevel,     \* the level of 0.9
  Workloads     \* catalogs and GUCs, with what clients may ask and how often

Levels == 0..MaxLevel
Parallel == "parallel_chat"
Single == {"chat", "multi_turn_chat", "chat_stream", "multi_turn_chat_stream"}
Streams == {"chat_stream", "multi_turn_chat_stream"}
MultiTurn == {"multi_turn_chat", "multi_turn_chat_stream"}

(* An instance has a row or not; get_model can give it or not (from the    *)
(* cache, or by loading the row); it is the mock provider, an endpoint, or *)
(* a remote model configured with an api_key only.                         *)
Instance == [row : BOOLEAN, loads : BOOLEAN, kind : {"mock", "endpoint", "keyless"},
             confidence : Levels, threshold : Levels, fallback : Instances \cup {NoInstance}]
Setting == [threshold : Levels, fallback : Instances \cup {NoInstance},
            audit : BOOLEAN, trace : BOOLEAN]
Option == [threshold : Levels \cup {Unset, Malformed}, fallback : Instances \cup {NoInstance, Unset}]
Request == [event : Single \cup {Parallel}, names : Seq(Instances), options : Option]
Workload == [catalog : [Instances -> Instance], gucs : Setting,
             requests : SUBSET Request, count : Nat,
             max_messages : Int, visits : Nat]

ASSUME RoutingAssumption ==
  /\ NoInstance \notin Instances /\ Unset \notin Instances \cup {NoInstance}
  /\ MaxLevel \in Nat /\ RawLevel \in Levels /\ {Unset, Malformed} \cap Levels = {}
  /\ Workloads \subseteq Workload
  /\ \A w \in Workloads : \A q \in w.requests : q.event \in Single => Len(q.names) = 1

VARIABLES
  workload,       \* fixed
  catalog,        \* its instances, as the backend has them
  session,        \* the session of the client exists
  stored,         \* its messages, as committed
  locked,         \* the open transaction has updated its row
  visits,         \* turns of other clients in it (bound)
  pc, id, event, names, options,  \* the request
  workers,        \* its candidate threads, in the order of their launch
  target,         \* the buffer the curl handle of each instance writes to
  responses,      \* the answers collected
  cursor, best,   \* the selection loop
  result,         \* ChatExecutionResult
  audit, trace, messages,  \* rows as the client sees them, its open transaction included
  txn,            \* requests of the open transaction
  kept,           \* requests of committed transactions
  outcomes        \* history: what each request came to

setup == <<workload, catalog>>
request == <<id, event, names, options>>
candidates == <<workers, target, responses>>
sessionVars == <<session, stored, locked, visits>>
tables == <<audit, trace, messages>>
history == <<txn, kept, outcomes>>
vars == <<setup, sessionVars, pc, request, candidates, cursor, best, result, tables, history>>

(* "raw" is the body of an exchange that gave no answer, "none" one of the *)
(* messages for an exchange that did not happen, "mixed" what two threads  *)
(* on one curl handle make, "thrown" the exception of chat_completion over *)
(* JSON that has not the shape it expects.                                 *)
Answer == [by : Instances, confidence : Levels, kind : {"answer", "raw", "none", "mixed", "thrown"}]
Worker == [model : Instances, at : {"running", "set", "done"}, spilled : BOOLEAN,
           answer : Answer]
(* Messages in the order of their ids: the turns of the client have parts  *)
(* 1 and 2, those of other clients since its last request follow.          *)
Message == [id : Nat, part : Nat \ {0}, text : Answer \cup {<<>>}]
Result == [answer : Answer, label : Instances, fallback : BOOLEAN]
Ids == Nat \ {0}
Places == {"idle", "launch", "wait", "select", "fallback", "persist", "audit", "trace", "done"}

gucs == workload.gucs
NothingYet(n) == [by |-> n, confidence |-> 0, kind |-> "none"]
Thrown(n) == [by |-> n, confidence |-> 0, kind |-> "thrown"]

TypeOK ==
  /\ workload \in Workloads /\ catalog \in [Instances -> Instance]
  /\ session \in BOOLEAN
  /\ pc \in Places
  /\ id \in 0..workload.count
  /\ event \in Single \cup {Parallel}
  /\ names \in Seq(Instances)
  /\ options \in Option
  /\ workers \in Seq(Worker)
  /\ target \in [Instances -> Nat]
  /\ responses \in Seq(Answer)
  /\ cursor \in Nat /\ best \in Nat
  /\ result \in Result \cup {<<>>}
  /\ audit \subseteq [id : Ids, label : Instances, confidence : Levels]
  /\ trace \subseteq [id : Ids, no : {1, 2}]
  /\ messages \subseteq Message /\ stored \subseteq Message
  /\ locked \in BOOLEAN /\ visits \in 0..workload.visits
  /\ txn \subseteq Ids /\ kept \subseteq Ids
  /\ outcomes \subseteq [id : Ids, event : Single \cup {Parallel}, names : Seq(Instances),
                         options : Option, result : Result \cup {<<>>}]

NoOptions == [threshold |-> Unset, fallback |-> Unset]

Init ==
  /\ workload \in Workloads /\ catalog = workload.catalog
  /\ session = TRUE /\ stored = {} /\ locked = FALSE /\ visits = 0
  /\ pc = "idle"
  /\ id = 0 /\ event = Parallel /\ names = <<>> /\ options = NoOptions
  /\ workers = <<>> /\ target = [n \in Instances |-> 0] /\ responses = <<>>
  /\ cursor = 0 /\ best = 0
  /\ result = <<>>
  /\ audit = {} /\ trace = {} /\ messages = {}
  /\ txn = {} /\ kept = {} /\ outcomes = {}

GoTo(place) == pc' = place

-----------------------------------------------------------------------------
(* Transactions.                                                           *)

(* An ERROR, or the client, ends the transaction: its rows go, and what it *)
(* has deleted is back.                                                    *)
Abort ==
  /\ audit' = {r \in audit : r.id \notin txn}
  /\ trace' = {r \in trace : r.id \notin txn}
  /\ messages' = stored /\ locked' = FALSE
  /\ txn' = {}
  /\ UNCHANGED <<session, stored, visits, kept>>

Outcome(r) == [id |-> id, event |-> event, names |-> names, options |-> options, result |-> r]

Error ==
  /\ GoTo("idle")
  /\ Abort
  /\ outcomes' = outcomes \cup {Outcome(<<>>)}
  /\ UNCHANGED <<setup, request, candidates, cursor, best, result>>

(* What is thrown is caught nowhere: the process ends, its threads with    *)
(* it, and all backends start anew, without what they had cached.          *)
Restart ==
  /\ GoTo("idle")
  /\ Abort
  /\ outcomes' = outcomes \cup {Outcome(<<>>)}
  /\ catalog' = [n \in Instances |-> [catalog[n] EXCEPT !.loads = @ /\ catalog[n].row]]
  /\ workers' = <<>> /\ responses' = <<>>
  /\ UNCHANGED <<workload, request, target, cursor, best, result>>

Commit ==
  /\ pc = "idle" /\ txn # {}
  /\ kept' = kept \cup txn
  /\ stored' = messages /\ locked' = FALSE
  /\ txn' = {}
  /\ UNCHANGED <<setup, session, visits, pc, request, candidates, cursor, best, result, tables, outcomes>>

Rollback ==
  /\ pc = "idle" /\ txn # {}
  /\ Abort
  /\ UNCHANGED <<setup, pc, request, candidates, cursor, best, result, outcomes>>

-----------------------------------------------------------------------------
(* The session.                                                            *)

Question(n) == [id |-> n, part |-> 1, text |-> <<>>]
AnswerTo(n, a) == [id |-> n, part |-> 2, text |-> a]
OthersMessage(part) == [id |-> id, part |-> part, text |-> <<>>]

(* trim_session_messages: ORDER BY id DESC OFFSET max_messages.            *)
Newer(M, m) == {x \in M : x.id > m.id \/ (x.id = m.id /\ x.part > m.part)}
Trimmed(M) == {m \in M : Cardinality(Newer(M, m)) < workload.max_messages}
append_session_message(M, m) == Trimmed(M \cup {m})

(* Another client of the session: its UPDATE of the session row waits for  *)
(* an open transaction that has made one.                                  *)
OthersAct == pc = "idle" /\ session /\ ~locked

OthersTurn ==
  /\ OthersAct
  /\ workload.max_messages >= 0 /\ visits < workload.visits
  /\ visits' = visits + 1
  /\ messages' = append_session_message(
                   append_session_message(messages, OthersMessage(2 * visits + 3)),
                   OthersMessage(2 * visits + 4))
  /\ stored' = messages'
  /\ UNCHANGED <<setup, session, locked, pc, request, candidates, cursor, best, result,
                 audit, trace, history>>

(* It deletes the session, and its messages; in the middle of a statement  *)
(* of the client, that is WriteFails.                                      *)
DropSession ==
  /\ OthersAct
  /\ \E q \in workload.requests : q.event \in MultiTurn
  /\ session' = FALSE
  /\ messages' = {} /\ stored' = {}
  /\ UNCHANGED <<setup, locked, visits, pc, request, candidates, cursor, best, result,
                 audit, trace, history>>

-----------------------------------------------------------------------------
(* Entry points.                                                           *)

Start(q) ==
  /\ pc = "idle" /\ id < workload.count
  /\ q \in workload.requests
  /\ id' = id + 1
  /\ event' = q.event /\ names' = q.names /\ options' = q.options
  /\ workers' = <<>> /\ responses' = <<>>
  /\ target' = [n \in Instances |-> 0]
  /\ cursor' = 0 /\ best' = 0 /\ result' = <<>>
  /\ txn' = txn \cup {id + 1}
  /\ GoTo("launch")
  /\ UNCHANGED <<setup, sessionVars, tables, kept, outcomes>>

-----------------------------------------------------------------------------
(* The candidates.                                                         *)

NewWorker(n) == [model |-> n, at |-> "running", spilled |-> FALSE, answer |-> NothingYet(n)]

(* One name of model_names: a model that get_model cannot give is skipped  *)
(* in a parallel request and an error otherwise.  Before a single model is *)
(* asked the session is read, and its knowledge context may fail.          *)
Launch ==
  /\ pc = "launch"
  /\ cursor < Len(names)
  /\ LET n == names[cursor + 1] IN
       \/ /\ catalog[n].loads
          /\ event \in MultiTurn => session
          /\ workers' = Append(workers, NewWorker(n))
          /\ cursor' = cursor + 1
          /\ UNCHANGED <<setup, sessionVars, pc, request, target, responses, best, result, tables, history>>
       \/ /\ ~catalog[n].loads /\ event = Parallel
          /\ cursor' = cursor + 1
          /\ UNCHANGED <<setup, sessionVars, pc, request, candidates, best, result, tables, history>>
       \/ /\ event # Parallel
          /\ event \in Streams => ~catalog[n].loads \/ (event \in MultiTurn /\ ~session)
          /\ Error

Launched ==
  /\ pc = "launch" /\ cursor = Len(names)
  /\ GoTo("wait")
  /\ UNCHANGED <<setup, sessionVars, request, candidates, cursor, best, result, tables, history>>

(* What chat_completion may return once its exchange is its own.           *)
Answers(n) ==
  CASE catalog[n].kind = "mock" ->
         {[by |-> n, confidence |-> catalog[n].confidence, kind |-> "answer"]}
    [] catalog[n].kind = "keyless" -> {NothingYet(n)}
    [] OTHER ->
         {NothingYet(n), Thrown(n), [by |-> n, confidence |-> RawLevel, kind |-> "raw"]}
           \cup {[by |-> n, confidence |-> c, kind |-> "answer"] : c \in Levels}

Mixed(n) == {Thrown(n)} \cup {[by |-> n, confidence |-> c, kind |-> "mixed"] : c \in Levels}

(* Workers whose instance is not w's have another handle.                  *)
SharedHandle(n) == 0
Handle(n) == n

OnHandle(n) == {j \in DOMAIN workers : Handle(workers[j].model) = Handle(n)}

Finished(i, a) == [workers EXCEPT ![i].at = "done", ![i].answer = a]

(* curl_easy_setopt(CURLOPT_WRITEDATA).                                    *)
SetOptions(i) ==
  LET n == workers[i].model IN
  /\ workers[i].at = "running" /\ catalog[n].kind = "endpoint"
  /\ workers' = [workers EXCEPT ![i].at = "set"]
  /\ target' = [m \in Instances |-> IF Handle(m) = Handle(n) THEN i ELSE target[m]]
  /\ UNCHANGED <<setup, sessionVars, pc, request, responses, cursor, best, result, tables, history>>

(* curl_easy_perform and what is made of the body.  The handle writes      *)
(* where it was last told to; when that thread is gone, or at work on the  *)
(* same handle, the outcome is undefined.                                  *)
Perform(i) ==
  LET n == workers[i].model
      t == target[n]
      others == {j \in OnHandle(n) \ {i} : workers[j].at = "set"}
      empty == [by |-> n, confidence |-> RawLevel, kind |-> "raw"]
  IN
  /\ workers[i].at = "set"
  /\ \/ /\ t = i /\ ~workers[i].spilled
        /\ \E a \in Answers(n) : workers' = Finished(i, a)
     \/ /\ workers[i].spilled \/ (t # i /\ workers[t].at = "done")
        /\ \E a \in Mixed(n) : workers' = Finished(i, a)
     \/ /\ t # i /\ workers[t].at = "set" /\ ~workers[i].spilled
        /\ workers' = [Finished(i, empty) EXCEPT ![t].spilled = TRUE]
     \/ /\ others # {}
        /\ \E a \in {NothingYet(n)} \cup Mixed(n) : workers' = Finished(i, a)
  /\ UNCHANGED <<setup, sessionVars, pc, request, target, responses, cursor, best, result, tables, history>>

(* The mock provider, or a model that is not ready: no exchange.           *)
Reply(i) ==
  LET n == workers[i].model IN
  /\ workers[i].at = "running" /\ catalog[n].kind # "endpoint"
  /\ \E a \in Answers(n) : workers' = Finished(i, a)
  /\ UNCHANGED <<setup, sessionVars, pc, request, target, responses, cursor, best, result, tables, history>>

Work(i) == SetOptions(i) \/ Perform(i) \/ Reply(i)

(* future.get() in the order of the launches.                              *)
Collect ==
  LET i == Len(responses) + 1 IN
  /\ pc = "wait"
  /\ i <= Len(workers)
  /\ workers[i].at = "done" /\ workers[i].answer.kind # "thrown"
  /\ responses' = Append(responses, workers[i].answer)
  /\ UNCHANGED <<setup, sessionVars, pc, request, workers, target, cursor, best, result, tables, history>>

(* It throws what its thread has thrown.                                   *)
CollectThrows ==
  LET i == Len(responses) + 1 IN
  /\ pc = "wait"
  /\ i <= Len(workers)
  /\ workers[i].at = "done" /\ workers[i].answer.kind = "thrown"
  /\ Restart

AllNamesAnswered == Len(responses) = Len(names)
AllAnswered == Len(responses) = Len(workers)

Collected ==
  /\ pc = "wait"
  /\ AllAnswered
  /\ \/ /\ responses # <<>>
        /\ GoTo("select")
        /\ cursor' = 1 /\ best' = 1
        /\ UNCHANGED <<setup, sessionVars, request, candidates, result, tables, history>>
     \/ responses = <<>> /\ Error

-----------------------------------------------------------------------------
(* Selection: the first of the highest confidence.                         *)

BetterOrLater(i, j) == responses[i].confidence >= responses[j].confidence
Better(i, j) == responses[i].confidence > responses[j].confidence

Compare ==
  /\ pc = "select"
  /\ cursor <= Len(responses)
  /\ best' = IF Better(cursor, best) THEN cursor ELSE best
  /\ cursor' = cursor + 1
  /\ UNCHANGED <<setup, sessionVars, pc, request, candidates, result, tables, history>>

AfterSelection ==
  CASE event = "chat_stream" -> "audit"
    [] event = "multi_turn_chat_stream" -> "trace"
    [] OTHER -> "fallback"

(* The answer goes by the name at its place in model_names.                *)
Select ==
  /\ pc = "select"
  /\ cursor > Len(responses)
  /\ result' = [answer |-> responses[best], label |-> names[best], fallback |-> FALSE]
  /\ GoTo(AfterSelection)
  /\ UNCHANGED <<setup, sessionVars, request, candidates, cursor, best, tables, history>>

-----------------------------------------------------------------------------
(* maybe_apply_fallback                                                    *)

Threshold(n, o) ==
  IF o.threshold # Unset THEN o.threshold
  ELSE IF catalog[n].threshold > 0 THEN catalog[n].threshold ELSE gucs.threshold

Fallback(n, o) ==
  IF o.fallback # Unset THEN o.fallback
  ELSE IF catalog[n].fallback # NoInstance THEN catalog[n].fallback ELSE gucs.fallback

FallsBackOnDefault(n, c, o) ==
  /\ c < gucs.threshold
  /\ Fallback(n, o) \notin {NoInstance, n}
FallsBack(n, c, o) ==
  /\ c < Threshold(n, o)
  /\ Fallback(n, o) \notin {NoInstance, n}

AfterFallback == IF event \in MultiTurn THEN "persist" ELSE "audit"

Judging ==
  /\ pc = "fallback"
  /\ catalog[result.label].row
  /\ options.threshold # Malformed

KeepAnswer ==
  /\ Judging
  /\ ~FallsBack(result.label, result.answer.confidence, options)
  /\ GoTo(AfterFallback)
  /\ UNCHANGED <<setup, sessionVars, request, candidates, cursor, best, result, tables, history>>

(* The fallback model is given the answer it replaces, and is not judged.  *)
AskFallback ==
  LET f == Fallback(result.label, options) IN
  /\ Judging
  /\ FallsBack(result.label, result.answer.confidence, options)
  /\ catalog[f].loads
  /\ \E a \in Answers(f) :
       /\ a.kind # "thrown"
       /\ result' = [answer |-> a, label |-> f, fallback |-> TRUE]
  /\ GoTo(AfterFallback)
  /\ UNCHANGED <<setup, sessionVars, request, candidates, cursor, best, tables, history>>

FallbackFails ==
  /\ pc = "fallback"
  /\ \/ ~catalog[result.label].row
     \/ /\ Judging
        /\ FallsBack(result.label, result.answer.confidence, options)
        /\ ~catalog[Fallback(result.label, options)].loads
  /\ Error

FallbackThrows ==
  LET f == Fallback(result.label, options) IN
  /\ pc = "fallback"
  /\ catalog[result.label].row
  /\ \/ options.threshold = Malformed
     \/ /\ Judging
        /\ FallsBack(result.label, result.answer.confidence, options)
        /\ catalog[f].loads /\ Thrown(f) \in Answers(f)
  /\ Restart

-----------------------------------------------------------------------------
(* What is kept.                                                           *)

(* The turn: the question and the answer, each trimmed behind and noted in *)
(* the row of the session.                                                 *)
Persist ==
  /\ pc = "persist"
  /\ session /\ workload.max_messages >= 0
  /\ messages' = append_session_message(append_session_message(messages, Question(id)),
                                        AnswerTo(id, result.answer))
  /\ locked' = TRUE
  /\ GoTo("audit")
  /\ UNCHANGED <<setup, session, stored, visits, request, candidates, cursor, best, result,
                 audit, trace, history>>

(* The session is gone, or "OFFSET must not be negative".                  *)
PersistFails == pc = "persist" /\ ~(session /\ workload.max_messages >= 0) /\ Error

RowOfCandidate ==
  [id |-> id, label |-> names[best], confidence |-> responses[best].confidence]
AuditRow == [id |-> id, label |-> result.label, confidence |-> result.answer.confidence]

Audit ==
  /\ pc = "audit"
  /\ audit' = IF gucs.audit THEN audit \cup {AuditRow} ELSE audit
  /\ GoTo("trace")
  /\ UNCHANGED <<setup, sessionVars, request, candidates, cursor, best, result, trace, messages, history>>

(* One row for the selection and one for the fallback.                     *)
TraceRowsFromZero == [id : {id}, no : IF result.fallback THEN {0, 1} ELSE {0}]
TraceRows == [id : {id}, no : IF result.fallback THEN {1, 2} ELSE {1}]

Trace ==
  /\ pc = "trace"
  /\ trace' = IF gucs.trace THEN trace \cup TraceRows ELSE trace
  /\ GoTo("done")
  /\ UNCHANGED <<setup, sessionVars, request, candidates, cursor, best, result, audit, messages, history>>

Return ==
  /\ pc = "done"
  /\ outcomes' = outcomes \cup {Outcome(result)}
  /\ GoTo("idle")
  /\ UNCHANGED <<setup, sessionVars, request, candidates, cursor, best, result, tables, txn, kept>>

(* Any of the INSERTs can raise an ERROR; so can the session, deleted by   *)
(* now, in Persist.                                                        *)
WriteFails == pc \in {"persist", "audit", "trace"} /\ Error

-----------------------------------------------------------------------------
Route ==
  \/ Launch \/ Launched \/ Collect \/ CollectThrows \/ Collected \/ Compare \/ Select
  \/ KeepAnswer \/ AskFallback \/ FallbackFails \/ FallbackThrows
  \/ Persist \/ PersistFails \/ Audit \/ Trace \/ Return

Next ==
  \/ \E q \in UNION {w.requests : w \in Workloads} : Start(q)
  \/ Launch \/ Launched
  \/ \E i \in DOMAIN workers : Work(i)
  \/ Collect \/ CollectThrows \/ Collected \/ Compare \/ Select
  \/ KeepAnswer \/ AskFallback \/ FallbackFails \/ FallbackThrows
  \/ Persist \/ PersistFails \/ Audit \/ Trace \/ Return
  \/ WriteFails \/ OthersTurn \/ DropSession \/ Commit \/ Rollback

Spec == Init /\ [][Next]_vars

(* The backend runs on; the endpoints of candidates and fallback answer or *)
(* close, which no timeout of the code enforces.                           *)
FairSpec ==
  /\ Spec
  /\ WF_vars(Route)
  /\ WF_vars(\E i \in DOMAIN workers : Work(i))

-----------------------------------------------------------------------------
(* What routing owes its callers.                                          *)

AllLoad(list) == \A i \in DOMAIN list : catalog[list[i]].loads

(* Whatever the order in which the threads finish, the selection ends at   *)
(* the first name of model_names whose thread gave the highest confidence. *)
BestAnswerSelected ==
  pc = "select" /\ cursor > Len(responses) =>
    /\ responses[best] = workers[best].answer
    /\ \A i \in DOMAIN workers :
         /\ workers[i].answer.confidence <= responses[best].confidence
         /\ i < best => workers[i].answer.confidence < responses[best].confidence

(* When no name is listed twice, no two threads share a curl handle and    *)
(* every response is what its own exchange gave.                           *)
AnswersUnmixed ==
  (\A i, j \in DOMAIN names : names[i] = names[j] => i = j)
    => \A i \in DOMAIN workers : ~workers[i].spilled /\ workers[i].answer.kind # "mixed"

(* Once all the models load, an answer below the threshold of the instance *)
(* that gave it is delivered only when there is no other model to fall     *)
(* back to.                                                                *)
LowAnswersFallBack ==
  \A o \in outcomes :
    /\ o.result # <<>> /\ o.event \notin Streams
    /\ AllLoad(o.names)
    /\ ~o.result.fallback
    => LET by == o.result.answer.by IN
         \/ o.result.answer.confidence >= Threshold(by, o.options)
         \/ Fallback(by, o.options) \in {NoInstance, by}

RowsOf(table, n) == {r \in table : r.id = n}
Live == kept \cup txn

(* A message is in the session, or as many newer ones as it may hold.      *)
Holds(M, m) == m \in M \/ Cardinality(Newer(M, m)) >= workload.max_messages

OwnRows(M, n) == {m \in M : m.id = n /\ m.part <= 2}
TurnOf(n, a) == {Question(n), AnswerTo(n, a)}

HasTurn(M, o) ==
  /\ OwnRows(M, o.id) \subseteq
       (IF o.event = "multi_turn_chat" THEN TurnOf(o.id, o.result.answer) ELSE {})
  /\ o.event = "multi_turn_chat" /\ session => \A m \in TurnOf(o.id, o.result.answer) : Holds(M, m)

Recorded(o) ==
  /\ RowsOf(audit, o.id) =
       (IF gucs.audit /\ o.event # "multi_turn_chat_stream"
        THEN {[id |-> o.id, label |-> o.result.label, confidence |-> o.result.answer.confidence]}
        ELSE {})
  /\ RowsOf(trace, o.id) =
       (IF gucs.trace THEN [id : {o.id}, no : IF o.result.fallback THEN {1, 2} ELSE {1}] ELSE {})
  /\ HasTurn(messages, o)

(* The tables and the answers of committed transactions agree.  With their *)
(* GUCs on, every answer has its audit row (not that of a candidate it     *)
(* replaced) and every decision a trace row.  The question and the answer  *)
(* of a multi_turn_chat are in the session until it is deleted or holds    *)
(* max_messages newer ones.  No row stays of a request that failed or was  *)
(* rolled back, however late.  A multi_turn_chat_stream leaves its trace   *)
(* row only: the code writes it no audit row and no turn.                  *)
LogsMatchAnswers ==
  /\ \A r \in audit : r.id \in Live
  /\ \A r \in trace : r.id \in Live
  /\ \A r \in messages : r.part <= 2 => r.id \in Live
  /\ IF session /\ workload.max_messages >= 0
     THEN Cardinality(messages) <= workload.max_messages
     ELSE messages = {}
  /\ \A o \in outcomes : o.id \in Live => o.result # <<>> /\ Recorded(o)

(* Every request ends, with an answer or an error.                         *)
EveryRequestEnds == (pc # "idle") ~> (pc = "idle")

(* The selected instance of a response is the model that gave it.          *)
SelectedNamesItsAuthor ==
  \A o \in outcomes : o.result # <<>> => o.result.label = o.result.answer.by
=============================================================================
