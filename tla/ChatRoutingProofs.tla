------------------------- MODULE ChatRoutingProofs -------------------------
(***************************************************************************)
(* Proofs about ChatRouting for every set of instances, catalog, list of   *)
(* models, option and number of requests.                                  *)
(***************************************************************************)
EXTENDS ChatRouting, FiniteSetTheorems, WellFoundedInduction, TLAPS

(* The inductive invariant: how far the launch has come, that responses    *)
(* are the answers of the first workers, and the invariant of the          *)
(* selection loop.                                                         *)
Launching ==
  pc = "launch" => cursor <= Len(names) /\ Len(workers) <= cursor /\ responses = <<>>

InOrder ==
  /\ Len(workers) <= Len(names)
  /\ Len(responses) <= Len(workers)
  /\ \A i \in 1..Len(responses) :
       workers[i].at = "done" /\ responses[i] = workers[i].answer

Scanned ==
  pc = "select" =>
    /\ Len(responses) = Len(workers)
    /\ cursor \in 1..(Len(responses) + 1)
    /\ best \in 1..Len(responses) /\ best <= cursor
    /\ \A i \in 1..Len(responses) : i < cursor =>
         /\ responses[i].confidence <= responses[best].confidence
         /\ i < best => responses[i].confidence < responses[best].confidence

HasResult == pc \in {"fallback", "persist", "audit", "trace", "done"} => result \in Result
Numbered == pc # "idle" => id \in Ids

Inv == TypeOK /\ Launching /\ InOrder /\ Scanned /\ HasResult /\ Numbered

USE DEF vars, setup, request, candidates, sessionVars, tables, history

-----------------------------------------------------------------------------
(* The initial states.                                                     *)
LEMMA InitInv == Init => Inv
<1> SUFFICES ASSUME Init PROVE Inv
  OBVIOUS
<1> USE RoutingAssumption
<1>1. NoOptions \in Option
  BY DEF NoOptions, Option
<1>2. workload \in Workload
  BY DEF Init
<1>3. catalog \in [Instances -> Instance] /\ 0 \in 0..workload.count /\ 0 \in 0..workload.visits
  BY <1>2 DEF Init, Workload
<1>0. names \in Seq(Instances) /\ workers \in Seq(Worker) /\ responses \in Seq(Answer)
      /\ target \in [Instances -> Nat] /\ result \in Result \cup {<<>>}
  BY DEF Init
<1>5. event \in Single \cup {Parallel} /\ pc \in Places /\ messages \subseteq Message
      /\ stored \subseteq Message /\ locked \in BOOLEAN /\ session \in BOOLEAN
  BY DEF Init, Parallel, Places
<1>4. TypeOK
  BY <1>0, <1>1, <1>3, <1>5 DEF Init, TypeOK
<1> QED BY <1>4 DEF Init, Inv, Launching, InOrder, Scanned, HasResult, Numbered

(* What a fallback or a worker may answer is an answer.                    *)
LEMMA AnswersType ==
  ASSUME TypeOK, NEW n \in Instances
  PROVE  Answers(n) \subseteq Answer /\ Mixed(n) \subseteq Answer /\ NothingYet(n) \in Answer
<1> USE RoutingAssumption DEF Levels
<1>1. catalog[n].confidence \in Levels
  BY DEF TypeOK, Instance
<1>2. NothingYet(n) \in Answer /\ Thrown(n) \in Answer
  BY DEF NothingYet, Thrown, Answer
<1>3. Mixed(n) \subseteq Answer
  BY <1>2 DEF Mixed, Answer
<1>4. {[by |-> n, confidence |-> catalog[n].confidence, kind |-> "answer"]} \subseteq Answer
  BY <1>1 DEF Answer
<1>5. {NothingYet(n), Thrown(n), [by |-> n, confidence |-> RawLevel, kind |-> "raw"]}
         \cup {[by |-> n, confidence |-> c, kind |-> "answer"] : c \in Levels} \subseteq Answer
  BY <1>2 DEF Answer
<1>6. CASE catalog[n].kind = "mock"
  BY <1>2, <1>3, <1>4, <1>6 DEF Answers
<1>7. CASE catalog[n].kind = "keyless"
  BY <1>2, <1>3, <1>7 DEF Answers
<1>8. CASE catalog[n].kind \notin {"mock", "keyless"}
  BY <1>2, <1>3, <1>5, <1>8 DEF Answers
<1> QED BY <1>6, <1>7, <1>8

(* An ERROR ends the request and leaves the types.                         *)
LEMMA AbortType ==
  ASSUME TypeOK, Abort
  PROVE  /\ audit' \subseteq [id : Ids, label : Instances, confidence : Levels]
         /\ trace' \subseteq [id : Ids, no : {1, 2}]
         /\ messages' \subseteq Message
         /\ txn' \subseteq Ids /\ kept' \subseteq Ids
         /\ locked' = FALSE /\ UNCHANGED <<session, stored, visits>>
BY DEF TypeOK, Abort

LEMMA OutcomeType ==
  ASSUME TypeOK, id \in Ids, NEW r \in Result \cup {<<>>}
  PROVE  Outcome(r) \in [id : Ids, event : Single \cup {Parallel}, names : Seq(Instances),
                         options : Option, result : Result \cup {<<>>}]
BY DEF TypeOK, Outcome

LEMMA ErrorKeepsInv ==
  ASSUME Inv, pc # "idle", Error
  PROVE  Inv'
<1>1. Outcome(<<>>) \in [id : Ids, event : Single \cup {Parallel}, names : Seq(Instances),
                         options : Option, result : Result \cup {<<>>}]
  BY OutcomeType DEF Inv, Numbered
<1>2. outcomes' \subseteq [id : Ids, event : Single \cup {Parallel}, names : Seq(Instances),
                         options : Option, result : Result \cup {<<>>}]
  BY <1>1 DEF Inv, TypeOK, Error
<1>3. TypeOK'
  BY <1>2, AbortType DEF Inv, TypeOK, Error, GoTo, Places
<1> QED BY <1>3 DEF Inv, Error, GoTo, Launching, InOrder, Scanned, HasResult, Numbered

(* So does a restart, and the catalog.                                     *)
LEMMA RestartKeepsInv ==
  ASSUME Inv, pc # "idle", Restart
  PROVE  Inv'
<1>1. Outcome(<<>>) \in [id : Ids, event : Single \cup {Parallel}, names : Seq(Instances),
                         options : Option, result : Result \cup {<<>>}]
  BY OutcomeType DEF Inv, Numbered
<1>2. outcomes' \subseteq [id : Ids, event : Single \cup {Parallel}, names : Seq(Instances),
                         options : Option, result : Result \cup {<<>>}]
  BY <1>1 DEF Inv, TypeOK, Restart
<1>3. catalog' \in [Instances -> Instance]
  <2>1. \A n \in Instances : catalog[n] \in Instance
    BY DEF Inv, TypeOK
  <2>2. \A n \in Instances : [catalog[n] EXCEPT !.loads = @ /\ catalog[n].row] \in Instance
    BY <2>1, Zenon DEF Instance
  <2> QED BY <2>2 DEF Restart
<1>4. /\ audit' \subseteq [id : Ids, label : Instances, confidence : Levels]
      /\ trace' \subseteq [id : Ids, no : {1, 2}]
      /\ messages' \subseteq Message /\ locked' = FALSE
      /\ txn' \subseteq Ids /\ kept' \subseteq Ids
      /\ UNCHANGED <<session, stored, visits>>
  BY AbortType DEF Inv, Restart
<1>5. pc' \in Places /\ workers' \in Seq(Worker) /\ responses' \in Seq(Answer)
  BY DEF Restart, GoTo, Places
<1>6. UNCHANGED <<workload, request, target, cursor, best, result>>
  BY DEF Restart
<1>7. TypeOK'
  BY <1>2, <1>3, <1>4, <1>5, <1>6 DEF Inv, TypeOK
<1> QED BY <1>7 DEF Inv, TypeOK, Restart, GoTo, Launching, InOrder, Scanned, HasResult, Numbered

(* What is appended is a message, and trimming adds none.                  *)
LEMMA AppendType ==
  ASSUME NEW M, M \subseteq Message, NEW m \in Message
  PROVE  append_session_message(M, m) \subseteq Message
BY DEF append_session_message, Trimmed

(* Steps outside a request.                                                *)
LEMMA IdleStep ==
  ASSUME Inv, Commit \/ Rollback \/ OthersTurn \/ DropSession
  PROVE  Inv'
<1>1. CASE Commit
  BY <1>1 DEF Inv, TypeOK, Commit, Launching, InOrder, Scanned, HasResult, Numbered
<1>2. CASE Rollback
  <2>1. TypeOK'
    BY <1>2, AbortType DEF Inv, TypeOK, Rollback
  <2> QED BY <1>2, <2>1 DEF Inv, Rollback, Launching, InOrder, Scanned, HasResult, Numbered
<1>3. CASE DropSession
  BY <1>3 DEF Inv, TypeOK, DropSession, Launching, InOrder, Scanned, HasResult, Numbered
<1>4. CASE OthersTurn
  <2>1. workload \in Workload /\ visits \in Nat /\ id \in Nat /\ workload.visits \in Nat
    <3>1. workload \in Workload
      BY RoutingAssumption DEF Inv, TypeOK
    <3>2. workload.count \in Nat /\ workload.visits \in Nat
      BY <3>1 DEF Workload
    <3> QED BY <3>1, <3>2 DEF Inv, TypeOK
  <2>2. visits' \in 0..workload.visits
    BY <1>4, <2>1 DEF OthersTurn
  <2>3. OthersMessage(2 * visits + 3) \in Message /\ OthersMessage(2 * visits + 4) \in Message
    BY <2>1 DEF OthersMessage, Message
  <2>4. messages \subseteq Message
    BY DEF Inv, TypeOK
  <2>5. messages' \subseteq Message
    BY <1>4, <2>3, <2>4, AppendType DEF OthersTurn
  <2>6. TypeOK'
    BY <1>4, <2>2, <2>5 DEF Inv, TypeOK, OthersTurn
  <2> QED BY <1>4, <2>6 DEF Inv, OthersTurn, Launching, InOrder, Scanned, HasResult, Numbered
<1> QED BY <1>1, <1>2, <1>3, <1>4

LEMMA StartKeepsInv ==
  ASSUME Inv, NEW q, Start(q)
  PROVE  Inv'
<1> USE RoutingAssumption
<1>1. workload \in Workload
  BY DEF Inv, TypeOK
<1>2. q \in Request /\ workload.count \in Nat
  BY <1>1 DEF Start, Workload
<1>3. q.event \in Single \cup {Parallel} /\ q.names \in Seq(Instances) /\ q.options \in Option
  BY <1>2 DEF Request
<1>4. id + 1 \in Ids /\ id + 1 \in 0..workload.count /\ id' = id + 1
  BY <1>2 DEF Inv, TypeOK, Start, Ids
<1>5. TypeOK'
  BY <1>3, <1>4 DEF Inv, TypeOK, Start, GoTo, Places
<1>6. Launching' /\ InOrder'
  BY <1>3 DEF Start, GoTo, Launching, InOrder
<1> QED BY <1>4, <1>5, <1>6 DEF Inv, Start, GoTo, Scanned, HasResult, Numbered

-----------------------------------------------------------------------------
(* The candidates.                                                         *)

LEMMA LaunchKeepsInv ==
  ASSUME Inv, Launch
  PROVE  Inv'
<1> DEFINE n == names[cursor + 1]
<1>1. pc = "launch" /\ cursor \in Nat /\ cursor < Len(names) /\ names \in Seq(Instances)
      /\ workers \in Seq(Worker) /\ responses = <<>> /\ Len(workers) <= cursor
  BY DEF Inv, TypeOK, Launch, Launching
<1>2. n \in Instances
  BY <1>1
<1>3. CASE workers' = Append(workers, NewWorker(n)) /\ cursor' = cursor + 1
           /\ UNCHANGED <<setup, sessionVars, pc, request, target, responses, best, result, tables, history>>
  <2>1. NewWorker(n) \in Worker
    BY <1>2, AnswersType DEF Inv, NewWorker, Worker
  <2>2. workers' \in Seq(Worker) /\ Len(workers') = Len(workers) + 1
    BY <1>1, <1>3, <2>1
  <2>3. TypeOK'
    BY <1>1, <1>3, <2>2 DEF Inv, TypeOK
  <2>4. Launching' /\ InOrder'
    BY <1>1, <1>3, <2>2 DEF Launching, InOrder
  <2> QED BY <1>1, <1>3, <2>3, <2>4 DEF Inv, Scanned, HasResult, Numbered
<1>4. CASE cursor' = cursor + 1
           /\ UNCHANGED <<setup, sessionVars, pc, request, candidates, best, result, tables, history>>
  <2>1. TypeOK'
    BY <1>1, <1>4 DEF Inv, TypeOK
  <2>2. Launching' /\ InOrder'
    BY <1>1, <1>4 DEF Inv, Launching, InOrder
  <2> QED BY <1>1, <1>4, <2>1, <2>2 DEF Inv, Scanned, HasResult, Numbered
<1>5. CASE Error
  BY <1>1, <1>5, ErrorKeepsInv
<1> QED BY <1>3, <1>4, <1>5 DEF Launch

LEMMA LaunchedKeepsInv ==
  ASSUME Inv, Launched
  PROVE  Inv'
BY DEF Inv, TypeOK, Launched, GoTo, Places, Launching, InOrder, Scanned, HasResult, Numbered

(* What one thread does leaves the answers of finished threads alone.      *)
LEMMA FinishedType ==
  ASSUME workers \in Seq(Worker), NEW i \in DOMAIN workers, NEW a \in Answer
  PROVE  /\ Finished(i, a) \in Seq(Worker)
         /\ Len(Finished(i, a)) = Len(workers)
         /\ \A j \in DOMAIN workers : j # i => Finished(i, a)[j] = workers[j]
<1>0. workers[i] \in Worker
  OBVIOUS
<1>1. [workers[i] EXCEPT !.at = "done", !.answer = a] \in Worker
  BY <1>0 DEF Worker
<1>2. Finished(i, a) = [workers EXCEPT ![i] = [workers[i] EXCEPT !.at = "done", !.answer = a]]
  BY DEF Finished
<1> QED BY <1>1, <1>2

LEMMA SpilledType ==
  ASSUME NEW w \in Seq(Worker), NEW t \in DOMAIN w, NEW x \in Worker,
         x.at = w[t].at, x.answer = w[t].answer
  PROVE  /\ [w EXCEPT ![t] = x] \in Seq(Worker)
         /\ Len([w EXCEPT ![t] = x]) = Len(w)
         /\ \A j \in DOMAIN w : /\ [w EXCEPT ![t] = x][j].at = w[j].at
                               /\ [w EXCEPT ![t] = x][j].answer = w[j].answer
<1> DEFINE v == [w EXCEPT ![t] = x]
<1>1. v \in Seq(Worker) /\ Len(v) = Len(w)
  OBVIOUS
<1>2. \A j \in DOMAIN w : v[j] = IF j = t THEN x ELSE w[j]
  OBVIOUS
<1>3. \A j \in DOMAIN w : v[j].at = w[j].at /\ v[j].answer = w[j].answer
  BY <1>2
<1> QED BY <1>1, <1>3

(* A step of the workers that leaves the finished ones as they were.       *)
LEMMA WorkersMove ==
  ASSUME Inv,
         workers' \in Seq(Worker), Len(workers') = Len(workers),
         \A j \in DOMAIN workers : workers[j].at = "done" =>
           workers'[j].at = "done" /\ workers'[j].answer = workers[j].answer,
         target' \in [Instances -> Nat],
         UNCHANGED <<setup, sessionVars, pc, request, responses, cursor, best, result, tables, history>>
  PROVE  Inv'
<1>1. TypeOK'
  BY DEF Inv, TypeOK
<1>2. InOrder'
  <2>1. Len(workers) \in Nat /\ Len(responses) \in Nat /\ DOMAIN workers = 1..Len(workers)
    BY DEF Inv, TypeOK
  <2>2. 1..Len(responses) \subseteq DOMAIN workers
    BY <2>1 DEF Inv, InOrder
  <2> QED BY <2>1, <2>2 DEF Inv, InOrder
<1>3. Launching' /\ Scanned'
  BY DEF Inv, Launching, Scanned
<1> QED BY <1>1, <1>2, <1>3 DEF Inv, HasResult, Numbered

LEMMA WorkKeepsInv ==
  ASSUME Inv, NEW i \in DOMAIN workers, Work(i)
  PROVE  Inv'
<1> DEFINE n == workers[i].model
<1>0. workers \in Seq(Worker) /\ workers[i] \in Worker
  BY DEF Inv, TypeOK
<1>1. workers \in Seq(Worker) /\ workers[i] \in Worker /\ n \in Instances
  BY <1>0 DEF Worker
<1>2. target \in [Instances -> Nat] /\ i \in Nat
  BY <1>1 DEF Inv, TypeOK
<1>3. Answers(n) \subseteq Answer /\ Mixed(n) \subseteq Answer /\ NothingYet(n) \in Answer
  BY <1>1, AnswersType DEF Inv
<1>4. ASSUME NEW a \in Answer, workers' = Finished(i, a), workers[i].at # "done",
             target' = target,
             UNCHANGED <<setup, sessionVars, pc, request, responses, cursor, best, result, tables, history>>
      PROVE  Inv'
  BY <1>1, <1>2, <1>4, FinishedType, WorkersMove
<1>5. CASE SetOptions(i)
  <2>1. [workers[i] EXCEPT !.at = "set"] \in Worker
    BY <1>1 DEF Worker
  <2>2. workers' = [workers EXCEPT ![i] = [workers[i] EXCEPT !.at = "set"]]
    BY <1>5 DEF SetOptions
  <2>3. target' \in [Instances -> Nat]
    BY <1>2, <1>5 DEF SetOptions
  <2>4. workers' \in Seq(Worker) /\ Len(workers') = Len(workers)
    BY <1>1, <2>1, <2>2
  <2>5. workers[i].at # "done" /\ \A j \in DOMAIN workers : j # i => workers'[j] = workers[j]
    BY <1>1, <1>5, <2>2 DEF SetOptions
  <2> QED BY <1>5, <2>3, <2>4, <2>5, WorkersMove DEF SetOptions
<1>6. CASE Reply(i)
  <2>1. PICK a \in Answers(n) : workers' = Finished(i, a)
    BY <1>6 DEF Reply
  <2> QED BY <1>3, <1>4, <1>6, <2>1 DEF Reply
<1>7. CASE Perform(i)
  <2> DEFINE t == target[n]
             empty == [by |-> n, confidence |-> RawLevel, kind |-> "raw"]
  <2>1. workers[i].at = "set" /\ target' = target
        /\ UNCHANGED <<setup, sessionVars, pc, request, responses, cursor, best, result, tables, history>>
    BY <1>7 DEF Perform
  <2>2. empty \in Answer
    BY <1>1, RoutingAssumption DEF Answer
  <2>3. CASE \E a \in Answers(n) \cup Mixed(n) \cup {NothingYet(n)} : workers' = Finished(i, a)
    <3>1. PICK a \in Answer : workers' = Finished(i, a)
      BY <1>3, <2>3
    <3> QED BY <1>4, <2>1, <3>1
  <2>4. CASE workers' = [Finished(i, empty) EXCEPT ![t].spilled = TRUE]
    <3> DEFINE w == Finished(i, empty)
    <3>1. w \in Seq(Worker) /\ Len(w) = Len(workers)
          /\ \A j \in DOMAIN workers : j # i => w[j] = workers[j]
      BY <1>1, <2>2, FinishedType
    <3>0. workers' = [w EXCEPT ![t].spilled = TRUE]
      BY <2>4
    <3> HIDE DEF w, t
    <3>2. workers' \in Seq(Worker) /\ Len(workers') = Len(w)
          /\ \A j \in DOMAIN w : workers'[j].at = w[j].at /\ workers'[j].answer = w[j].answer
      <4>1. CASE t \in DOMAIN w
        <5> DEFINE x == [w[t] EXCEPT !.spilled = TRUE]
        <5>1. w[t] \in Worker
          BY <3>1, <4>1
        <5>2. x \in Worker /\ x.at = w[t].at /\ x.answer = w[t].answer
          BY <5>1 DEF Worker
        <5>3. workers' = [w EXCEPT ![t] = x]
          BY <3>0
        <5> HIDE DEF x
        <5>4. /\ [w EXCEPT ![t] = x] \in Seq(Worker)
              /\ Len([w EXCEPT ![t] = x]) = Len(w)
              /\ \A j \in DOMAIN w : /\ [w EXCEPT ![t] = x][j].at = w[j].at
                                    /\ [w EXCEPT ![t] = x][j].answer = w[j].answer
          BY <3>1, <4>1, <5>2, SpilledType
        <5> QED BY <5>3, <5>4
      <4>2. CASE t \notin DOMAIN w
        <5>1. workers' = w
          BY <3>0, <3>1, <4>2
        <5> QED BY <3>1, <5>1
      <4> QED BY <4>1, <4>2
    <3>3. DOMAIN w = DOMAIN workers
      BY <1>1, <3>1
    <3>4. \A j \in DOMAIN workers : workers[j].at = "done" =>
            workers'[j].at = "done" /\ workers'[j].answer = workers[j].answer
      BY <2>1, <3>1, <3>2, <3>3
    <3> QED BY <1>2, <2>1, <3>1, <3>2, <3>4, WorkersMove
  <2> QED BY <1>7, <2>3, <2>4 DEF Perform
<1> QED BY <1>5, <1>6, <1>7 DEF Work

LEMMA CollectKeepsInv ==
  ASSUME Inv, Collect
  PROVE  Inv'
<1> DEFINE i == Len(responses) + 1
<1>1. workers \in Seq(Worker) /\ responses \in Seq(Answer) /\ i \in DOMAIN workers
  BY DEF Inv, TypeOK, Collect
<1>0. workers[i] \in Worker
  BY <1>1
<1>2. workers[i].answer \in Answer
  BY <1>0 DEF Worker
<1>3. responses' \in Seq(Answer) /\ Len(responses') = i
      /\ \A j \in 1..i : responses'[j] = IF j = i THEN workers[i].answer ELSE responses[j]
  BY <1>1, <1>2 DEF Collect
<1>4. TypeOK'
  BY <1>3 DEF Inv, TypeOK, Collect
<1>5. InOrder'
  BY <1>1, <1>3 DEF Inv, InOrder, Collect
<1> QED BY <1>4, <1>5 DEF Inv, Collect, Launching, Scanned, HasResult, Numbered

LEMMA CollectThrowsKeepsInv ==
  ASSUME Inv, CollectThrows
  PROVE  Inv'
BY RestartKeepsInv DEF CollectThrows

LEMMA CollectedKeepsInv ==
  ASSUME Inv, Collected
  PROVE  Inv'
<1>1. CASE Error
  BY <1>1, ErrorKeepsInv DEF Collected
<1>2. CASE responses # <<>> /\ GoTo("select") /\ cursor' = 1 /\ best' = 1
           /\ UNCHANGED <<setup, sessionVars, request, candidates, result, tables, history>>
  <2>1. Len(responses) = Len(workers) /\ Len(responses) \in Nat \ {0}
    BY <1>2 DEF Inv, TypeOK, Collected, AllAnswered
  <2>2. TypeOK'
    BY <1>2 DEF Inv, TypeOK, GoTo, Places
  <2>3. Scanned'
    BY <1>2, <2>1 DEF Scanned, GoTo
  <2> QED BY <1>2, <2>2, <2>3 DEF Collected, Inv, GoTo, Launching, InOrder, HasResult, Numbered
<1> QED BY <1>1, <1>2 DEF Collected

-----------------------------------------------------------------------------
(* Selection.                                                              *)

LEMMA CompareKeepsInv ==
  ASSUME Inv, Compare
  PROVE  Inv'
<1>1. pc = "select" /\ cursor \in 1..Len(responses) /\ best \in 1..Len(responses) /\ best <= cursor
      /\ Len(responses) = Len(workers) /\ Len(responses) \in Nat
  BY DEF Inv, TypeOK, Compare, Scanned
<1>2. \A i \in 1..Len(responses) : responses[i].confidence \in Int
  <2>1. \A i \in 1..Len(responses) : responses[i] \in Answer
    BY DEF Inv, TypeOK
  <2> QED BY <2>1, RoutingAssumption DEF Answer, Levels
<1>3. TypeOK'
  BY <1>1 DEF Inv, TypeOK, Compare
<1>4. \A i \in 1..Len(responses) : i < cursor =>
        /\ responses[i].confidence <= responses[best].confidence
        /\ i < best => responses[i].confidence < responses[best].confidence
  BY <1>1 DEF Inv, Scanned
<1>5. best' = (IF responses[cursor].confidence > responses[best].confidence THEN cursor ELSE best)
      /\ cursor' = cursor + 1 /\ responses' = responses /\ pc' = pc /\ workers' = workers
  BY DEF Compare, Better
<1>6. \A i \in 1..Len(responses) : i < cursor + 1 =>
        /\ responses[i].confidence <= responses[best'].confidence
        /\ i < best' => responses[i].confidence < responses[best'].confidence
  <2>1. CASE responses[cursor].confidence > responses[best].confidence
    <3>1. best' = cursor
      BY <1>5, <2>1
    <3>2. \A i \in 1..Len(responses) : i < cursor + 1 => i < cursor \/ i = cursor
      BY <1>1
    <3>3. ASSUME NEW i \in 1..Len(responses), i < cursor
          PROVE  responses[i].confidence < responses[cursor].confidence
      <4>1. /\ responses[i].confidence \in Int /\ responses[best].confidence \in Int
            /\ responses[cursor].confidence \in Int
        BY <1>1, <1>2
      <4> QED BY <1>4, <2>1, <3>3, <4>1
    <3>4. ASSUME NEW i \in 1..Len(responses), i < cursor + 1
          PROVE  /\ responses[i].confidence <= responses[cursor].confidence
                 /\ i < cursor => responses[i].confidence < responses[cursor].confidence
      <4>1. CASE i < cursor
        <5>1. responses[i].confidence \in Int /\ responses[cursor].confidence \in Int
          BY <1>1, <1>2
        <5>2. responses[i].confidence < responses[cursor].confidence
          BY <3>3, <4>1
        <5> QED BY <5>1, <5>2
      <4>2. CASE i = cursor
        <5>1. responses[cursor].confidence \in Int /\ cursor \in Int
          BY <1>1, <1>2
        <5> QED BY <4>2, <5>1
      <4> QED BY <3>2, <3>4, <4>1, <4>2
    <3> QED BY <3>1, <3>4, Zenon
  <2>2. CASE ~(responses[cursor].confidence > responses[best].confidence)
    <3>1. best' = best
      BY <1>5, <2>2
    <3>2. \A i \in 1..Len(responses) : i < cursor + 1 => i < cursor \/ i = cursor
      BY <1>1
    <3>3. responses[cursor].confidence <= responses[best].confidence
      <4>1. responses[cursor].confidence \in Int /\ responses[best].confidence \in Int
        BY <1>1, <1>2
      <4> QED BY <2>2, <4>1
    <3>4. ~(cursor < best)
      BY <1>1
    <3> QED BY <1>4, <3>1, <3>2, <3>3, <3>4
  <2> QED BY <2>1, <2>2
<1>7. Scanned'
  BY <1>1, <1>5, <1>6 DEF Scanned
<1> QED BY <1>1, <1>3, <1>7 DEF Inv, Compare, Launching, InOrder, HasResult, Numbered

LEMMA SelectKeepsInv ==
  ASSUME Inv, Select
  PROVE  Inv'
<1>1. best \in 1..Len(responses) /\ Len(responses) <= Len(names)
      /\ responses \in Seq(Answer) /\ names \in Seq(Instances)
  BY DEF Inv, TypeOK, Select, Scanned, InOrder
<1>2. responses[best] \in Answer /\ names[best] \in Instances
  BY <1>1
<1>3. result' \in Result
  BY <1>2 DEF Select, Result
<1>4. pc' \in {"audit", "trace", "fallback"}
  BY DEF Select, GoTo, AfterSelection
<1>5. TypeOK'
  BY <1>3, <1>4 DEF Inv, TypeOK, Select, Places
<1> QED BY <1>3, <1>4, <1>5 DEF Inv, Select, Launching, InOrder, Scanned, HasResult, Numbered

-----------------------------------------------------------------------------
(* The fallback and the records.                                           *)

LEMMA FallbackType ==
  ASSUME TypeOK, NEW n \in Instances, NEW o \in Option
  PROVE  Fallback(n, o) \in Instances \cup {NoInstance}
<1>1. o.fallback \in Instances \cup {NoInstance, Unset}
  BY DEF Option
<1>2. catalog[n].fallback \in Instances \cup {NoInstance}
  BY RoutingAssumption DEF TypeOK, Instance
<1>3. gucs \in Setting
  <2>1. workload \in Workload
    BY RoutingAssumption DEF TypeOK
  <2> QED BY <2>1 DEF gucs, Workload
<1>4. gucs.fallback \in Instances \cup {NoInstance}
  BY <1>3 DEF Setting
<1> QED BY <1>1, <1>2, <1>4 DEF Fallback

LEMMA FallbackKeepsInv ==
  ASSUME Inv, KeepAnswer \/ AskFallback \/ FallbackFails \/ FallbackThrows
  PROVE  Inv'
<1>1. pc = "fallback" /\ result \in Result
  BY DEF Inv, HasResult, KeepAnswer, AskFallback, FallbackFails, FallbackThrows, Judging
<1>2. AfterFallback \in {"persist", "audit"}
  BY DEF AfterFallback
<1>3. CASE KeepAnswer
  <2>1. TypeOK'
    BY <1>2, <1>3 DEF Inv, TypeOK, KeepAnswer, GoTo, Places
  <2> QED BY <1>1, <1>2, <1>3, <2>1
        DEF Inv, KeepAnswer, GoTo, Launching, InOrder, Scanned, HasResult, Numbered
<1>4. CASE AskFallback
  <2> DEFINE f == Fallback(result.label, options)
  <2>1. f \in Instances
    BY <1>1, <1>4, FallbackType DEF AskFallback, FallsBack, Inv, TypeOK, Result
  <2>2. PICK a \in Answers(f) : result' = [answer |-> a, label |-> f, fallback |-> TRUE]
    BY <1>4 DEF AskFallback
  <2>3. result' \in Result
    BY <2>1, <2>2, AnswersType DEF Inv, Result
  <2>4. TypeOK'
    BY <1>2, <1>4, <2>3 DEF Inv, TypeOK, AskFallback, GoTo, Places
  <2> QED BY <1>1, <1>2, <1>4, <2>3, <2>4
        DEF Inv, AskFallback, GoTo, Launching, InOrder, Scanned, HasResult, Numbered
<1>5. CASE FallbackFails
  BY <1>1, <1>5, ErrorKeepsInv DEF FallbackFails
<1>6. CASE FallbackThrows
  BY <1>1, <1>6, RestartKeepsInv DEF FallbackThrows
<1> QED BY <1>3, <1>4, <1>5, <1>6

LEMMA RecordKeepsInv ==
  ASSUME Inv, Persist \/ PersistFails \/ Audit \/ Trace \/ Return \/ WriteFails
  PROVE  Inv'
<1>1. pc \in {"persist", "audit", "trace", "done"} /\ result \in Result /\ id \in Ids
  BY DEF Inv, HasResult, Numbered, Persist, PersistFails, Audit, Trace, Return, WriteFails
<1>2. result.answer \in Answer /\ result.label \in Instances /\ result.answer.confidence \in Levels
  BY <1>1 DEF Result, Answer
<1>3. CASE Persist
  <2>1. Question(id) \in Message /\ AnswerTo(id, result.answer) \in Message
    BY <1>1, <1>2 DEF Question, AnswerTo, Message, Ids
  <2>2. messages' \subseteq Message
    BY <1>3, <2>1, AppendType DEF Inv, TypeOK, Persist
  <2>3. TypeOK'
    BY <1>3, <2>2 DEF Inv, TypeOK, Persist, GoTo, Places
  <2> QED BY <1>1, <1>3, <2>3
        DEF Inv, Persist, GoTo, Launching, InOrder, Scanned, HasResult, Numbered
<1>4. CASE Audit
  <2>1. AuditRow \in [id : Ids, label : Instances, confidence : Levels]
    BY <1>1, <1>2 DEF AuditRow
  <2>2. TypeOK'
    BY <1>4, <2>1 DEF Inv, TypeOK, Audit, GoTo, Places
  <2> QED BY <1>1, <1>4, <2>2
        DEF Inv, Audit, GoTo, Launching, InOrder, Scanned, HasResult, Numbered
<1>5. CASE Trace
  <2>1. TraceRows \subseteq [id : Ids, no : {1, 2}]
    BY <1>1 DEF TraceRows
  <2>2. TypeOK'
    BY <1>5, <2>1 DEF Inv, TypeOK, Trace, GoTo, Places
  <2> QED BY <1>1, <1>5, <2>2
        DEF Inv, Trace, GoTo, Launching, InOrder, Scanned, HasResult, Numbered
<1>6. CASE Return
  <2>1. Outcome(result) \in [id : Ids, event : Single \cup {Parallel}, names : Seq(Instances),
                             options : Option, result : Result \cup {<<>>}]
    BY <1>1, OutcomeType DEF Inv
  <2>2. TypeOK'
    BY <1>6, <2>1 DEF Inv, TypeOK, Return, GoTo, Places
  <2> QED BY <1>1, <1>6, <2>2
        DEF Inv, Return, GoTo, Launching, InOrder, Scanned, HasResult, Numbered
<1>7. CASE WriteFails \/ PersistFails
  BY <1>1, <1>7, ErrorKeepsInv DEF WriteFails, PersistFails
<1> QED BY <1>3, <1>4, <1>5, <1>6, <1>7

-----------------------------------------------------------------------------
LEMMA NextKeepsInv ==
  ASSUME Inv, [Next]_vars
  PROVE  Inv'
<1>1. ASSUME NEW q, Start(q) PROVE Inv'
  BY <1>1, StartKeepsInv
<1>2. ASSUME NEW i \in DOMAIN workers, Work(i) PROVE Inv'
  BY <1>2, WorkKeepsInv
<1>3. CASE Launch \/ Launched \/ Collect \/ CollectThrows \/ Collected \/ Compare \/ Select
  BY <1>3, LaunchKeepsInv, LaunchedKeepsInv, CollectKeepsInv, CollectThrowsKeepsInv,
     CollectedKeepsInv, CompareKeepsInv, SelectKeepsInv
<1>4. CASE KeepAnswer \/ AskFallback \/ FallbackFails \/ FallbackThrows
  BY <1>4, FallbackKeepsInv
<1>5. CASE Persist \/ PersistFails \/ Audit \/ Trace \/ Return \/ WriteFails
  BY <1>5, RecordKeepsInv
<1>6. CASE OthersTurn \/ DropSession \/ Commit \/ Rollback
  BY <1>6, IdleStep
<1>7. CASE UNCHANGED vars
  BY <1>7 DEF Inv, TypeOK, Launching, InOrder, Scanned, HasResult, Numbered
<1> QED BY <1>1, <1>2, <1>3, <1>4, <1>5, <1>6, <1>7 DEF Next

LEMMA Invariance == Spec => []Inv
<1>1. Inv /\ [Next]_vars => Inv'
  BY NextKeepsInv
<1> QED BY <1>1, InitInv, PTL DEF Spec

(* Every variable keeps its type.                                          *)
THEOREM RoutingTypeCorrect == Spec => []TypeOK
<1>1. Inv => TypeOK
  BY DEF Inv
<1> QED BY <1>1, Invariance, PTL

(* execute_parallel_chat_internal selects the first of the most confident  *)
(* answers whatever the order in which its threads finish.                 *)
THEOREM BestAnswerIsSelected == Spec => []BestAnswerSelected
<1>1. Inv => BestAnswerSelected
  <2> SUFFICES ASSUME Inv, pc = "select", cursor > Len(responses)
               PROVE  /\ responses[best] = workers[best].answer
                      /\ \A i \in DOMAIN workers :
                           /\ workers[i].answer.confidence <= responses[best].confidence
                           /\ i < best => workers[i].answer.confidence < responses[best].confidence
    BY DEF BestAnswerSelected
  <2>1. Len(responses) = Len(workers) /\ best \in 1..Len(responses) /\ cursor = Len(responses) + 1
    BY DEF Inv, Scanned, TypeOK
  <2>2. DOMAIN workers = 1..Len(responses)
    BY <2>1 DEF Inv, TypeOK
  <2>3. \A i \in 1..Len(responses) : responses[i] = workers[i].answer
    BY DEF Inv, InOrder
  <2>4. \A i \in 1..Len(responses) : i < cursor
    BY <2>1
  <2>5. \A i \in 1..Len(responses) :
          /\ responses[i].confidence <= responses[best].confidence
          /\ i < best => responses[i].confidence < responses[best].confidence
    BY <2>4 DEF Inv, Scanned
  <2> QED BY <2>1, <2>2, <2>3, <2>5
<1> QED BY <1>1, Invariance, PTL

-----------------------------------------------------------------------------
(* The messages of a session: what append_session_message leaves of them.  *)

(* No two messages have one place in the order of ids.                     *)
Keyed(M) == \A m, x \in M : m.id = x.id /\ m.part = x.part => m = x

After(x, m) == x.id > m.id \/ (x.id = m.id /\ x.part > m.part)

LEMMA SmallestExists ==
  ASSUME NEW T, T \subseteq Nat, T # {}
  PROVE  \E x \in T : \A y \in T : x <= y
<1> DEFINE R == OpToRel(<, Nat)
<1>1. IsWellFoundedOn(R, Nat)
  BY NatLessThanWellFounded, Zenon
<1>2. \A x, y \in T : y < x => <<y, x>> \in R
  <2> SUFFICES ASSUME NEW x \in T, NEW y \in T, y < x PROVE <<y, x>> \in R
    OBVIOUS
  <2>1. <<y, x>> \in Nat \X Nat /\ <<y, x>>[1] < <<y, x>>[2]
    OBVIOUS
  <2> QED BY <2>1, Zenon DEF OpToRel
<1> HIDE DEF R
<1>3. PICK x \in T : \A y \in T : <<y, x>> \notin R
  BY <1>1, WFMin, Zenon
<1>4. \A y \in T : ~(y < x)
  BY <1>2, <1>3, Zenon
<1> QED BY <1>4

(* Of some messages one is the oldest.                                     *)
LEMMA OldestExists ==
  ASSUME NEW S, S \subseteq Message, S # {}, Keyed(S)
  PROVE  \E d \in S : Newer(S, d) = S \ {d}
<1>0. \A m \in S : m.id \in Nat /\ m.part \in Nat
  BY DEF Message
<1> DEFINE I == {m.id : m \in S}
<1>1. PICK i \in I : \A j \in I : i <= j
  BY <1>0, SmallestExists
<1> DEFINE P == {m.part : m \in {x \in S : x.id = i}}
<1>2. PICK k \in P : \A j \in P : k <= j
  <2>1. P \subseteq Nat /\ P # {}
    BY <1>0
  <2> HIDE DEF P
  <2> QED BY <2>1, SmallestExists
<1>3. PICK d \in S : d.id = i /\ d.part = k
  BY <1>2
<1>4. ASSUME NEW x \in S, x # d PROVE x \in Newer(S, d)
  <2>1. d.id <= x.id /\ (x.id = d.id => d.part <= x.part)
    BY <1>1, <1>2, <1>3
  <2>2. x.id # d.id \/ x.part # d.part
    BY <1>4 DEF Keyed
  <2>3. x.id \in Nat /\ d.id \in Nat /\ x.part \in Nat /\ d.part \in Nat
    BY <1>0
  <2>4. x.id > d.id \/ (x.id = d.id /\ x.part > d.part)
    BY <2>1, <2>2, <2>3
  <2> QED BY <2>4 DEF Newer
<1>5. d \notin Newer(S, d)
  BY <1>0 DEF Newer
<1>6. Newer(S, d) \subseteq S
  BY DEF Newer
<1> QED BY <1>4, <1>5, <1>6

(* One message more than a session may hold: trimming takes the oldest.    *)
LEMMA TrimDropsOldest ==
  ASSUME NEW S, S \subseteq Message, Keyed(S), IsFiniteSet(S), NEW k \in Nat,
         workload.max_messages = k, Cardinality(S) = k + 1
  PROVE  \E d \in S : Trimmed(S) = S \ {d} /\ Newer(S, d) = S \ {d}
<1>1. S # {}
  BY FS_EmptySet
<1>2. PICK d \in S : Newer(S, d) = S \ {d}
  BY <1>1, OldestExists
<1>3. Cardinality(S \ {d}) = k
  <2>1. Cardinality(S \ {d}) = Cardinality(S) - 1
    BY FS_RemoveElement
  <2> QED BY <2>1
<1>4. d \notin Trimmed(S)
  BY <1>2, <1>3 DEF Trimmed
<1>5. ASSUME NEW m \in S, m # d PROVE m \in Trimmed(S)
  <2>1. m \in Newer(S, d)
    BY <1>2, <1>5
  <2>2. m.id \in Nat /\ m.part \in Nat /\ d.id \in Nat /\ d.part \in Nat
    BY DEF Message
  <2>3. d \notin Newer(S, m) /\ m \notin Newer(S, m)
    BY <2>1, <2>2 DEF Newer
  <2>4. Newer(S, m) \in SUBSET (S \ {d, m})
    BY <2>3 DEF Newer
  <2>5. IsFiniteSet(S \ {d}) /\ (S \ {d}) \ {m} = S \ {d, m}
    BY FS_RemoveElement
  <2>6. IsFiniteSet(S \ {d, m}) /\ Cardinality(S \ {d, m}) = k - 1
    BY <1>3, <1>5, <2>5, FS_RemoveElement
  <2>7. IsFiniteSet(Newer(S, m)) /\ Cardinality(Newer(S, m)) <= k - 1
    BY <2>4, <2>6, FS_Subset
  <2>8. Cardinality(Newer(S, m)) \in Nat
    BY <2>7, FS_CardinalityType
  <2> QED BY <2>7, <2>8 DEF Trimmed
<1>6. Trimmed(S) \subseteq S
  BY DEF Trimmed
<1>7. Trimmed(S) = S \ {d}
  BY <1>4, <1>5, <1>6
<1> QED BY <1>2, <1>7

(* Up to as many as it may hold, it takes none.                            *)
LEMMA TrimKeepsFew ==
  ASSUME NEW S, S \subseteq Message, IsFiniteSet(S), NEW k \in Nat,
         workload.max_messages = k, Cardinality(S) <= k
  PROVE  Trimmed(S) = S
<1>1. ASSUME NEW m \in S PROVE m \in Trimmed(S)
  <2>1. m.id \in Nat /\ m.part \in Nat
    BY DEF Message
  <2>2. Newer(S, m) \in SUBSET (S \ {m})
    BY <2>1 DEF Newer
  <2>3. IsFiniteSet(S \ {m}) /\ Cardinality(S \ {m}) = Cardinality(S) - 1
    BY FS_RemoveElement
  <2>4. IsFiniteSet(Newer(S, m)) /\ Cardinality(Newer(S, m)) <= Cardinality(S) - 1
    BY <2>2, <2>3, FS_Subset
  <2>5. Cardinality(Newer(S, m)) \in Nat /\ Cardinality(S) \in Nat
    BY <2>4, FS_CardinalityType
  <2> QED BY <2>4, <2>5 DEF Trimmed
<1> QED BY <1>1 DEF Trimmed

(* What held a message, or enough newer ones, does so after the trim.      *)
LEMMA TrimHolds ==
  ASSUME NEW S, S \subseteq Message, Keyed(S), IsFiniteSet(S), NEW k \in Nat,
         workload.max_messages = k, Cardinality(S) <= k + 1,
         NEW m \in Message, Holds(S, m)
  PROVE  Holds(Trimmed(S), m)
<1>0. Cardinality(S) \in Nat
  BY FS_CardinalityType
<1>1. CASE Cardinality(S) <= k
  BY <1>1, TrimKeepsFew
<1>2. CASE Cardinality(S) = k + 1
  <2>1. PICK d \in S : Trimmed(S) = S \ {d} /\ Newer(S, d) = S \ {d}
    BY <1>2, TrimDropsOldest
  <2>2. IsFiniteSet(S \ {d}) /\ Cardinality(S \ {d}) = k
    BY <1>2, FS_RemoveElement
  <2>3. \A x \in S : x.id \in Nat /\ x.part \in Nat
    BY DEF Message
  <2>4. m.id \in Nat /\ m.part \in Nat
    BY DEF Message
  <2>5. CASE m \in S \ {d}
    BY <2>1, <2>5 DEF Holds
  <2>6. CASE m = d \/ d \in Newer(S, m)
    <3>1. \A x \in S \ {d} : x \in Newer(S \ {d}, m)
      <4>1. ASSUME NEW x \in S \ {d} PROVE x.id > m.id \/ (x.id = m.id /\ x.part > m.part)
        <5>1. x.id > d.id \/ (x.id = d.id /\ x.part > d.part)
          BY <2>1 DEF Newer
        <5>2. m = d \/ d.id > m.id \/ (d.id = m.id /\ d.part > m.part)
          BY <2>6 DEF Newer
        <5> QED BY <2>3, <2>4, <5>1, <5>2
      <4> QED BY <4>1 DEF Newer
    <3>2. Newer(S \ {d}, m) = S \ {d}
      BY <3>1 DEF Newer
    <3> QED BY <2>1, <2>2, <3>2 DEF Holds
  <2>7. CASE m \notin S /\ d \notin Newer(S, m)
    <3>1. Newer(S \ {d}, m) = Newer(S, m)
      BY <2>7 DEF Newer
    <3> QED BY <2>1, <2>7, <3>1 DEF Holds
  <2> QED BY <2>5, <2>6, <2>7
<1> QED BY <1>0, <1>1, <1>2

(* append_session_message keeps a session within its cap, and of what was  *)
(* in it, and the new message, takes only what enough newer ones displace. *)
LEMMA AppendHolds ==
  ASSUME NEW M, M \subseteq Message, Keyed(M), IsFiniteSet(M), NEW k \in Nat,
         workload.max_messages = k, Cardinality(M) <= k,
         NEW n \in Message, \A m \in M : After(n, m),
         NEW N, N = append_session_message(M, n)
  PROVE  /\ N \subseteq M \cup {n} /\ N \subseteq Message
         /\ Keyed(N) /\ IsFiniteSet(N) /\ Cardinality(N) <= k
         /\ \A m \in Message : Holds(M, m) => Holds(N, m)
         /\ Holds(N, n)
<1> DEFINE S == M \cup {n}
<1>1. S \subseteq Message /\ IsFiniteSet(S)
  BY FS_AddElement
<1>2. Cardinality(M) \in Nat /\ Cardinality(S) \in Nat /\ Cardinality(S) <= k + 1
  <2>1. Cardinality(M) \in Nat /\ Cardinality(S) \in Nat
    BY <1>1, FS_CardinalityType
  <2>2. Cardinality(S) = IF n \in M THEN Cardinality(M) ELSE Cardinality(M) + 1
    BY FS_AddElement
  <2> QED BY <2>1, <2>2
<1>3. Keyed(S)
  <2>1. \A m \in S : m.id \in Nat /\ m.part \in Nat
    BY <1>1 DEF Message
  <2>2. \A m \in M : ~(m.id = n.id /\ m.part = n.part)
    BY <2>1 DEF After
  <2> QED BY <2>2 DEF Keyed
<1>4. N = Trimmed(S)
  BY DEF append_session_message
<1>5. ASSUME NEW m \in Message, Holds(M, m) PROVE Holds(S, m)
  <2>1. CASE m \in M
    BY <2>1 DEF Holds
  <2>2. CASE Cardinality(Newer(M, m)) >= k
    <3>1. Newer(M, m) \in SUBSET Newer(S, m) /\ Newer(S, m) \in SUBSET S
      BY DEF Newer
    <3>2. IsFiniteSet(Newer(S, m))
      BY <1>1, <3>1, FS_Subset
    <3>3. IsFiniteSet(Newer(M, m)) /\ Cardinality(Newer(M, m)) <= Cardinality(Newer(S, m))
      BY <3>1, <3>2, FS_Subset
    <3>4. Cardinality(Newer(M, m)) \in Nat /\ Cardinality(Newer(S, m)) \in Nat
      BY <3>2, <3>3, FS_CardinalityType
    <3> QED BY <2>2, <3>3, <3>4 DEF Holds
  <2> QED BY <1>5, <2>1, <2>2 DEF Holds
<1>6. Holds(S, n)
  BY DEF Holds
<1> HIDE DEF S
<1>7. \A m \in Message : Holds(S, m) => Holds(N, m)
  BY <1>1, <1>2, <1>3, <1>4, TrimHolds
<1>8. N \in SUBSET S
  BY <1>4 DEF Trimmed
<1>9. IsFiniteSet(N)
  BY <1>1, <1>8, FS_Subset
<1>10. Cardinality(N) <= k
  <2>1. CASE Cardinality(S) <= k
    BY <1>1, <1>4, <2>1, TrimKeepsFew
  <2>2. CASE Cardinality(S) = k + 1
    <3>1. PICK d \in S : Trimmed(S) = S \ {d}
      BY <1>1, <1>3, <2>2, TrimDropsOldest
    <3>2. Cardinality(S \ {d}) = Cardinality(S) - 1
      BY <1>1, FS_RemoveElement
    <3> QED BY <1>4, <2>2, <3>1, <3>2
  <2> QED BY <1>2, <2>1, <2>2
<1>11. Keyed(N)
  BY <1>3, <1>8 DEF Keyed
<1> QED BY <1>1, <1>5, <1>6, <1>7, <1>8, <1>9, <1>10, <1>11 DEF S

(* So do the two messages of a turn.                                       *)
LEMMA TurnHolds ==
  ASSUME NEW M, M \subseteq Message, Keyed(M), IsFiniteSet(M), NEW k \in Nat,
         workload.max_messages = k, Cardinality(M) <= k,
         NEW n \in Message, NEW x \in Message, After(x, n),
         \A m \in M : After(n, m) /\ After(x, m),
         NEW N, N = append_session_message(append_session_message(M, n), x)
  PROVE  /\ N \subseteq M \cup {n, x}
         /\ Keyed(N) /\ IsFiniteSet(N) /\ Cardinality(N) <= k
         /\ \A m \in Message : Holds(M, m) => Holds(N, m)
         /\ Holds(N, n) /\ Holds(N, x)
<1> DEFINE H == append_session_message(M, n)
<1> HIDE DEF H
<1>1. /\ H \subseteq M \cup {n} /\ H \subseteq Message
      /\ Keyed(H) /\ IsFiniteSet(H) /\ Cardinality(H) <= k
      /\ \A m \in Message : Holds(M, m) => Holds(H, m)
      /\ Holds(H, n)
  BY AppendHolds DEF H
<1>2. N = append_session_message(H, x)
  BY DEF H
<1>3. \A m \in H : After(x, m)
  BY <1>1
<1>4. /\ N \subseteq H \cup {x}
      /\ Keyed(N) /\ IsFiniteSet(N) /\ Cardinality(N) <= k
      /\ \A m \in Message : Holds(H, m) => Holds(N, m)
      /\ Holds(N, x)
  BY <1>1, <1>2, <1>3, AppendHolds
<1> QED BY <1>1, <1>4

-----------------------------------------------------------------------------
(* The records agree with the answers, for every set of instances and      *)
(* every workload.                                                         *)

(* What the current request has recorded so far.                           *)
AuditKept ==
  RowsOf(audit, id) = IF gucs.audit /\ event # "multi_turn_chat_stream" THEN {AuditRow} ELSE {}
TraceKept == RowsOf(trace, id) = IF gucs.trace THEN TraceRows ELSE {}
TurnKept == HasTurn(messages, Outcome(result))

NothingRecorded == RowsOf(audit, id) = {} /\ RowsOf(trace, id) = {}

Early == {"launch", "wait", "select", "fallback", "persist"}

Stage ==
  /\ pc \in Early => NothingRecorded /\ \A m \in messages : m.id < id
  /\ pc = "fallback" => event \notin Streams
  /\ pc = "persist" => event = "multi_turn_chat"
  /\ pc = "audit" => NothingRecorded /\ TurnKept /\ event # "multi_turn_chat_stream"
  /\ pc = "trace" => AuditKept /\ RowsOf(trace, id) = {} /\ TurnKept
  /\ pc = "done" => AuditKept /\ TraceKept /\ TurnKept

(* Numbers are given once, and the request that runs has no outcome yet.   *)
Books ==
  /\ txn \subseteq 1..id /\ kept \subseteq 1..id /\ txn \cap kept = {}
  /\ \A o \in outcomes : o.id \in 1..id
  /\ pc # "idle" => id \in txn /\ \A o \in outcomes : o.id # id

(* The messages of a session, committed or as the client sees them: one to *)
(* a key, none with a key still to come, no more than max_messages.        *)
Fits(M) ==
  IF session /\ workload.max_messages >= 0
  THEN IsFiniteSet(M) /\ Cardinality(M) <= workload.max_messages
  ELSE M = {}
Orderly(M) ==
  /\ Keyed(M) /\ Fits(M)
  /\ \A m \in M : m.id <= id /\ m.part <= 2 * visits + 2

Session ==
  /\ Orderly(messages) /\ Orderly(stored)
  /\ locked => session /\ workload.max_messages >= 0
  /\ ~locked => messages = stored
  /\ \A m \in stored : m.part <= 2 => m.id \in kept
  /\ \A o \in outcomes : o.id \in kept => HasTurn(stored, o)

Accounts == Books /\ Stage /\ Session /\ LogsMatchAnswers

LEMMA InitAccounts == Init => Accounts
<1> SUFFICES ASSUME Init PROVE Accounts
  OBVIOUS
<1>1. IsFiniteSet({}) /\ Cardinality({}) = 0
  BY FS_EmptySet
<1>2. workload.max_messages \in Int
  BY RoutingAssumption DEF Init, Workload
<1>3. Session
  BY <1>1, <1>2 DEF Init, Session, Orderly, Keyed, Fits
<1>4. LogsMatchAnswers
  BY <1>1, <1>2 DEF Init, LogsMatchAnswers
<1> QED BY <1>3, <1>4 DEF Init, Accounts, Books, Stage, Early

(* A turn that a session has, or has displaced, stays so while all that    *)
(* it holds, or holds enough newer messages than, stays held.              *)
LEMMA HasTurnKept ==
  ASSUME Inv, NEW o \in outcomes, o.result # <<>>,
         NEW M, HasTurn(M, o), NEW X, \A m \in X : m.id # o.id \/ m.part > 2,
         NEW N, N \subseteq M \cup X, N \subseteq Message,
         \A m \in Message : Holds(M, m) => Holds(N, m)
  PROVE  HasTurn(N, o)
<1>1. o.id \in Nat /\ o.result.answer \in Answer
  BY DEF Inv, TypeOK, Result, Ids
<1>2. TurnOf(o.id, o.result.answer) \subseteq Message
  BY <1>1 DEF TurnOf, Question, AnswerTo, Message
<1>3. OwnRows(N, o.id) \subseteq OwnRows(M, o.id)
  <2>1. \A m \in N : m.part \in Nat
    BY DEF Message
  <2> QED BY <2>1 DEF OwnRows
<1> QED BY <1>2, <1>3 DEF HasTurn

(* The session is as it was, and no outcome of a committed transaction is  *)
(* new.                                                                    *)
LEMMA SessionStays ==
  ASSUME Inv, Accounts, UNCHANGED <<workload, sessionVars, messages, kept>>,
         id' \in Nat, id' >= id,
         \A o \in outcomes' : o.id \in kept => o \in outcomes
  PROVE  Session'
<1>1. id \in Nat
  BY RoutingAssumption DEF Inv, TypeOK, Workload
<1>2. Orderly(messages)' /\ Orderly(stored)'
  <2>1. \A m \in messages \cup stored : m.id \in Nat
    BY DEF Inv, TypeOK, Message
  <2>2. \A m \in messages \cup stored : m.id <= id' /\ m.part <= 2 * visits + 2
    BY <1>1, <2>1 DEF Accounts, Session, Orderly
  <2> QED BY <2>2 DEF Accounts, Session, Orderly, Keyed, Fits
<1>3. \A o \in outcomes' : o.id \in kept => HasTurn(stored, o)
  BY DEF Accounts, Session
<1> QED BY <1>2, <1>3 DEF Accounts, Session, HasTurn, Holds

(* So are the tables, and the outcomes of the transactions that stand.     *)
LEMMA LogsStay ==
  ASSUME Inv, Accounts, UNCHANGED <<workload, session, tables>>,
         Live \subseteq Live',
         \A o \in outcomes' : o.id \in Live' => o \in outcomes /\ o.id \in Live
  PROVE  LogsMatchAnswers'
<1>1. \A o \in outcomes' : o.id \in Live' => o.result # <<>> /\ Recorded(o)
  BY DEF Accounts, LogsMatchAnswers
<1>2. \A o \in outcomes' : o.id \in Live' => o.result # <<>> /\ Recorded(o)'
  BY <1>1 DEF Recorded, HasTurn, Holds, RowsOf, gucs
<1> QED BY <1>2 DEF Accounts, LogsMatchAnswers

(* A step between two places of a request that records nothing.            *)
LEMMA QuietStep ==
  ASSUME Inv, Accounts, UNCHANGED <<workload, sessionVars, id, event, tables, history>>,
         pc # "idle", Stage'
  PROVE  Accounts'
<1>1. id \in Nat
  BY RoutingAssumption DEF Inv, TypeOK, Workload
<1>2. Session'
  BY <1>1, SessionStays
<1>3. LogsMatchAnswers'
  BY LogsStay DEF Live
<1>4. Books'
  BY DEF Accounts, Books
<1> QED BY <1>2, <1>3, <1>4 DEF Accounts

LEMMA EarlyStep ==
  ASSUME Inv, Accounts, UNCHANGED <<workload, sessionVars, id, event, tables, history>>,
         pc \in Early, pc' \in {"launch", "wait", "select"}
  PROVE  Accounts'
<1>1. Stage'
  BY DEF Accounts, Stage, NothingRecorded, Early, RowsOf
<1>2. pc # "idle"
  BY DEF Early
<1> QED BY <1>1, <1>2, QuietStep

(* An ERROR, an exception or a ROLLBACK takes exactly the rows of the      *)
(* requests of the open transaction, and brings back what they displaced.  *)
LEMMA AbortKeepsLogs ==
  ASSUME Inv, Accounts, Abort, UNCHANGED <<workload, id>>,
         \A o \in outcomes' : o.id \in kept => o \in outcomes
  PROVE  Session' /\ LogsMatchAnswers'
<1>1. /\ audit' = {r \in audit : r.id \notin txn}
      /\ trace' = {r \in trace : r.id \notin txn}
      /\ messages' = stored /\ locked' = FALSE
      /\ UNCHANGED <<session, stored, visits>> /\ kept' = kept /\ txn' = {}
  BY DEF Abort
<1>2. \A o \in outcomes' : o.id \in kept => HasTurn(stored, o)
  BY DEF Accounts, Session
<1>3. \A o \in outcomes' : o.id \in kept => HasTurn(stored, o)'
  BY <1>1, <1>2 DEF HasTurn, Holds
<1>4. Session'
  <2>1. Orderly(stored) /\ \A m \in stored : m.part <= 2 => m.id \in kept
    BY DEF Accounts, Session
  <2>2. Orderly(messages)' /\ Orderly(stored)'
    BY <1>1, <2>1 DEF Orderly, Keyed, Fits
  <2> QED BY <1>1, <1>3, <2>1, <2>2 DEF Session
<1>5. /\ \A r \in audit' : r.id \in kept
      /\ \A r \in trace' : r.id \in kept
      /\ \A r \in messages' : r.part <= 2 => r.id \in kept
  BY <1>1 DEF Accounts, Session, LogsMatchAnswers, Live
<1>6. ASSUME NEW o \in outcomes', o.id \in kept PROVE o.result # <<>> /\ Recorded(o)'
  <2>1. o.result # <<>> /\ Recorded(o)
    BY <1>6 DEF Accounts, LogsMatchAnswers, Live
  <2>2. o.id \notin txn
    BY <1>6 DEF Accounts, Books
  <2>3. /\ RowsOf(audit', o.id) = RowsOf(audit, o.id)
        /\ RowsOf(trace', o.id) = RowsOf(trace, o.id)
    BY <1>1, <2>2 DEF RowsOf
  <2>4. HasTurn(messages, o)'
    BY <1>1, <1>3, <1>6 DEF HasTurn, Holds
  <2> QED BY <2>1, <2>3, <2>4 DEF Recorded, gucs
<1>7. IF session' /\ workload'.max_messages >= 0
      THEN Cardinality(messages') <= workload'.max_messages
      ELSE messages' = {}
  BY <1>1 DEF Accounts, Session, Orderly, Fits
<1>8. Live' = kept
  BY <1>1 DEF Live
<1> QED BY <1>4, <1>5, <1>6, <1>7, <1>8 DEF LogsMatchAnswers

LEMMA FailureKeepsAccounts ==
  ASSUME Inv, Accounts, pc # "idle", pc' = "idle", Abort,
         outcomes' = outcomes \cup {Outcome(<<>>)}, UNCHANGED <<workload, id>>
  PROVE  Accounts'
<1>1. id \in txn /\ id \notin kept /\ id \in 1..id
  BY DEF Accounts, Books
<1>2. Outcome(<<>>).id = id
  BY DEF Outcome
<1>3. kept' = kept /\ txn' = {}
  BY DEF Abort
<1>4. Books'
  BY <1>1, <1>2, <1>3 DEF Accounts, Books
<1>5. Stage'
  BY DEF Stage, Early
<1>6. Session' /\ LogsMatchAnswers'
  BY <1>1, <1>2, AbortKeepsLogs
<1> QED BY <1>4, <1>5, <1>6 DEF Accounts

LEMMA ErrorKeepsAccounts ==
  ASSUME Inv, Accounts, pc # "idle", Error \/ Restart
  PROVE  Accounts'
BY FailureKeepsAccounts DEF Error, Restart, GoTo

-----------------------------------------------------------------------------
(* Between requests.                                                       *)

LEMMA StartKeepsAccounts ==
  ASSUME Inv, Accounts, NEW q, Start(q)
  PROVE  Accounts'
<1>1. id \in Nat /\ id' = id + 1 /\ pc = "idle" /\ pc' = "launch" /\ workload' = workload
      /\ UNCHANGED <<sessionVars, tables, kept, outcomes>> /\ txn' = txn \cup {id + 1}
  BY RoutingAssumption DEF Inv, TypeOK, Start, GoTo, Workload
<1>2. id + 1 \notin Live /\ id + 1 \in 1..id' /\ 1..id \subseteq 1..id'
  BY <1>1 DEF Accounts, Books, Live
<1>3. Books'
  BY <1>1, <1>2 DEF Accounts, Books, Live
<1>4. Stage'
  <2>1. \A m \in messages : m.id < id + 1
    <3>1. \A m \in messages : m.id \in Nat /\ m.id <= id
      BY DEF Inv, TypeOK, Message, Accounts, Session, Orderly
    <3> QED BY <1>1, <3>1
  <2>2. RowsOf(audit, id + 1) = {} /\ RowsOf(trace, id + 1) = {}
    BY <1>2 DEF Accounts, LogsMatchAnswers, RowsOf
  <2>3. NothingRecorded'
    BY <1>1, <2>2 DEF NothingRecorded, RowsOf
  <2> QED BY <1>1, <2>1, <2>3 DEF Stage, Early
<1>5. LogsMatchAnswers'
  <2>1. \A o \in outcomes : o.id \in Live' => o.id \in Live
    BY <1>1 DEF Accounts, Books, Live
  <2> QED BY <1>1, <2>1, LogsStay DEF Live
<1>6. Session'
  BY <1>1, SessionStays
<1> QED BY <1>3, <1>4, <1>5, <1>6 DEF Accounts

(* A turn of another client displaces messages and touches no others.      *)
LEMMA OthersTurnKeepsAccounts ==
  ASSUME Inv, Accounts, OthersTurn
  PROVE  Accounts'
<1> DEFINE k == workload.max_messages
           n == OthersMessage(2 * visits + 3)
           x == OthersMessage(2 * visits + 4)
<1>1. /\ pc = "idle" /\ session /\ ~locked /\ k >= 0
      /\ UNCHANGED <<workload, session, locked, pc, id, audit, trace, history>>
      /\ visits' = visits + 1 /\ stored' = messages'
      /\ messages' = append_session_message(append_session_message(messages, n), x)
  BY DEF OthersTurn, OthersAct
<1>2. id \in Nat /\ visits \in Nat /\ k \in Nat
  <2>1. workload \in Workload
    BY RoutingAssumption DEF Inv, TypeOK
  <2>2. workload.count \in Nat /\ workload.visits \in Nat /\ k \in Int
    BY <2>1 DEF Workload
  <2> QED BY <1>1, <2>2 DEF Inv, TypeOK
<1>3. n \in Message /\ x \in Message /\ n.id = id /\ x.id = id
      /\ n.part = 2 * visits + 3 /\ x.part = 2 * visits + 4
  BY <1>2 DEF OthersMessage, Message
<1>4. \A m \in messages : m.id \in Nat /\ m.part \in Nat /\ m.id <= id /\ m.part <= 2 * visits + 2
  BY DEF Inv, TypeOK, Message, Accounts, Session, Orderly
<1> HIDE DEF k, n, x
<1>5. After(x, n) /\ \A m \in messages : After(n, m) /\ After(x, m)
  BY <1>2, <1>3, <1>4 DEF After
<1>6. messages \subseteq Message /\ Keyed(messages) /\ IsFiniteSet(messages) /\ Cardinality(messages) <= k
  BY <1>1 DEF Inv, TypeOK, Accounts, Session, Orderly, Fits, k
<1> DEFINE N == messages'
<1>7. /\ N \subseteq messages \cup {n, x}
      /\ Keyed(N) /\ IsFiniteSet(N) /\ Cardinality(N) <= k
      /\ \A m \in Message : Holds(messages, m) => Holds(N, m)
  <2> DEFINE M == messages
  <2> HIDE DEF M, N
  <2>1. /\ N = append_session_message(append_session_message(M, n), x)
        /\ M \subseteq Message /\ Keyed(M) /\ IsFiniteSet(M) /\ Cardinality(M) <= k
        /\ \A m \in M : After(n, m) /\ After(x, m)
    BY <1>1, <1>5, <1>6 DEF M, N
  <2>2. workload.max_messages = k
    BY DEF k
  <2>3. /\ N \subseteq M \cup {n, x}
        /\ Keyed(N) /\ IsFiniteSet(N) /\ Cardinality(N) <= k
        /\ \A m \in Message : Holds(M, m) => Holds(N, m)
    BY <1>2, <1>3, <1>5, <2>1, <2>2, TurnHolds
  <2> QED BY <2>3 DEF M
<1>8. N \subseteq Message
  BY <1>3, <1>6, <1>7
<1>9. ASSUME NEW o \in outcomes, o.id \in Live PROVE o.result # <<>> /\ HasTurn(N, o)
  <2>1. o.result # <<>> /\ HasTurn(messages, o)
    BY <1>9 DEF Accounts, LogsMatchAnswers, Recorded
  <2>2. \A m \in {n, x} : m.id # o.id \/ m.part > 2
    BY <1>2, <1>3
  <2> DEFINE M == messages
             X == {n, x}
  <2>3. HasTurn(M, o) /\ N \subseteq M \cup X
        /\ \A m \in Message : Holds(M, m) => Holds(N, m)
    BY <1>7, <2>1
  <2> HIDE DEF M, N, X
  <2>4. \A m \in X : m.id # o.id \/ m.part > 2
    BY <2>2 DEF X
  <2> QED BY <1>8, <2>1, <2>3, <2>4, HasTurnKept, Zenon
<1>10. ASSUME NEW o \in outcomes, o.id \in Live PROVE HasTurn(messages, o)'
  BY <1>1, <1>9, <1>10 DEF HasTurn, Holds
<1>11. Session'
  <2>1. \A m \in N : m.id <= id /\ m.part <= 2 * visits' + 2
    BY <1>1, <1>2, <1>3, <1>4, <1>7
  <2>2. Orderly(messages)' /\ Orderly(stored)'
    BY <1>1, <1>7, <2>1 DEF Orderly, Fits, Keyed, k
  <2>3. \A m \in N : m.part <= 2 => m.id \in kept
    BY <1>1, <1>2, <1>3, <1>7 DEF Accounts, Session
  <2>4. \A o \in outcomes : o.id \in kept => HasTurn(stored, o)'
    BY <1>1, <1>10 DEF Live, HasTurn, Holds
  <2> QED BY <1>1, <2>2, <2>3, <2>4 DEF Session
<1>12. LogsMatchAnswers'
  <2>1. \A o \in outcomes : o.id \in Live => o.result # <<>> /\ Recorded(o)'
    BY <1>1, <1>9, <1>10 DEF Accounts, LogsMatchAnswers, Recorded, RowsOf, gucs
  <2>2. \A m \in N : m.part <= 2 => m.id \in Live
    BY <1>2, <1>3, <1>7 DEF Accounts, LogsMatchAnswers
  <2>3. Live' = Live
    BY <1>1 DEF Live
  <2> QED BY <1>1, <1>7, <2>1, <2>2, <2>3 DEF Accounts, LogsMatchAnswers, k
<1>13. Books' /\ Stage'
  BY <1>1 DEF Accounts, Books, Stage, Early
<1> QED BY <1>11, <1>12, <1>13 DEF Accounts

(* Without the session no turn is owed.                                    *)
LEMMA DropKeepsAccounts ==
  ASSUME Inv, Accounts, DropSession
  PROVE  Accounts'
<1>1. /\ pc = "idle" /\ ~locked /\ session' = FALSE /\ messages' = {} /\ stored' = {}
      /\ UNCHANGED <<workload, locked, visits, pc, id, audit, trace, history>>
  BY DEF DropSession, OthersAct
<1>2. \A o \in outcomes : HasTurn({}, o)'
  BY <1>1 DEF HasTurn, OwnRows
<1>3. \A o \in outcomes : HasTurn(messages, o)' /\ HasTurn(stored, o)'
  BY <1>1, <1>2
<1>4. Session'
  BY <1>1, <1>3 DEF Session, Orderly, Keyed, Fits
<1>5. LogsMatchAnswers'
  BY <1>1, <1>3 DEF Accounts, LogsMatchAnswers, Live, Recorded, RowsOf, gucs
<1> QED BY <1>1, <1>4, <1>5 DEF Accounts, Books, Stage, Early

LEMMA IdleKeepsAccounts ==
  ASSUME Inv, Accounts, Commit \/ Rollback \/ OthersTurn \/ DropSession
  PROVE  Accounts'
<1>1. CASE Commit
  <2>1. /\ pc = "idle" /\ stored' = messages /\ locked' = FALSE /\ kept' = Live /\ txn' = {}
        /\ UNCHANGED <<workload, session, visits, pc, id, tables, outcomes>>
    BY <1>1 DEF Commit, Live
  <2>2. Live' = Live
    BY <2>1 DEF Live
  <2>3. LogsMatchAnswers'
    BY <2>1, <2>2, LogsStay
  <2>4. \A o \in outcomes : o.id \in Live => HasTurn(messages, o)
    BY DEF Accounts, LogsMatchAnswers, Recorded
  <2>5. \A o \in outcomes : o.id \in Live => HasTurn(stored, o)'
    BY <2>1, <2>4 DEF HasTurn, Holds
  <2>6. Orderly(messages)' /\ Orderly(stored)'
    BY <2>1 DEF Accounts, Session, Orderly, Keyed, Fits
  <2>7. Session'
    BY <2>1, <2>5, <2>6 DEF Session, Accounts, LogsMatchAnswers
  <2>8. Books' /\ Stage'
    BY <2>1 DEF Accounts, Books, Stage, Early, Live
  <2> QED BY <2>3, <2>7, <2>8 DEF Accounts
<1>2. CASE Rollback
  <2>1. pc = "idle" /\ Abort /\ UNCHANGED <<workload, pc, id, outcomes>> /\ kept' = kept /\ txn' = {}
    BY <1>2 DEF Rollback, Abort
  <2>2. Session' /\ LogsMatchAnswers'
    BY <2>1, AbortKeepsLogs
  <2> QED BY <2>1, <2>2 DEF Accounts, Books, Stage, Early
<1> QED BY <1>1, <1>2, OthersTurnKeepsAccounts, DropKeepsAccounts

-----------------------------------------------------------------------------
(* The way to the answer.                                                  *)

LEMMA CandidatesKeepAccounts ==
  ASSUME Inv, Accounts,
         Launch \/ Launched \/ Collect \/ CollectThrows \/ Collected \/ Compare
  PROVE  Accounts'
<1>1. pc \in {"launch", "wait", "select"} /\ pc # "idle"
  BY DEF Launch, Launched, Collect, CollectThrows, Collected, Compare
<1>2. CASE Error \/ Restart
  BY <1>1, <1>2, ErrorKeepsAccounts
<1>3. CASE ~(Error \/ Restart)
  <2>1. UNCHANGED <<workload, sessionVars, id, event, tables, history>>
        /\ pc' \in {"launch", "wait", "select"}
    BY <1>1, <1>3 DEF Launch, Launched, Collect, CollectThrows, Collected, Compare, GoTo
  <2> QED BY <1>1, <2>1, EarlyStep DEF Early
<1> QED BY <1>2, <1>3

(* The threads of a request have done when its answer is selected; those   *)
(* of a request that failed touch nothing that is kept.                    *)
LEMMA WorkKeepsAccounts ==
  ASSUME Inv, Accounts, NEW i \in DOMAIN workers, Work(i)
  PROVE  Accounts'
<1>1. UNCHANGED <<setup, sessionVars, pc, request, responses, cursor, best, result, tables, history>>
  BY DEF Work, SetOptions, Perform, Reply
<1>2. id \in Nat
  BY RoutingAssumption DEF Inv, TypeOK, Workload
<1>3. Session'
  BY <1>1, <1>2, SessionStays
<1>4. LogsMatchAnswers'
  BY <1>1, LogsStay DEF Live
<1>5. Books' /\ Stage'
  BY <1>1 DEF Accounts, Books, Stage, NothingRecorded, AuditKept, TraceKept, TurnKept, Outcome,
              HasTurn, Holds, AuditRow, TraceRows, RowsOf, gucs
<1> QED BY <1>3, <1>4, <1>5 DEF Accounts

(* A request that leaves no turn owes none.                                *)
LEMMA NoTurnOwed ==
  ASSUME Inv, \A m \in messages : m.id < id, event # "multi_turn_chat", id \in Nat,
         UNCHANGED <<messages, id, event>>
  PROVE  TurnKept'
<1>1. \A m \in messages : m.id # id
  <2>1. \A m \in messages : m.id \in Nat
    BY DEF Inv, TypeOK, Message
  <2> QED BY <2>1
<1>2. OwnRows(messages, id) = {}
  BY <1>1 DEF OwnRows
<1>3. Outcome(result)'.id = id /\ Outcome(result)'.event # "multi_turn_chat"
  BY DEF Outcome
<1> QED BY <1>2, <1>3 DEF TurnKept, HasTurn

LEMMA SelectKeepsAccounts ==
  ASSUME Inv, Accounts, Select
  PROVE  Accounts'
<1>1. pc = "select" /\ pc' = AfterSelection
      /\ UNCHANGED <<workload, sessionVars, id, event, tables, history>>
  BY DEF Select, GoTo
<1>2. NothingRecorded /\ \A m \in messages : m.id < id
  BY <1>1 DEF Accounts, Stage, Early
<1>3. id \in Nat
  BY RoutingAssumption DEF Inv, TypeOK, Workload
<1>4. NothingRecorded'
  BY <1>1, <1>2 DEF NothingRecorded, RowsOf
<1>5. Stage'
  <2>1. CASE event = "chat_stream"
    <3>1. pc' = "audit" /\ TurnKept'
      BY <1>1, <1>2, <1>3, <2>1, NoTurnOwed DEF AfterSelection
    <3> QED BY <1>1, <1>4, <2>1, <3>1 DEF Stage, Early
  <2>2. CASE event = "multi_turn_chat_stream"
    <3>1. pc' = "trace" /\ TurnKept'
      BY <1>1, <1>2, <1>3, <2>2, NoTurnOwed DEF AfterSelection
    <3>2. AuditKept' /\ RowsOf(trace, id)' = {}
      BY <1>1, <1>4, <2>2 DEF AuditKept, NothingRecorded
    <3> QED BY <3>1, <3>2 DEF Stage, Early
  <2>3. CASE event \notin Streams
    <3>1. pc' = "fallback"
      BY <1>1, <2>3 DEF AfterSelection, Streams
    <3> QED BY <1>1, <1>2, <1>4, <2>3, <3>1 DEF Stage, Early
  <2> QED BY <2>1, <2>2, <2>3 DEF Streams
<1> QED BY <1>1, <1>5, QuietStep

LEMMA FallbackKeepsAccounts ==
  ASSUME Inv, Accounts, KeepAnswer \/ AskFallback \/ FallbackFails \/ FallbackThrows
  PROVE  Accounts'
<1>1. pc = "fallback"
  BY DEF KeepAnswer, AskFallback, FallbackFails, FallbackThrows, Judging
<1>2. CASE FallbackFails \/ FallbackThrows
  BY <1>1, <1>2, ErrorKeepsAccounts DEF FallbackFails, FallbackThrows
<1>3. CASE KeepAnswer \/ AskFallback
  <2>1. pc' = AfterFallback /\ UNCHANGED <<workload, sessionVars, id, event, tables, history>>
    BY <1>3 DEF KeepAnswer, AskFallback, GoTo
  <2>2. NothingRecorded /\ event \notin Streams /\ \A m \in messages : m.id < id
    BY <1>1 DEF Accounts, Stage, Early
  <2>3. NothingRecorded'
    BY <2>1, <2>2 DEF NothingRecorded, RowsOf
  <2>4. id \in Nat
    BY RoutingAssumption DEF Inv, TypeOK, Workload
  <2>5. Stage'
    <3>1. CASE event \in MultiTurn
      <4>1. pc' = "persist" /\ event = "multi_turn_chat"
        BY <2>1, <2>2, <3>1 DEF AfterFallback, MultiTurn, Streams
      <4> QED BY <2>1, <2>2, <2>3, <4>1 DEF Stage, Early
    <3>2. CASE event \notin MultiTurn
      <4>1. pc' = "audit" /\ event \notin {"multi_turn_chat", "multi_turn_chat_stream"}
        BY <2>1, <3>2 DEF AfterFallback, MultiTurn
      <4>2. TurnKept'
        BY <2>1, <2>2, <2>4, <4>1, NoTurnOwed
      <4> QED BY <2>1, <2>3, <4>1, <4>2 DEF Stage, Early
    <3> QED BY <3>1, <3>2
  <2> QED BY <1>1, <2>1, <2>5, QuietStep
<1> QED BY <1>2, <1>3

-----------------------------------------------------------------------------
(* The records.                                                            *)

(* The turn of the running request is nobody else's.                       *)
LEMMA PersistKeepsAccounts ==
  ASSUME Inv, Accounts, Persist
  PROVE  Accounts'
<1> DEFINE k == workload.max_messages
           n == Question(id)
           x == AnswerTo(id, result.answer)
<1>1. /\ pc = "persist" /\ pc' = "audit" /\ session /\ k >= 0 /\ locked'
      /\ UNCHANGED <<workload, session, stored, visits, id, event, result, audit, trace, history>>
      /\ messages' = append_session_message(append_session_message(messages, n), x)
  BY DEF Persist, GoTo
<1>2. id \in Nat /\ visits \in Nat /\ k \in Nat /\ result.answer \in Answer /\ result # <<>>
  <2>1. workload \in Workload
    BY RoutingAssumption DEF Inv, TypeOK
  <2>2. workload.count \in Nat /\ workload.visits \in Nat /\ k \in Int
    BY <2>1 DEF Workload
  <2>3. result \in Result
    BY <1>1 DEF Inv, HasResult
  <2>4. DOMAIN result = {"answer", "label", "fallback"} /\ DOMAIN <<>> = {}
    BY <2>3 DEF Result
  <2>5. result.answer \in Answer
    BY <2>3 DEF Result
  <2>6. id \in 0..workload.count /\ visits \in 0..workload.visits
    BY DEF Inv, TypeOK
  <2>7. id \in Nat /\ visits \in Nat /\ k \in Nat
    BY <1>1, <2>2, <2>6
  <2>8. result # <<>>
    BY <2>4
  <2> QED BY <2>5, <2>7, <2>8
<1>3. n \in Message /\ x \in Message /\ n.id = id /\ x.id = id /\ n.part = 1 /\ x.part = 2
  BY <1>2 DEF Question, AnswerTo, Message
<1>4. /\ event = "multi_turn_chat" /\ NothingRecorded
      /\ \A m \in messages : m.id \in Nat /\ m.id < id
  BY <1>1 DEF Inv, TypeOK, Message, Accounts, Stage, Early
<1>5. TurnOf(id, result.answer) = {n, x}
  BY DEF TurnOf
<1>6. id \in txn /\ \A o \in outcomes : o.id # id
  BY <1>1 DEF Accounts, Books
<1> HIDE DEF k, n, x
<1>7. After(x, n) /\ \A m \in messages : After(n, m) /\ After(x, m)
  BY <1>2, <1>3, <1>4 DEF After
<1>8. messages \subseteq Message /\ Keyed(messages) /\ IsFiniteSet(messages) /\ Cardinality(messages) <= k
  BY <1>1 DEF Inv, TypeOK, Accounts, Session, Orderly, Fits, k
<1> DEFINE N == messages'
<1>9. /\ N \subseteq messages \cup {n, x}
      /\ Keyed(N) /\ IsFiniteSet(N) /\ Cardinality(N) <= k
      /\ \A m \in Message : Holds(messages, m) => Holds(N, m)
      /\ Holds(N, n) /\ Holds(N, x)
  <2> DEFINE M == messages
  <2> HIDE DEF M, N
  <2>1. /\ N = append_session_message(append_session_message(M, n), x)
        /\ M \subseteq Message /\ Keyed(M) /\ IsFiniteSet(M) /\ Cardinality(M) <= k
        /\ \A m \in M : After(n, m) /\ After(x, m)
    BY <1>1, <1>7, <1>8 DEF M, N
  <2>2. workload.max_messages = k
    BY DEF k
  <2>3. /\ N \subseteq M \cup {n, x}
        /\ Keyed(N) /\ IsFiniteSet(N) /\ Cardinality(N) <= k
        /\ \A m \in Message : Holds(M, m) => Holds(N, m)
        /\ Holds(N, n) /\ Holds(N, x)
    BY <1>2, <1>3, <1>7, <2>1, <2>2, TurnHolds
  <2> QED BY <2>3 DEF M
<1>10. N \subseteq Message
  BY <1>3, <1>8, <1>9
<1>11. ASSUME NEW o \in outcomes, o.id \in Live PROVE o.result # <<>> /\ HasTurn(N, o)
  <2>1. o.result # <<>> /\ HasTurn(messages, o)
    BY <1>11 DEF Accounts, LogsMatchAnswers, Recorded
  <2>2. \A m \in {n, x} : m.id # o.id \/ m.part > 2
    BY <1>3, <1>6
  <2> DEFINE M == messages
             X == {n, x}
  <2>3. HasTurn(M, o) /\ N \subseteq M \cup X
        /\ \A m \in Message : Holds(M, m) => Holds(N, m)
    BY <1>9, <2>1
  <2> HIDE DEF M, N, X
  <2>4. \A m \in X : m.id # o.id \/ m.part > 2
    BY <2>2 DEF X
  <2> QED BY <1>10, <2>1, <2>3, <2>4, HasTurnKept, Zenon
<1>12. Session'
  <2>1. \A m \in N : m.id <= id /\ m.part <= 2 * visits + 2
    <3>1. \A m \in messages : m.id <= id /\ m.part <= 2 * visits + 2
      BY DEF Accounts, Session, Orderly
    <3> QED BY <1>2, <1>3, <1>9, <3>1
  <2>2. Orderly(messages)'
    BY <1>1, <1>9, <2>1 DEF Orderly, Fits, Keyed, k
  <2>3. Orderly(stored)'
    BY <1>1 DEF Accounts, Session, Orderly, Fits, Keyed
  <2>4. \A o \in outcomes : o.id \in kept => HasTurn(stored, o)'
    BY <1>1 DEF Accounts, Session, HasTurn, Holds
  <2> QED BY <1>1, <2>2, <2>3, <2>4 DEF Accounts, Session, k
<1>13. LogsMatchAnswers'
  <2>1. \A o \in outcomes : o.id \in Live => o.result # <<>> /\ HasTurn(messages, o)'
    BY <1>1, <1>11 DEF HasTurn, Holds
  <2>2. \A o \in outcomes : o.id \in Live => o.result # <<>> /\ Recorded(o)'
    BY <1>1, <2>1 DEF Accounts, LogsMatchAnswers, Recorded, RowsOf, gucs
  <2>3. \A m \in N : m.part <= 2 => m.id \in Live
    BY <1>3, <1>6, <1>9 DEF Accounts, LogsMatchAnswers, Live
  <2>4. Live' = Live
    BY <1>1 DEF Live
  <2> QED BY <1>1, <1>9, <2>2, <2>3, <2>4 DEF Accounts, LogsMatchAnswers, k
<1>14. Books'
  BY <1>1 DEF Accounts, Books
<1>15. Stage'
  <2>1. NothingRecorded'
    BY <1>1, <1>4 DEF NothingRecorded, RowsOf
  <2>2. OwnRows(N, id) \subseteq {n, x}
    <3>1. \A m \in messages : m.id # id
      BY <1>2, <1>4
    <3> QED BY <1>9, <3>1 DEF OwnRows
  <2>3. \A m \in {n, x} : Holds(N, m)
    BY <1>9
  <2>4. Outcome(result)'.id = id /\ Outcome(result)'.event = "multi_turn_chat"
        /\ Outcome(result)'.result = result
    BY <1>1, <1>4 DEF Outcome
  <2>5. TurnKept'
    BY <1>1, <1>5, <2>2, <2>3, <2>4 DEF TurnKept, HasTurn, Holds
  <2> QED BY <1>1, <1>4, <2>1, <2>5 DEF Stage, Early
<1> QED BY <1>12, <1>13, <1>14, <1>15 DEF Accounts

(* Rows added for the running request are nobody else's.                   *)
LEMMA OthersRecorded ==
  ASSUME Inv, Accounts, pc # "idle",
         UNCHANGED <<workload, session, messages, txn, kept>>,
         NEW o \in outcomes, o.id \in Live,
         \A n \in Nat : n # id => /\ RowsOf(audit', n) = RowsOf(audit, n)
                                  /\ RowsOf(trace', n) = RowsOf(trace, n)
  PROVE  o.result # <<>> /\ Recorded(o)'
<1>1. o.id \in Nat /\ o.id # id
  BY DEF Accounts, Books
<1>2. o.result # <<>> /\ Recorded(o)
  BY DEF Accounts, LogsMatchAnswers
<1>3. /\ RowsOf(audit', o.id) = RowsOf(audit, o.id)
      /\ RowsOf(trace', o.id) = RowsOf(trace, o.id)
  BY <1>1
<1> QED BY <1>2, <1>3 DEF Recorded, HasTurn, Holds, gucs

LEMMA RecordKeepsAccounts ==
  ASSUME Inv, Accounts, Audit \/ Trace
  PROVE  Accounts'
<1>1. pc # "idle" /\ pc' # "idle"
      /\ UNCHANGED <<workload, sessionVars, id, event, names, options, result, messages, txn, kept, outcomes>>
  BY DEF Audit, Trace, GoTo
<1>2. id \in Live /\ id \in Nat
  <2>1. id \in Nat
    BY RoutingAssumption DEF Inv, TypeOK, Workload
  <2> QED BY <1>1, <2>1 DEF Accounts, Books, Live
<1>3. (\A r \in audit' : r.id \in Live) /\ (\A r \in trace' : r.id \in Live)
  <2>1. AuditRow.id = id /\ \A r \in TraceRows : r.id = id
    BY DEF AuditRow, TraceRows
  <2> QED BY <1>1, <1>2, <2>1 DEF Accounts, LogsMatchAnswers, Audit, Trace
<1>4. \A n \in Nat : n # id => /\ RowsOf(audit', n) = RowsOf(audit, n)
                               /\ RowsOf(trace', n) = RowsOf(trace, n)
  <2>1. CASE Audit
    BY <2>1 DEF Audit, AuditRow, RowsOf
  <2>2. CASE Trace
    BY <2>2 DEF Trace, TraceRows, RowsOf
  <2> QED BY <2>1, <2>2
<1>5. LogsMatchAnswers'
  <2>1. Live' = Live
    BY <1>1 DEF Live
  <2>2. \A o \in outcomes : o.id \in Live => o.result # <<>> /\ Recorded(o)'
    BY <1>1, <1>4, OthersRecorded
  <2> QED BY <1>1, <1>3, <2>1, <2>2 DEF Accounts, LogsMatchAnswers
<1>6. Books'
  BY <1>1 DEF Accounts, Books
<1>7. Session'
  BY <1>1, <1>2, SessionStays
<1>8. ASSUME TurnKept PROVE TurnKept'
  BY <1>1, <1>8 DEF TurnKept, Outcome, HasTurn, Holds
<1>9. Stage'
  <2>1. CASE Audit
    <3>1. pc' = "trace" /\ trace' = trace /\ RowsOf(trace, id) = {} /\ TurnKept'
      BY <1>8, <2>1 DEF Audit, GoTo, Accounts, Stage, NothingRecorded
    <3>2. AuditKept'
      <4>1. audit' = IF gucs.audit THEN audit \cup {AuditRow} ELSE audit
        BY <2>1 DEF Audit
      <4>2. RowsOf(audit, id) = {} /\ AuditRow.id = id /\ event # "multi_turn_chat_stream"
        BY <2>1 DEF Audit, Accounts, Stage, NothingRecorded, AuditRow
      <4>3. RowsOf(audit', id) = IF gucs.audit THEN {AuditRow} ELSE {}
        BY <4>1, <4>2 DEF RowsOf
      <4> QED BY <1>1, <4>2, <4>3 DEF AuditKept, AuditRow, gucs
    <3> QED BY <1>1, <3>1, <3>2 DEF Stage, Early
  <2>2. CASE Trace
    <3>1. pc' = "done" /\ audit' = audit /\ AuditKept /\ RowsOf(trace, id) = {} /\ TurnKept'
      BY <1>8, <2>2 DEF Trace, GoTo, Accounts, Stage
    <3>2. TraceKept'
      <4>1. trace' = IF gucs.trace THEN trace \cup TraceRows ELSE trace
        BY <2>2 DEF Trace
      <4>2. \A r \in TraceRows : r.id = id
        BY DEF TraceRows
      <4>3. RowsOf(trace', id) = IF gucs.trace THEN TraceRows ELSE {}
        BY <3>1, <4>1, <4>2 DEF RowsOf
      <4> QED BY <1>1, <4>3 DEF TraceKept, TraceRows, gucs
    <3>3. AuditKept'
      BY <1>1, <3>1 DEF AuditKept, AuditRow, RowsOf, gucs
    <3> QED BY <3>1, <3>2, <3>3 DEF Stage, Early
  <2> QED BY <2>1, <2>2
<1> QED BY <1>5, <1>6, <1>7, <1>9 DEF Accounts

LEMMA ReturnKeepsAccounts ==
  ASSUME Inv, Accounts, Return
  PROVE  Accounts'
<1> DEFINE o == Outcome(result)
<1>1. pc = "done" /\ pc' = "idle" /\ outcomes' = outcomes \cup {o}
      /\ UNCHANGED <<workload, sessionVars, id, tables, txn, kept>>
  BY DEF Return, GoTo
<1>2. o.id = id /\ o.event = event /\ o.result = result
  BY DEF Outcome
<1>3. result # <<>>
  <2>1. result \in Result
    BY <1>1 DEF Inv, HasResult
  <2>2. DOMAIN result = {"answer", "label", "fallback"} /\ DOMAIN <<>> = {}
    BY <2>1 DEF Result
  <2> QED BY <2>2
<1>4. Recorded(o)
  <2>1. AuditKept /\ TraceKept /\ TurnKept
    BY <1>1 DEF Accounts, Stage
  <2>2. TraceRows = [id : {id}, no : IF result.fallback THEN {1, 2} ELSE {1}]
    BY DEF TraceRows
  <2>3. HasTurn(messages, o)
    BY <2>1 DEF TurnKept
  <2> HIDE DEF o
  <2> QED BY <1>2, <2>1, <2>2, <2>3 DEF Recorded, AuditKept, TraceKept, AuditRow
<1>5. id \in 1..id /\ id \in txn /\ id \notin kept /\ id \in Nat
  <2>1. id \in Nat
    BY RoutingAssumption DEF Inv, TypeOK, Workload
  <2> QED BY <1>1, <2>1 DEF Accounts, Books
<1> HIDE DEF o
<1>6. Books'
  BY <1>1, <1>2, <1>5 DEF Accounts, Books
<1>7. Stage'
  BY <1>1 DEF Stage, Early
<1>8. LogsMatchAnswers'
  <2>1. \A q \in outcomes' : q.id \in Live => q.result # <<>> /\ Recorded(q)
    BY <1>1, <1>2, <1>3, <1>4 DEF Accounts, LogsMatchAnswers
  <2>2. \A q \in outcomes' : q.id \in Live => q.result # <<>> /\ Recorded(q)'
    BY <1>1, <2>1 DEF Recorded, HasTurn, Holds, gucs
  <2> QED BY <1>1, <2>2 DEF Accounts, LogsMatchAnswers, Live
<1>9. Session'
  BY <1>1, <1>2, <1>5, SessionStays
<1> QED BY <1>6, <1>7, <1>8, <1>9 DEF Accounts

-----------------------------------------------------------------------------
LEMMA NextKeepsAccounts ==
  ASSUME Inv, Accounts, [Next]_vars
  PROVE  Accounts'
<1>1. ASSUME NEW q, Start(q) PROVE Accounts'
  BY <1>1, StartKeepsAccounts
<1>2. ASSUME NEW i \in DOMAIN workers, Work(i) PROVE Accounts'
  BY <1>2, WorkKeepsAccounts
<1>3. CASE Launch \/ Launched \/ Collect \/ CollectThrows \/ Collected \/ Compare
  BY <1>3, CandidatesKeepAccounts
<1>4. CASE Select
  BY <1>4, SelectKeepsAccounts
<1>5. CASE KeepAnswer \/ AskFallback \/ FallbackFails \/ FallbackThrows
  BY <1>5, FallbackKeepsAccounts
<1>6. CASE Persist \/ Audit \/ Trace
  BY <1>6, PersistKeepsAccounts, RecordKeepsAccounts
<1>7. CASE Return
  BY <1>7, ReturnKeepsAccounts
<1>8. CASE WriteFails \/ PersistFails
  BY <1>8, ErrorKeepsAccounts DEF WriteFails, PersistFails
<1>9. CASE OthersTurn \/ DropSession \/ Commit \/ Rollback
  BY <1>9, IdleKeepsAccounts
<1>10. CASE UNCHANGED vars
  <2>1. id \in Nat
    BY RoutingAssumption DEF Inv, TypeOK, Workload
  <2>2. Session'
    BY <1>10, <2>1, SessionStays
  <2>3. LogsMatchAnswers'
    BY <1>10, LogsStay DEF Live
  <2>4. Books' /\ Stage'
    BY <1>10 DEF Accounts, Books, Stage, NothingRecorded, AuditKept, TraceKept, TurnKept, Outcome,
                 HasTurn, Holds, AuditRow, TraceRows, RowsOf, gucs
  <2> QED BY <2>2, <2>3, <2>4 DEF Accounts
<1> QED BY <1>1, <1>2, <1>3, <1>4, <1>5, <1>6, <1>7, <1>8, <1>9, <1>10 DEF Next

(* The audit, trace and session rows are those of the answers that stand,  *)
(* whatever fails, throws, commits or rolls back and whatever the other    *)
(* clients of the session do: a turn is missing only where the session was *)
(* deleted or max_messages newer messages are in it.                       *)
THEOREM RecordsMatchAnswers == Spec => []LogsMatchAnswers
<1>1. Inv /\ Accounts /\ [Next]_vars => Accounts'
  BY NextKeepsAccounts
<1>2. Accounts => LogsMatchAnswers
  BY DEF Accounts
<1> QED BY <1>1, <1>2, InitAccounts, Invariance, PTL DEF Spec

-----------------------------------------------------------------------------
(* Whose an answer is: candidates that are listed once stay apart, and     *)
(* each is judged by the policy of its own model, for every set of         *)
(* instances and every workload.                                           *)

(* All the steps but those of the candidates.                              *)
Judge == KeepAnswer \/ AskFallback \/ FallbackFails \/ FallbackThrows
Record == Persist \/ Audit \/ Trace \/ Return
Between == PersistFails \/ WriteFails \/ OthersTurn \/ DropSession \/ Commit \/ Rollback
Gather == Launched \/ Collect \/ CollectThrows \/ Collected \/ Compare \/ Select

(* None of them touches a thread or its buffer, but for a restart, which   *)
(* ends the threads.                                                       *)
LEMMA ThreadsStay ==
  ASSUME Gather \/ Judge \/ Record \/ Between \/ UNCHANGED vars
  PROVE  /\ UNCHANGED <<workers, target, names, catalog>> \/ Restart
         /\ pc' = "launch" => UNCHANGED <<pc, cursor, workers>>
BY DEF Gather, Judge, Record, Between, Launched, Collect, CollectThrows, Collected, Compare, Select,
       AfterSelection, KeepAnswer, AskFallback, AfterFallback, FallbackFails, FallbackThrows, Persist,
       Audit, Trace, Return, PersistFails, WriteFails, OthersTurn, DropSession, Commit, Rollback, Error,
       Restart, GoTo

LEMMA NextCases ==
  [Next]_vars <=> \/ \E q \in UNION {w.requests : w \in Workloads} : Start(q)
                  \/ Launch
                  \/ \E i \in DOMAIN workers : Work(i)
                  \/ Gather \/ Judge \/ Record \/ Between \/ UNCHANGED vars
BY DEF Next, Gather, Judge, Record, Between

-----------------------------------------------------------------------------
(* Candidates that are listed once stay apart.                             *)

Distinct == \A i, j \in DOMAIN names : names[i] = names[j] => i = j

Own(i) ==
  /\ ~workers[i].spilled /\ workers[i].answer.kind # "mixed"
  /\ workers[i].at = "set" => target[workers[i].model] = i

Injective == \A i, j \in DOMAIN workers : workers[i].model = workers[j].model => i = j

(* While they are launched, the threads have the names before the cursor.  *)
Behind ==
  pc = "launch" => \A i \in DOMAIN workers : \E k \in 1..cursor : names[k] = workers[i].model

Apart == Distinct => (\A i \in DOMAIN workers : Own(i)) /\ Injective /\ Behind

LEMMA LaunchKeepsApart ==
  ASSUME Inv, Apart, Launch
  PROVE  Apart'
<1> DEFINE n == names[cursor + 1]
<1>1. names' = names /\ pc = "launch" /\ cursor \in Nat /\ cursor < Len(names)
      /\ names \in Seq(Instances) /\ workers \in Seq(Worker)
  BY DEF Launch, Error, Inv, TypeOK
<1>2. CASE workers' = Append(workers, NewWorker(n)) /\ cursor' = cursor + 1
           /\ UNCHANGED <<setup, sessionVars, pc, request, target, responses, best, result, tables, history>>
  <2> SUFFICES ASSUME Distinct PROVE (\A i \in DOMAIN workers' : Own(i)') /\ Injective' /\ Behind'
    BY <1>1 DEF Apart, Distinct
  <2>1. (\A i \in DOMAIN workers : Own(i)) /\ Injective /\ Behind
    BY DEF Apart
  <2>2. DOMAIN workers' = 1..(Len(workers) + 1) /\ DOMAIN workers = 1..Len(workers) /\ Len(workers) \in Nat
    BY <1>1, <1>2
  <2>3. /\ \A i \in DOMAIN workers : workers'[i] = workers[i]
        /\ workers'[Len(workers) + 1] = NewWorker(n)
    BY <1>1, <1>2
  <2>4. \A i \in DOMAIN workers : workers[i].model # n
    <3>1. ASSUME NEW k \in 1..cursor PROVE names[k] # n
      BY <1>1, <3>1 DEF Distinct
    <3> QED BY <1>1, <2>1, <3>1 DEF Behind
  <2>5. /\ NewWorker(n).model = n /\ ~NewWorker(n).spilled /\ NewWorker(n).at = "running"
        /\ NewWorker(n).answer.kind = "none"
    BY DEF NewWorker, NothingYet
  <2> HIDE DEF n
  <2>6. \A i \in DOMAIN workers' : Own(i)'
    BY <1>2, <2>1, <2>2, <2>3, <2>5 DEF Own
  <2>7. Injective'
    BY <2>1, <2>2, <2>3, <2>4, <2>5 DEF Injective
  <2>8. Behind'
    <3>1. ASSUME NEW i \in DOMAIN workers PROVE \E k \in 1..(cursor + 1) : names[k] = workers'[i].model
      <4>1. PICK k \in 1..cursor : names[k] = workers[i].model
        BY <1>1, <2>1 DEF Behind
      <4> QED BY <1>1, <2>3, <4>1
    <3>2. \E k \in 1..(cursor + 1) : names[k] = workers'[Len(workers) + 1].model
      BY <1>1, <2>3, <2>5 DEF n
    <3> QED BY <1>1, <1>2, <2>2, <3>1, <3>2 DEF Behind
  <2> QED BY <2>6, <2>7, <2>8
<1>3. CASE cursor' = cursor + 1
           /\ UNCHANGED <<setup, sessionVars, pc, request, candidates, best, result, tables, history>>
  BY <1>1, <1>3 DEF Apart, Distinct, Own, Injective, Behind
<1>4. CASE Error
  BY <1>4 DEF Error, GoTo, Apart, Distinct, Own, Injective, Behind
<1> QED BY <1>2, <1>3, <1>4 DEF Launch

LEMMA WorkKeepsApart ==
  ASSUME Inv, Apart, NEW i \in DOMAIN workers, Work(i)
  PROVE  Apart'
<1> SUFFICES ASSUME Distinct PROVE (\A j \in DOMAIN workers' : Own(j)') /\ Injective' /\ Behind'
  BY DEF Apart, Distinct, Work, SetOptions, Perform, Reply
<1> DEFINE n == workers[i].model
<1>1. (\A j \in DOMAIN workers : Own(j)) /\ Injective /\ Behind
  BY DEF Apart
<1>2. workers \in Seq(Worker) /\ n \in Instances /\ target \in [Instances -> Nat]
      /\ \A j \in DOMAIN workers : workers[j] \in Worker
  <2>1. workers \in Seq(Worker) /\ target \in [Instances -> Nat]
    BY DEF Inv, TypeOK
  <2>2. \A j \in DOMAIN workers : workers[j] \in Worker
    BY <2>1
  <2> QED BY <2>1, <2>2 DEF Worker
<1>3. ASSUME workers' \in Seq(Worker), DOMAIN workers' = DOMAIN workers,
             \A j \in DOMAIN workers : workers'[j].model = workers[j].model,
             UNCHANGED <<pc, names, cursor>>
      PROVE  Injective' /\ Behind'
  BY <1>1, <1>3 DEF Injective, Behind
<1>4. ASSUME NEW a \in Answer, a.kind # "mixed", workers' = Finished(i, a),
             UNCHANGED <<pc, names, cursor, target>>
      PROVE  (\A j \in DOMAIN workers' : Own(j)') /\ Injective' /\ Behind'
  <2> DEFINE w == [workers[i] EXCEPT !.at = "done", !.answer = a]
  <2>1. w \in Worker /\ w.at = "done" /\ w.answer = a /\ w.model = n /\ w.spilled = workers[i].spilled
    BY <1>2, <1>4 DEF Worker
  <2>2. workers' = [workers EXCEPT ![i] = w]
    BY <1>4 DEF Finished
  <2> HIDE DEF w
  <2>3. /\ workers' \in Seq(Worker) /\ DOMAIN workers' = DOMAIN workers
        /\ \A j \in DOMAIN workers : workers'[j] = IF j = i THEN w ELSE workers[j]
    BY <1>2, <2>1, <2>2
  <2>4. \A j \in DOMAIN workers' : Own(j)'
    BY <1>1, <1>4, <2>1, <2>3 DEF Own
  <2> QED BY <1>3, <1>4, <2>1, <2>3, <2>4
<1>5. \A a \in Answers(n) : a \in Answer /\ a.kind # "mixed"
  <2>1. Answers(n) \subseteq Answer
    BY <1>2, AnswersType DEF Inv
  <2>2. \A a \in Answers(n) : a.kind # "mixed"
    BY DEF Answers, NothingYet, Thrown
  <2> QED BY <2>1, <2>2
<1>6. CASE SetOptions(i)
  <2> DEFINE w == [workers[i] EXCEPT !.at = "set"]
  <2>1. w \in Worker /\ w.at = "set" /\ w.answer = workers[i].answer /\ w.model = n
        /\ w.spilled = workers[i].spilled
    BY <1>2 DEF Worker
  <2>2. workers' = [workers EXCEPT ![i] = w] /\ UNCHANGED <<pc, names, cursor>>
        /\ target' = [m \in Instances |-> IF m = n THEN i ELSE target[m]]
    BY <1>6 DEF SetOptions, Handle
  <2> HIDE DEF w
  <2>3. /\ workers' \in Seq(Worker) /\ DOMAIN workers' = DOMAIN workers
        /\ \A j \in DOMAIN workers : workers'[j] = IF j = i THEN w ELSE workers[j]
    BY <1>2, <2>1, <2>2
  <2>4. \A j \in DOMAIN workers : j # i => workers[j].model # n /\ workers[j].model \in Instances
    BY <1>1, <1>2 DEF Injective, Worker
  <2>5. \A j \in DOMAIN workers' : Own(j)'
    BY <1>1, <1>2, <2>1, <2>2, <2>3, <2>4 DEF Own
  <2> QED BY <1>3, <2>1, <2>2, <2>3, <2>5
<1>7. CASE Reply(i)
  <2>1. PICK a \in Answers(n) : workers' = Finished(i, a)
    BY <1>7 DEF Reply
  <2> QED BY <1>4, <1>5, <1>7, <2>1 DEF Reply
<1>8. CASE Perform(i)
  <2>1. target[n] = i /\ ~workers[i].spilled
    BY <1>1, <1>8 DEF Perform, Own
  <2>2. {j \in OnHandle(n) \ {i} : workers[j].at = "set"} = {}
    BY <1>1 DEF OnHandle, Handle, Injective
  <2>3. PICK a \in Answers(n) : workers' = Finished(i, a)
    BY <1>8, <2>1, <2>2 DEF Perform
  <2> QED BY <1>4, <1>5, <1>8, <2>3 DEF Perform
<1> QED BY <1>6, <1>7, <1>8 DEF Work

LEMMA NextKeepsApart ==
  ASSUME Inv, Apart, [Next]_vars
  PROVE  Apart'
<1>1. ASSUME NEW q, Start(q) PROVE Apart'
  BY <1>1 DEF Start, Apart, Injective, Behind
<1>2. ASSUME NEW i \in DOMAIN workers, Work(i) PROVE Apart'
  BY <1>2, WorkKeepsApart
<1>3. CASE Gather \/ Judge \/ Record \/ Between \/ UNCHANGED vars
  <2>1. CASE Restart
    BY <2>1 DEF Restart, Apart, Injective, Behind
  <2>2. CASE UNCHANGED <<workers, target, names, catalog>>
    <3>1. pc' = "launch" => UNCHANGED <<pc, cursor, workers>>
      BY <1>3, ThreadsStay
    <3> QED BY <2>2, <3>1 DEF Apart, Distinct, Own, Injective, Behind
  <2> QED BY <1>3, <2>1, <2>2, ThreadsStay
<1> QED BY <1>1, <1>2, <1>3, NextCases, LaunchKeepsApart

(* Candidates that are listed once give the answers of their own exchange. *)
THEOREM AnswersStayApart == Spec => []AnswersUnmixed
<1>1. Init => Apart
  BY DEF Init, Apart, Injective, Behind
<1>2. Inv /\ Apart /\ [Next]_vars => Apart'
  BY NextKeepsApart
<1>3. Apart => AnswersUnmixed
  BY DEF Apart, Distinct, Own, AnswersUnmixed
<1> QED BY <1>1, <1>2, <1>3, Invariance, PTL DEF Spec

-----------------------------------------------------------------------------
(* Every answer is judged by the policy of the model that gave it.         *)

Candidates == \A i \in DOMAIN workers : workers[i].answer.by = workers[i].model

(* When all the models load, the places of threads and names agree.        *)
Matched ==
  AllLoad(names) =>
    /\ pc = "launch" => Len(workers) = cursor
    /\ \A i \in DOMAIN workers : workers[i].model = names[i]

Labelled == pc = "fallback" /\ AllLoad(names) => result.answer.by = result.label

Fine(n, c, o) == c >= Threshold(n, o) \/ Fallback(n, o) \in {NoInstance, n}

AllFine(list, o, r) ==
  AllLoad(list) /\ ~r.fallback => Fine(r.answer.by, r.answer.confidence, o)

Judged ==
  pc \in {"persist", "audit", "trace", "done"} /\ event \notin Streams => AllFine(names, options, result)

Delivered ==
  \A o \in outcomes :
    o.result # <<>> /\ o.event \notin Streams => AllFine(o.names, o.options, o.result)

Policy == Candidates /\ Matched /\ Labelled /\ Judged /\ Delivered

LEMMA AnswersBy ==
  ASSUME NEW n
  PROVE  \A a \in Answers(n) \cup Mixed(n) : a.by = n
BY DEF Answers, Mixed, NothingYet, Thrown

LEMMA ThresholdType ==
  ASSUME Inv, NEW n \in Instances, NEW o \in Option, o.threshold # Malformed
  PROVE  Threshold(n, o) \in Levels
<1>1. o.threshold \in Levels \cup {Unset, Malformed} /\ catalog[n].threshold \in Levels
  BY DEF Option, Inv, TypeOK, Instance
<1>2. gucs.threshold \in Levels
  <2>1. workload \in Workload
    BY RoutingAssumption DEF Inv, TypeOK
  <2> QED BY <2>1 DEF gucs, Workload, Setting
<1> QED BY <1>1, <1>2 DEF Threshold

(* A restart takes instances out of the cache and changes no policy.       *)
LEMMA RestartKeepsPolicies ==
  ASSUME Inv, Restart
  PROVE  /\ \A list \in Seq(Instances) : AllLoad(list)' => AllLoad(list)
         /\ \A n \in Instances, o \in Option :
              Threshold(n, o)' = Threshold(n, o) /\ Fallback(n, o)' = Fallback(n, o)
<1>1. catalog \in [Instances -> Instance] /\ workload' = workload
      /\ catalog' = [n \in Instances |-> [catalog[n] EXCEPT !.loads = @ /\ catalog[n].row]]
  BY DEF Inv, TypeOK, Restart
<1>2. ASSUME NEW n \in Instances
      PROVE  /\ catalog'[n].loads => catalog[n].loads
             /\ catalog'[n].threshold = catalog[n].threshold
             /\ catalog'[n].fallback = catalog[n].fallback
  <2>1. catalog[n] \in Instance /\ catalog'[n] = [catalog[n] EXCEPT !.loads = @ /\ catalog[n].row]
    BY <1>1
  <2>2. /\ catalog'[n].loads = (catalog[n].loads /\ catalog[n].row)
        /\ catalog'[n].threshold = catalog[n].threshold
        /\ catalog'[n].fallback = catalog[n].fallback
    BY <2>1, Zenon DEF Instance
  <2> QED BY <2>2
<1>3. \A list \in Seq(Instances) : \A i \in DOMAIN list : list[i] \in Instances
  OBVIOUS
<1>4. \A list \in Seq(Instances) : AllLoad(list)' => AllLoad(list)
  BY <1>2, <1>3 DEF AllLoad
<1> QED BY <1>1, <1>2, <1>4 DEF Threshold, Fallback, gucs

(* So what was delivered stays fine.                                       *)
LEMMA RestartKeepsFine ==
  ASSUME Inv, Restart, NEW list \in Seq(Instances), NEW o \in Option, NEW r \in Result,
         AllFine(list, o, r)
  PROVE  AllFine(list, o, r)'
<1>1. r.answer.by \in Instances
  BY DEF Result, Answer
<1>2. AllLoad(list)' => AllLoad(list)
  BY RestartKeepsPolicies
<1>3. Threshold(r.answer.by, o)' = Threshold(r.answer.by, o)
      /\ Fallback(r.answer.by, o)' = Fallback(r.answer.by, o)
  BY <1>1, RestartKeepsPolicies
<1> QED BY <1>2, <1>3 DEF AllFine, Fine

LEMMA RestartKeepsPolicy ==
  ASSUME Inv, Policy, Restart
  PROVE  Policy'
<1>1. workers' = <<>> /\ pc' = "idle"
  BY DEF Restart, GoTo
<1>2. Candidates' /\ Matched' /\ Labelled' /\ Judged'
  BY <1>1 DEF Candidates, Matched, Labelled, Judged
<1>3. Delivered'
  <2> SUFFICES ASSUME NEW o \in outcomes', o.result # <<>>, o.event \notin Streams
               PROVE  AllFine(o.names, o.options, o.result)'
    BY DEF Delivered
  <2>1. o \in outcomes
    BY DEF Restart, Outcome
  <2>2. o.names \in Seq(Instances) /\ o.options \in Option /\ o.result \in Result
    BY <2>1 DEF Inv, TypeOK
  <2>3. AllFine(o.names, o.options, o.result)
    BY <2>1 DEF Policy, Delivered
  <2> QED BY <2>2, <2>3, RestartKeepsFine
<1> QED BY <1>2, <1>3 DEF Policy

(* Steps that do not touch the policies keep what was delivered.           *)
LEMMA SetupKeepsDelivered ==
  ASSUME Delivered, UNCHANGED setup,
         outcomes' = outcomes \/ outcomes' = outcomes \cup {Outcome(<<>>)}
  PROVE  Delivered'
BY DEF Delivered, Outcome, AllFine, AllLoad, Fine, Threshold, Fallback, gucs

LEMMA LaunchKeepsPolicy ==
  ASSUME Inv, Policy, Launch
  PROVE  Policy'
<1> DEFINE n == names[cursor + 1]
<1>1. pc = "launch" /\ cursor \in Nat /\ cursor < Len(names) /\ UNCHANGED <<setup, names>>
      /\ names \in Seq(Instances) /\ workers \in Seq(Worker) /\ pc' # "fallback"
      /\ pc' \notin {"persist", "audit", "trace", "done"}
  BY DEF Launch, Error, GoTo, Inv, TypeOK
<1>2. Delivered'
  BY SetupKeepsDelivered DEF Policy, Launch, Error
<1>3. Candidates' /\ Matched'
  <2>1. CASE workers' = Append(workers, NewWorker(n)) /\ cursor' = cursor + 1 /\ pc' = pc
    <3>1. /\ DOMAIN workers' = 1..(Len(workers) + 1) /\ DOMAIN workers = 1..Len(workers)
          /\ Len(workers) \in Nat /\ Len(workers') = Len(workers) + 1
          /\ \A i \in DOMAIN workers : workers'[i] = workers[i]
          /\ workers'[Len(workers) + 1] = NewWorker(n)
      BY <1>1, <2>1
    <3>2. NewWorker(n).model = n /\ NewWorker(n).answer.by = n
      BY DEF NewWorker, NothingYet
    <3> HIDE DEF n
    <3>3. Candidates'
      BY <3>1, <3>2 DEF Policy, Candidates
    <3>4. Matched'
      <4> SUFFICES ASSUME AllLoad(names)
                   PROVE  Len(workers') = cursor' /\ \A i \in DOMAIN workers' : workers'[i].model = names[i]
        BY <1>1 DEF Matched, AllLoad
      <4>1. Len(workers) = cursor /\ \A i \in DOMAIN workers : workers[i].model = names[i]
        BY <1>1 DEF Policy, Matched
      <4>2. workers'[cursor + 1].model = names[cursor + 1]
        BY <3>1, <3>2, <4>1 DEF n
      <4> QED BY <2>1, <3>1, <4>1, <4>2
    <3> QED BY <3>3, <3>4
  <2>2. CASE ~catalog[n].loads /\ UNCHANGED workers
    <3>1. ~AllLoad(names)
      BY <1>1, <2>2 DEF AllLoad
    <3> QED BY <1>1, <2>2, <3>1 DEF Policy, Candidates, Matched, AllLoad
  <2>3. CASE Error
    BY <1>1, <2>3 DEF Error, GoTo, Policy, Candidates, Matched, AllLoad
  <2> QED BY <2>1, <2>2, <2>3 DEF Launch
<1> QED BY <1>1, <1>2, <1>3 DEF Policy, Labelled, Judged

LEMMA WorkKeepsPolicy ==
  ASSUME Inv, Policy, NEW i \in DOMAIN workers, Work(i)
  PROVE  Policy'
<1> DEFINE n == workers[i].model
<1>1. UNCHANGED <<setup, pc, request, cursor, result, outcomes>>
  BY DEF Work, SetOptions, Perform, Reply
<1>2. Labelled' /\ Judged' /\ Delivered'
  BY <1>1 DEF Policy, Labelled, Judged, Delivered, AllFine, AllLoad, Fine, Threshold, Fallback, gucs
<1>3. workers \in Seq(Worker) /\ \A j \in DOMAIN workers : workers[j] \in Worker
  <2>1. workers \in Seq(Worker)
    BY DEF Inv, TypeOK
  <2> QED BY <2>1
<1>4. ASSUME NEW a, a.by = n, NEW w, w = Finished(i, a)
      PROVE  /\ DOMAIN w = DOMAIN workers /\ Len(w) = Len(workers)
             /\ \A j \in DOMAIN workers :
                  w[j].model = workers[j].model
                  /\ w[j].answer.by = IF j = i THEN n ELSE workers[j].answer.by
  <2> DEFINE x == [workers[i] EXCEPT !.at = "done", !.answer = a]
  <2>1. x.answer = a /\ x.model = n
    BY <1>3 DEF Worker
  <2>2. w = [workers EXCEPT ![i] = x]
    BY <1>4 DEF Finished
  <2> HIDE DEF x
  <2>3. DOMAIN w = DOMAIN workers /\ \A j \in DOMAIN workers : w[j] = IF j = i THEN x ELSE workers[j]
    BY <1>3, <2>2
  <2>4. Len(w) = Len(workers)
    BY <1>3, <2>2
  <2> QED BY <1>4, <2>1, <2>3, <2>4
<1>5. /\ DOMAIN workers' = DOMAIN workers /\ Len(workers') = Len(workers)
      /\ \A j \in DOMAIN workers :
           workers'[j].model = workers[j].model /\ workers'[j].answer.by = workers[j].model
  <2>0. \A j \in DOMAIN workers : workers[j].answer.by = workers[j].model
    BY DEF Policy, Candidates
  <2>1. CASE \E a : a.by = n /\ workers' = Finished(i, a)
    BY <1>4, <2>0, <2>1
  <2>2. CASE SetOptions(i)
    <3> DEFINE x == [workers[i] EXCEPT !.at = "set"]
    <3>1. x.answer = workers[i].answer /\ x.model = n
      BY <1>3 DEF Worker
    <3>2. workers' = [workers EXCEPT ![i] = x]
      BY <2>2 DEF SetOptions
    <3> HIDE DEF x
    <3> QED BY <1>3, <2>0, <3>1, <3>2
  <2>3. CASE Reply(i)
    BY <2>1, <2>3, AnswersBy DEF Reply
  <2>4. CASE Perform(i)
    <3> DEFINE empty == [by |-> n, confidence |-> RawLevel, kind |-> "raw"]
               t == target[n]
    <3>1. CASE \E a \in Answers(n) \cup Mixed(n) \cup {NothingYet(n)} : workers' = Finished(i, a)
      <4>1. NothingYet(n).by = n
        BY DEF NothingYet
      <4> QED BY <2>1, <3>1, <4>1, AnswersBy
    <3>2. CASE workers' = [Finished(i, empty) EXCEPT ![t].spilled = TRUE]
      <4> DEFINE w == Finished(i, empty)
      <4>1. DOMAIN w = DOMAIN workers /\ Len(w) = Len(workers)
            /\ \A j \in DOMAIN workers :
                 w[j].model = workers[j].model
                 /\ w[j].answer.by = IF j = i THEN n ELSE workers[j].answer.by
        BY <1>4
      <4>2. w \in Seq(Worker)
        <5>1. empty \in Answer
          BY <1>3, RoutingAssumption DEF Answer, Worker
        <5> QED BY <1>3, <5>1, FinishedType
      <4>3. workers' = [w EXCEPT ![t].spilled = TRUE]
        BY <3>2
      <4> HIDE DEF w, t
      <4>4. \A j \in DOMAIN w : w[j] \in Worker
        BY <4>2
      <4>5. DOMAIN workers' = DOMAIN w /\ Len(workers') = Len(w)
        BY <4>2, <4>3
      <4>6. \A j \in DOMAIN w : workers'[j] = IF j = t THEN [w[j] EXCEPT !.spilled = TRUE] ELSE w[j]
        BY <4>2, <4>3
      <4>7. \A j \in DOMAIN w : workers'[j].model = w[j].model /\ workers'[j].answer = w[j].answer
        BY <4>4, <4>6 DEF Worker
      <4> QED BY <2>0, <4>1, <4>5, <4>7
    <3> QED BY <2>4, <3>1, <3>2 DEF Perform
  <2> QED BY <2>2, <2>3, <2>4 DEF Work
<1>6. Candidates' /\ Matched'
  BY <1>1, <1>5 DEF Policy, Candidates, Matched, AllLoad
<1> QED BY <1>2, <1>6 DEF Policy

LEMMA GatherKeepsPolicy ==
  ASSUME Inv, Policy, Gather
  PROVE  Policy'
<1>1. CASE Restart
  BY <1>1, RestartKeepsPolicy
<1>2. CASE ~Restart /\ ~Select
  <2>1. UNCHANGED <<setup, names, workers>> /\ pc' \in {"wait", "select", "idle"}
        /\ (outcomes' = outcomes \/ outcomes' = outcomes \cup {Outcome(<<>>)})
    BY <1>2 DEF Gather, Launched, Collect, CollectThrows, Collected, Compare, Error, GoTo
  <2>2. Delivered'
    BY <2>1, SetupKeepsDelivered DEF Policy
  <2> QED BY <2>1, <2>2 DEF Policy, Candidates, Matched, AllLoad, Labelled, Judged
<1>3. CASE Select
  <2>1. pc = "select" /\ best \in 1..Len(responses) /\ Len(responses) = Len(workers)
        /\ result' = [answer |-> responses[best], label |-> names[best], fallback |-> FALSE]
        /\ pc' = AfterSelection
        /\ UNCHANGED <<setup, event, names, workers, outcomes>>
    BY <1>3 DEF Select, GoTo, Inv, Scanned
  <2>2. best \in DOMAIN workers /\ responses[best] = workers[best].answer
    BY <2>1 DEF Inv, TypeOK, InOrder
  <2>3. AllLoad(names) => responses[best].by = names[best]
    BY <2>2 DEF Policy, Candidates, Matched
  <2>4. Delivered'
    BY <2>1, SetupKeepsDelivered DEF Policy
  <2>5. Candidates' /\ Matched'
    BY <2>1 DEF Policy, Candidates, Matched, AllLoad, AfterSelection
  <2>6. Labelled'
    BY <2>1, <2>3 DEF Labelled, AllLoad
  <2>7. Judged'
    BY <2>1 DEF Judged, AfterSelection, Streams
  <2> QED BY <2>4, <2>5, <2>6, <2>7 DEF Policy
<1> QED BY <1>1, <1>2, <1>3

LEMMA JudgeKeepsPolicy ==
  ASSUME Inv, Policy, Judge
  PROVE  Policy'
<1>1. CASE Restart
  BY <1>1, RestartKeepsPolicy
<1>2. CASE FallbackFails
  <2>1. UNCHANGED <<setup, names, workers>> /\ pc' = "idle" /\ outcomes' = outcomes \cup {Outcome(<<>>)}
    BY <1>2 DEF FallbackFails, Error, GoTo
  <2> QED BY <2>1, SetupKeepsDelivered DEF Policy, Candidates, Matched, AllLoad, Labelled, Judged
<1>3. CASE KeepAnswer \/ AskFallback
  <2>1. pc = "fallback" /\ pc' \in {"persist", "audit"} /\ options.threshold # Malformed
        /\ UNCHANGED <<setup, request, workers, outcomes>>
    BY <1>3 DEF KeepAnswer, AskFallback, Judging, GoTo, AfterFallback
  <2>2. Candidates' /\ Matched' /\ Labelled'
    BY <2>1 DEF Policy, Candidates, Matched, AllLoad, Labelled
  <2>3. Delivered'
    BY <2>1, SetupKeepsDelivered DEF Policy
  <2>4. CASE KeepAnswer
    <3>1. result' = result /\ ~FallsBack(result.label, result.answer.confidence, options)
      BY <2>4 DEF KeepAnswer
    <3>2. result \in Result /\ options \in Option
      BY <2>1 DEF Inv, HasResult, TypeOK
    <3>3. Threshold(result.label, options) \in Nat /\ result.answer.confidence \in Nat
      BY <2>1, <3>2, ThresholdType, RoutingAssumption DEF Result, Answer, Levels
    <3>4. Fine(result.label, result.answer.confidence, options)
      BY <3>1, <3>3 DEF FallsBack, Fine
    <3>5. AllFine(names, options, result)
      BY <2>1, <3>4 DEF Policy, Labelled, AllFine
    <3>6. Judged'
      BY <2>1, <3>1, <3>5 DEF Judged, AllFine, AllLoad, Fine, Threshold, Fallback, gucs
    <3> QED BY <2>2, <2>3, <3>6 DEF Policy
  <2>5. CASE AskFallback
    <3>1. result'.fallback
      BY <2>5 DEF AskFallback
    <3> QED BY <2>2, <2>3, <3>1 DEF Policy, Judged, AllFine
  <2> QED BY <1>3, <2>4, <2>5
<1> QED BY <1>1, <1>2, <1>3 DEF Judge, FallbackThrows

LEMMA RecordKeepsPolicy ==
  ASSUME Inv, Policy, Record
  PROVE  Policy'
<1>1. pc \in {"persist", "audit", "trace", "done"} /\ pc' \in {"audit", "trace", "done", "idle"}
      /\ UNCHANGED <<setup, request, workers, result>>
  BY DEF Record, Persist, Audit, Trace, Return, GoTo
<1>2. Candidates' /\ Matched' /\ Labelled' /\ Judged'
  BY <1>1 DEF Policy, Candidates, Matched, AllLoad, Labelled, Judged, AllFine, Fine, Threshold,
              Fallback, gucs
<1>3. Delivered'
  <2>1. CASE outcomes' = outcomes
    BY <1>1, <2>1, SetupKeepsDelivered DEF Policy
  <2>2. CASE Return
    <3> DEFINE x == Outcome(result)
    <3>1. outcomes' = outcomes \cup {x}
      BY <2>2 DEF Return
    <3>2. x.names = names /\ x.options = options /\ x.result = result /\ x.event = event
      BY DEF Outcome
    <3>3. event \notin Streams => AllFine(names, options, result)
      BY <1>1 DEF Policy, Judged
    <3> HIDE DEF x
    <3>4. \A o \in outcomes' :
            o.result # <<>> /\ o.event \notin Streams => AllFine(o.names, o.options, o.result)
      BY <3>1, <3>2, <3>3 DEF Policy, Delivered
    <3> QED BY <1>1, <3>4 DEF Delivered, AllFine, AllLoad, Fine, Threshold, Fallback, gucs
  <2> QED BY <2>1, <2>2 DEF Record, Persist, Audit, Trace
<1> QED BY <1>2, <1>3 DEF Policy

LEMMA BetweenKeepsPolicy ==
  ASSUME Inv, Policy, Between \/ UNCHANGED vars
  PROVE  Policy'
<1>1. UNCHANGED <<setup, request, workers, cursor, result>> /\ (pc' = pc \/ pc' = "idle")
      /\ (outcomes' = outcomes \/ outcomes' = outcomes \cup {Outcome(<<>>)})
  BY DEF Between, PersistFails, WriteFails, Error, GoTo, OthersTurn, DropSession, Commit, Rollback
<1>2. Delivered'
  BY <1>1, SetupKeepsDelivered DEF Policy
<1> QED BY <1>1, <1>2 DEF Policy, Candidates, Matched, AllLoad, Labelled, Judged, AllFine, Fine,
                          Threshold, Fallback, gucs

LEMMA StartKeepsPolicy ==
  ASSUME Inv, Policy, NEW q, Start(q)
  PROVE  Policy'
<1>1. workers' = <<>> /\ cursor' = 0 /\ pc' = "launch" /\ UNCHANGED <<setup, outcomes>>
  BY DEF Start, GoTo
<1>2. Delivered'
  BY <1>1, SetupKeepsDelivered DEF Policy
<1> QED BY <1>1, <1>2 DEF Policy, Candidates, Matched, Labelled, Judged

(* Once all the models load, no answer below the threshold of its model is *)
(* delivered while there is another model to fall back to.                 *)
THEOREM LowAnswersAreReplaced == Spec => []LowAnswersFallBack
<1>1. Init => Policy
  BY DEF Init, Policy, Candidates, Matched, Labelled, Judged, Delivered
<1>2. Inv /\ Policy /\ [Next]_vars => Policy'
  BY NextCases, StartKeepsPolicy, LaunchKeepsPolicy, WorkKeepsPolicy, GatherKeepsPolicy,
     JudgeKeepsPolicy, RecordKeepsPolicy, BetweenKeepsPolicy
<1>3. Policy => LowAnswersFallBack
  BY DEF Policy, Delivered, AllFine, Fine, LowAnswersFallBack
<1> QED BY <1>1, <1>2, <1>3, Invariance, PTL DEF Spec
=============================================================================
