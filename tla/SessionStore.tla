---------------------------- MODULE SessionStore ----------------------------
(***************************************************************************)
(* The multi-turn sessions of pg_llm: the tables pg_llm_sessions and       *)
(* pg_llm_session_messages under the session functions of pg_llm.cpp, as   *)
(* several backends call them at once.                                     *)
(*                                                                         *)
(* One step is one SQL statement, or one row of a DELETE that may have to  *)
(* wait for a row lock.  The database is PostgreSQL at READ COMMITTED:     *)
(*  - a statement run with read_only = true reads the snapshot of the      *)
(*    user's statement, one run with read_only = false a fresh snapshot;   *)
(*  - a writer of a row waits for the row's uncommitted writer, then works *)
(*    on the newest committed version;                                     *)
(*  - inserting a message takes KEY SHARE on the session row, which only   *)
(*    the deletion of that row conflicts with.                             *)
(***************************************************************************)
EXTENDS MessageWindow

CONSTANTS
  Backends,       \* server processes, each with at most one open transaction
  Sessions,       \* session identifiers (fresh UUIDs, so none is reused)
  NoBackend,      \* "nobody holds this row lock"
  Caps,           \* values given for max_messages
  Timeouts,       \* values given for pg_llm_cleanup_sessions
  Ops,            \* the functions clients call in this instance
  MaxClock,       \* bound on the clock
  MaxCalls,       \* bound on the calls of a behaviour
  CallsPerTxn     \* bound on the calls of one transaction

AllOps == {"create", "chat", "set_max", "set_state", "delete", "cleanup"}

ASSUME SessionStoreAssumption ==
  /\ NoBackend \notin Backends
  /\ Sessions # {}
  /\ Caps \subseteq Int
  /\ Timeouts \subseteq Nat
  /\ Ops \subseteq AllOps
  /\ MaxClock \in Nat /\ MaxCalls \in Nat /\ CallsPerTxn \in Nat

VARIABLES
  sess,       \* committed version of each session row
  newv,       \* version written by the holder of the row lock
  lock,       \* transaction that updated or deleted the row, uncommitted
  share,      \* transactions holding KEY SHARE on the row
  msgs,       \* committed messages
  gone,       \* history: messages whose deletion committed
  offered,    \* history: every cap a session has been given, for good
  given,      \* history: the caps the holder of the row lock has given
  ins, del,   \* uncommitted inserts and deletes of each backend
  nextId,     \* the sequence behind the bigserial id
  clock,      \* current time
  start,      \* CURRENT_TIMESTAMP of each transaction
  calls,      \* calls made in each transaction
  pc,         \* next statement of each backend
  args,       \* what the call in progress works with
  todo,       \* message rows its DELETE has still to visit
  expired,    \* session rows cleanup has still to visit
  spent       \* calls made so far (bound)

rowVars == <<sess, newv, lock, share>>
msgVars == <<msgs, gone, ins, del, nextId>>
txnVars == <<clock, start, calls, spent>>
capVars == <<offered, given>>
vars == <<sess, newv, lock, share, msgs, gone, offered, given, ins, del, nextId,
          clock, start, calls, pc, args, todo, expired, spent>>

Row == [status : {"unborn", "live", "dead"}, cap : Caps \cup {0}, active : 0..MaxClock]
Message == [id : Nat, sid : Sessions, turn : Nat, role : {"user", "assistant"}]
Args == [op : AllOps \cup {"none"}, sid : Sessions, cap : Caps \cup {0},
         turn : Nat, cutoff : Int]

(* The statements a call can be at; "idle" is no transaction, "open" is    *)
(* between two calls of one.                                               *)
Statements == {"idle", "open", "insert", "trim", "trimming", "touch", "update",
               "wipe", "wiping", "drop", "expire", "cascade", "cascading"}

Unborn == [status |-> "unborn", cap |-> 0, active |-> 0]
NoArgs == [op |-> "none", sid |-> CHOOSE s \in Sessions : TRUE, cap |-> 0,
           turn |-> 0, cutoff |-> 0]

TypeOK ==
  /\ sess \in [Sessions -> Row]
  /\ newv \in [Sessions -> Row]
  /\ lock \in [Sessions -> Backends \cup {NoBackend}]
  /\ share \in [Sessions -> SUBSET Backends]
  /\ msgs \subseteq Message
  /\ gone \subseteq Message
  /\ offered \in [Sessions -> SUBSET (Caps \cup {0})]
  /\ given \in [Sessions -> SUBSET (Caps \cup {0})]
  /\ ins \in [Backends -> SUBSET Message]
  /\ del \in [Backends -> SUBSET Message]
  /\ nextId \in Nat
  /\ clock \in 0..MaxClock
  /\ start \in [Backends -> 0..MaxClock]
  /\ calls \in [Backends -> Nat]
  /\ pc \in [Backends -> Statements]
  /\ args \in [Backends -> Args]
  /\ todo \in [Backends -> SUBSET Message]
  /\ expired \in [Backends -> SUBSET Sessions]
  /\ spent \in Nat

Init ==
  /\ sess = [s \in Sessions |-> Unborn]
  /\ newv = [s \in Sessions |-> Unborn]
  /\ lock = [s \in Sessions |-> NoBackend]
  /\ share = [s \in Sessions |-> {}]
  /\ msgs = {}
  /\ gone = {}
  /\ offered = [s \in Sessions |-> {}]
  /\ given = [s \in Sessions |-> {}]
  /\ ins = [b \in Backends |-> {}]
  /\ del = [b \in Backends |-> {}]
  /\ nextId = 1
  /\ clock = 0
  /\ start = [b \in Backends |-> 0]
  /\ calls = [b \in Backends |-> 0]
  /\ pc = [b \in Backends |-> "idle"]
  /\ args = [b \in Backends |-> NoArgs]
  /\ todo = [b \in Backends |-> {}]
  /\ expired = [b \in Backends |-> {}]
  /\ spent = 0

-----------------------------------------------------------------------------
(* What a transaction sees.                                                *)

View(b, s) == IF lock[s] = b THEN newv[s] ELSE sess[s]

(* get_session_json_internal with strict = true.                           *)
Found(b, s) == View(b, s).status = "live"

Visible(b) == (msgs \cup ins[b]) \ del[b]
(* trim_session_messages: every visible message of the session except the  *)
(* newest n.                                                               *)
TrimmedBeforeInsert(b, s, n) ==
  LET H == History(msgs \ del[b], s) IN H \ Newest(H, n)
Trimmed(b, s, n) ==
  LET H == History(Visible(b), s) IN H \ Newest(H, n)

(* Another transaction has deleted the session row and not yet committed.  *)
BeingDropped(b, s) == lock[s] \notin {NoBackend, b} /\ newv[s].status = "dead"

(* Whom the next statement of b has to wait for: UPDATE waits for the      *)
(* writer of the row, DELETE of a session for its KEY SHARE holders too,   *)
(* the foreign-key check of INSERT for a deleter of the session, DELETE of *)
(* a message for whoever deleted it first.                                 *)
RowWriter(b, s) == {lock[s]} \ {NoBackend, b}
RowUsers(b, s) == RowWriter(b, s) \cup (share[s] \ {b})
TouchOfKey(b, s) == RowUsers(b, s)
TouchWaits(b, s) == RowWriter(b, s)     \* last_active_at is no key column
RowDeleter(b, s) == IF BeingDropped(b, s) THEN {lock[s]} ELSE {}
MessageDeleters(b, m) == {c \in Backends \ {b} : m \in del[c]}

-----------------------------------------------------------------------------
(* Transactions.                                                           *)

Working(b) == pc[b] \notin {"idle", "open"}

(* CURRENT_TIMESTAMP of the transaction a call runs in.                    *)
StartedBefore(b) == clock - 1
StartOf(b) == IF pc[b] = "idle" THEN clock ELSE start[b]

(* A call begins, opening a transaction if there is none.                  *)
Enter(b, op) ==
  /\ ~Working(b)
  /\ op \in Ops
  /\ spent < MaxCalls
  /\ calls[b] < CallsPerTxn
  /\ spent' = spent + 1
  /\ calls' = [calls EXCEPT ![b] = @ + 1]
  /\ start' = [start EXCEPT ![b] = StartOf(b)]
  /\ UNCHANGED clock

GoTo(b, statement) == pc' = [pc EXCEPT ![b] = statement]
EndTransaction(b) ==
  /\ GoTo(b, "idle")
  /\ lock' = [s \in Sessions |-> IF lock[s] = b THEN NoBackend ELSE lock[s]]
  /\ share' = [s \in Sessions |-> share[s] \ {b}]
  /\ given' = [s \in Sessions |-> IF lock[s] = b THEN {} ELSE given[s]]
  /\ ins' = [ins EXCEPT ![b] = {}]
  /\ del' = [del EXCEPT ![b] = {}]
  /\ calls' = [calls EXCEPT ![b] = 0]
  /\ start' = [start EXCEPT ![b] = 0]
  /\ args' = [args EXCEPT ![b] = NoArgs]
  /\ todo' = [todo EXCEPT ![b] = {}]
  /\ expired' = [expired EXCEPT ![b] = {}]
  /\ UNCHANGED <<nextId, clock, spent>>

Commit(b) ==
  /\ pc[b] = "open"
  /\ sess' = [s \in Sessions |-> View(b, s)]
  /\ msgs' = Visible(b)
  /\ gone' = gone \cup del[b]
  /\ offered' = [s \in Sessions |->
                   IF lock[s] = b THEN offered[s] \cup given[s] ELSE offered[s]]
  /\ EndTransaction(b)
  /\ UNCHANGED newv

Rollback(b) ==
  /\ newv' = [s \in Sessions |-> IF lock[s] = b THEN sess[s] ELSE newv[s]]
  /\ EndTransaction(b)
  /\ UNCHANGED <<sess, msgs, gone, offered>>

(* Any ERROR aborts the transaction: a failed statement, "Session not      *)
(* found", the model call, a cancel, or the client's own ROLLBACK.  A      *)
(* crash of the server is this for every backend.                          *)
Fail(b) == pc[b] # "idle" /\ Rollback(b)

-----------------------------------------------------------------------------
(* pg_llm_create_session                                                   *)

CreateSession(b, s, cap) ==
  /\ Enter(b, "create")
  /\ sess[s].status = "unborn" /\ lock[s] = NoBackend
  /\ newv' = [newv EXCEPT ![s] = [status |-> "live", cap |-> cap, active |-> StartOf(b)]]
  /\ lock' = [lock EXCEPT ![s] = b]
  /\ GoTo(b, "open")
  /\ given' = [given EXCEPT ![s] = {cap}]
  /\ UNCHANGED <<sess, share, msgVars, offered, args, todo, expired>>

-----------------------------------------------------------------------------
(* pg_llm_multi_turn_chat.  The session is read before the model is called *)
(* (load_session_messages) and again by append_session_message, each time  *)
(* from the snapshot of the user's statement: the cap of the whole call is *)
(* the one seen here.                                                      *)

StartChat(b, s) ==
  /\ Enter(b, "chat")
  /\ Found(b, s)
  /\ args' = [args EXCEPT ![b] = [NoArgs EXCEPT !.op = "chat", !.sid = s,
                                                !.cap = View(b, s).cap]]
  /\ GoTo(b, "insert")
  /\ UNCHANGED <<rowVars, msgVars, capVars, todo, expired>>

(* session_id REFERENCES pg_llm_sessions: the row must be there, and is     *)
(* locked FOR KEY SHARE.                                                   *)
NoForeignKey(b, s) == UNCHANGED share
ReferenceSession(b, s) ==
  /\ RowDeleter(b, s) = {}
  /\ Found(b, s)
  /\ share' = [share EXCEPT ![s] = @ \cup {b}]

(* Both messages of a turn at once, before it has the session's row.       *)
InsertTurn(b) ==
  LET s == args[b].sid IN
  /\ pc[b] = "insert"
  /\ ReferenceSession(b, s)
  /\ nextId' = nextId + 2
  /\ ins' = [ins EXCEPT ![b] = @ \cup
               {[id |-> nextId, sid |-> s, turn |-> nextId, role |-> "user"],
                [id |-> nextId + 1, sid |-> s, turn |-> nextId, role |-> "assistant"]}]
  /\ args' = [args EXCEPT ![b].turn = nextId]
  /\ GoTo(b, "trim")
  /\ UNCHANGED <<sess, newv, lock, msgs, gone, del, txnVars, capVars, todo, expired>>

(* INSERT of the user's message, or of the answer once the turn has one.   *)
InsertMessage(b) ==
  LET s == args[b].sid
      asking == args[b].turn = 0
      turn == IF asking THEN nextId ELSE args[b].turn
  IN
  /\ pc[b] = "insert"
  /\ ReferenceSession(b, s)
  /\ nextId' = nextId + 1
  /\ ins' = [ins EXCEPT ![b] = @ \cup
               {[id |-> nextId, sid |-> s, turn |-> turn,
                 role |-> IF asking THEN "user" ELSE "assistant"]}]
  /\ args' = [args EXCEPT ![b].turn = turn]
  /\ GoTo(b, "trim")
  /\ UNCHANGED <<sess, newv, lock, msgs, gone, del, txnVars, capVars, todo, expired>>

(* The session went away while the model was answering: the foreign key    *)
(* rejects the message.                                                    *)
SessionVanished(b) ==
  /\ pc[b] = "insert"
  /\ RowDeleter(b, args[b].sid) = {}
  /\ ~Found(b, args[b].sid)
  /\ Rollback(b)

-----------------------------------------------------------------------------
(* DELETE on pg_llm_session_messages: a fresh snapshot chooses the rows,   *)
(* which are then locked one at a time.                                    *)

(* Where a call goes when its last row is deleted.                         *)
After(b, phase) ==
  CASE phase = "trimming" /\ args[b].op = "chat" -> "touch"
    [] phase = "wiping" -> "drop"
    [] OTHER -> "open"

Return(b, statement) ==
  /\ GoTo(b, statement)
  /\ args' = IF statement = "open" THEN [args EXCEPT ![b] = NoArgs] ELSE args

BeginDelete(b, phase, rows) ==
  /\ todo' = [todo EXCEPT ![b] = rows]
  /\ Return(b, IF rows = {} THEN After(b, phase) ELSE phase)
  /\ UNCHANGED <<rowVars, msgVars, txnVars, capVars, expired>>

(* DELETE ... ORDER BY id DESC OFFSET max_messages.                        *)
BeginTrim(b) ==
  /\ pc[b] = "trim"
  /\ args[b].cap >= 0
  /\ BeginDelete(b, "trimming", Trimmed(b, args[b].sid, args[b].cap))

TrimRetried(b) == pc[b] = "trim" /\ args[b].cap < 0 /\ UNCHANGED vars
(* "OFFSET must not be negative": the cap is not checked when it is set.   *)
NegativeCap(b) ==
  /\ pc[b] = "trim"
  /\ args[b].cap < 0
  /\ Rollback(b)

(* DELETE FROM pg_llm_session_messages WHERE session_id = $1.              *)
BeginWipe(b) ==
  /\ pc[b] = "wipe"
  /\ BeginDelete(b, "wiping", History(Visible(b), args[b].sid))

NoCascade(b) == pc[b] = "cascade" /\ BeginDelete(b, "cascading", {})
(* ON DELETE CASCADE of the session rows this transaction has deleted.     *)
BeginCascade(b) ==
  /\ pc[b] = "cascade"
  /\ BeginDelete(b, "cascading",
       {m \in Visible(b) : lock[m.sid] = b /\ newv[m.sid].status = "dead"})

(* One row: gone already if another transaction's delete has committed.    *)
DeleteMessage(b, m) ==
  LET rest == todo[b] \ {m} IN
  /\ pc[b] \in {"trimming", "wiping", "cascading"}
  /\ m \in todo[b]
  /\ MessageDeleters(b, m) = {}
  /\ del' = IF m \in Visible(b) THEN [del EXCEPT ![b] = @ \cup {m}] ELSE del
  /\ todo' = [todo EXCEPT ![b] = rest]
  /\ Return(b, IF rest = {} THEN After(b, pc[b]) ELSE pc[b])
  /\ UNCHANGED <<rowVars, msgs, gone, ins, nextId, txnVars, capVars, expired>>

-----------------------------------------------------------------------------
(* Writes to the session row.                                              *)

(* UPDATE ... WHERE session_id = $1: no row, no effect, and no error.      *)
UpdateRow(b, s, new) ==
  IF Found(b, s)
  THEN /\ newv' = [newv EXCEPT ![s] = new]
       /\ lock' = [lock EXCEPT ![s] = b]
  ELSE UNCHANGED <<newv, lock>>

(* The answer of the turn in progress has been appended.                   *)
AlwaysAnswered(b) == TRUE
Answered(b) == \E m \in ins[b] : m.turn = args[b].turn /\ m.role = "assistant"

(* The UPDATE of last_active_at that ends append_session_message; the      *)
(* question is followed by the answer, the answer by the end of the call.  *)
TouchSession(b) ==
  LET s == args[b].sid IN
  /\ pc[b] = "touch"
  /\ TouchWaits(b, s) = {}
  /\ UpdateRow(b, s, [View(b, s) EXCEPT !.active = start[b]])
  /\ Return(b, IF Answered(b) THEN "open" ELSE "insert")
  /\ UNCHANGED <<sess, share, msgVars, txnVars, capVars, todo, expired>>

(* pg_llm_set_max_messages: UPDATE, then trim to the new cap.              *)
StartSetMax(b, s, cap) ==
  /\ Enter(b, "set_max")
  /\ Found(b, s)
  /\ args' = [args EXCEPT ![b] = [NoArgs EXCEPT !.op = "set_max", !.sid = s, !.cap = cap]]
  /\ GoTo(b, "update")
  /\ UNCHANGED <<rowVars, msgVars, capVars, todo, expired>>

SetMaxMessages(b) ==
  LET s == args[b].sid IN
  /\ pc[b] = "update" /\ args[b].op = "set_max"
  /\ RowWriter(b, s) = {}
  /\ UpdateRow(b, s, [View(b, s) EXCEPT !.cap = args[b].cap])
  /\ given' = IF Found(b, s) THEN [given EXCEPT ![s] = @ \cup {args[b].cap}] ELSE given
  /\ GoTo(b, "trim")
  /\ UNCHANGED <<sess, share, msgVars, txnVars, offered, args, todo, expired>>

(* pg_llm_update_session_state                                             *)
StartSetState(b, s) ==
  /\ Enter(b, "set_state")
  /\ Found(b, s)
  /\ args' = [args EXCEPT ![b] = [NoArgs EXCEPT !.op = "set_state", !.sid = s]]
  /\ GoTo(b, "update")
  /\ UNCHANGED <<rowVars, msgVars, capVars, todo, expired>>

SetState(b) ==
  LET s == args[b].sid IN
  /\ pc[b] = "update" /\ args[b].op = "set_state"
  /\ RowWriter(b, s) = {}
  /\ UpdateRow(b, s, [View(b, s) EXCEPT !.active = start[b]])
  /\ Return(b, "open")
  /\ UNCHANGED <<sess, share, msgVars, txnVars, capVars, todo, expired>>

(* pg_llm_delete_session: the messages first, then the row.  No session is *)
(* looked up beforehand.                                                   *)
StartDelete(b, s) ==
  /\ Enter(b, "delete")
  /\ View(b, s).status # "unborn"
  /\ args' = [args EXCEPT ![b] = [NoArgs EXCEPT !.op = "delete", !.sid = s]]
  /\ GoTo(b, "wipe")
  /\ UNCHANGED <<rowVars, msgVars, capVars, todo, expired>>

DropSession(b) ==
  LET s == args[b].sid IN
  /\ pc[b] = "drop"
  /\ RowUsers(b, s) = {}
  /\ UpdateRow(b, s, [View(b, s) EXCEPT !.status = "dead"])
  /\ GoTo(b, "cascade")
  /\ UNCHANGED <<sess, share, msgVars, txnVars, capVars, args, todo, expired>>

(* pg_llm_cleanup_sessions: DELETE of every session idle for longer than   *)
(* the timeout.  A row that changed while the DELETE waited for it is      *)
(* checked again on its newest version.                                    *)
Idle(b, s, cutoff) == Found(b, s) /\ View(b, s).active < cutoff

StartCleanup(b, timeout) ==
  LET cutoff == StartOf(b) - timeout
      idle == {s \in Sessions : Idle(b, s, cutoff)}
  IN
  /\ Enter(b, "cleanup")
  /\ idle # {}
  /\ args' = [args EXCEPT ![b] = [NoArgs EXCEPT !.op = "cleanup", !.cutoff = cutoff]]
  /\ expired' = [expired EXCEPT ![b] = idle]
  /\ GoTo(b, "expire")
  /\ UNCHANGED <<rowVars, msgVars, capVars, todo>>

(* As if the idle sessions had been selected first and deleted by id.      *)
NoRecheck(b, s) == Found(b, s)
StillIdle(b, s) == Idle(b, s, args[b].cutoff)

ExpireSession(b, s) ==
  LET rest == expired[b] \ {s} IN
  /\ pc[b] = "expire"
  /\ s \in expired[b]
  /\ RowUsers(b, s) = {}
  /\ expired' = [expired EXCEPT ![b] = rest]
  /\ IF StillIdle(b, s) THEN UpdateRow(b, s, [View(b, s) EXCEPT !.status = "dead"])
                        ELSE UNCHANGED <<newv, lock>>
  /\ GoTo(b, IF rest = {} THEN "cascade" ELSE "expire")
  /\ UNCHANGED <<sess, share, msgVars, txnVars, capVars, args, todo>>

-----------------------------------------------------------------------------
(* Lock waits.                                                             *)

Blockers(b) ==
  CASE pc[b] = "insert" -> RowDeleter(b, args[b].sid)
    [] pc[b] = "touch" -> TouchWaits(b, args[b].sid)
    [] pc[b] = "update" -> RowWriter(b, args[b].sid)
    [] pc[b] = "drop" -> RowUsers(b, args[b].sid)
    [] pc[b] = "expire" ->
         IF \E s \in expired[b] : RowUsers(b, s) = {} THEN {}
         ELSE UNION {RowUsers(b, s) : s \in expired[b]}
    [] pc[b] \in {"trimming", "wiping", "cascading"} ->
         IF \E m \in todo[b] : MessageDeleters(b, m) = {} THEN {}
         ELSE UNION {MessageDeleters(b, m) : m \in todo[b]}
    [] OTHER -> {}

(* Every member waits for a member, and a member waits for it.             *)
WaitCycle(C) ==
  /\ C # {}
  /\ \A b \in C : /\ \E c \in C : c \in Blockers(b)
                  /\ \E c \in C : b \in Blockers(c)

(* After deadlock_timeout PostgreSQL aborts one of the cycle.              *)
DeadlockAbort(b) ==
  /\ \E C \in SUBSET Backends : b \in C /\ WaitCycle(C)
  /\ Rollback(b)

Tick ==
  /\ clock < MaxClock
  /\ clock' = clock + 1
  /\ UNCHANGED <<rowVars, msgVars, start, calls, spent, capVars, pc, args, todo, expired>>

-----------------------------------------------------------------------------
Call(b) ==
  \/ \E s \in Sessions, cap \in Caps : CreateSession(b, s, cap) \/ StartSetMax(b, s, cap)
  \/ \E s \in Sessions : StartChat(b, s) \/ StartSetState(b, s) \/ StartDelete(b, s)
  \/ \E t \in Timeouts : StartCleanup(b, t)

Statement(b) ==
  \/ InsertMessage(b)
  \/ SessionVanished(b)
  \/ BeginTrim(b)
  \/ NegativeCap(b)
  \/ BeginWipe(b)
  \/ BeginCascade(b)
  \/ \E m \in todo[b] : DeleteMessage(b, m)
  \/ TouchSession(b)
  \/ SetMaxMessages(b)
  \/ SetState(b)
  \/ DropSession(b)
  \/ \E s \in expired[b] : ExpireSession(b, s)

Next ==
  \/ Tick
  \/ \E b \in Backends : \/ Call(b)
                         \/ Statement(b)
                         \/ Commit(b)
                         \/ Fail(b)
                         \/ DeadlockAbort(b)

Spec == Init /\ [][Next]_vars

(* A backend goes on with its statements, the client ends its transaction, *)
(* and a deadlock is noticed.  Calls, failures and time are not owed.      *)
Fairness == \A b \in Backends : /\ WF_vars(Statement(b))
                                /\ WF_vars(Commit(b))
                                /\ WF_vars(DeadlockAbort(b))

FairSpec == Spec /\ Fairness

-----------------------------------------------------------------------------
(* What the sessions owe their callers.                                    *)

(* No committed message is left behind by its session: a chat that was     *)
(* waiting for its model when the session was deleted or cleaned up either *)
(* commits before the session row goes, and then loses its messages to the *)
(* cascade, or fails on the foreign key.                                   *)
NoOrphans == \A m \in msgs : sess[m.sid].status = "live"

(* Why no message is orphaned, as facts about locks.  An unlocked row has  *)
(* no second version, and a locked one is not unborn.                      *)
RowVersions ==
  \A s \in Sessions : IF lock[s] = NoBackend THEN newv[s] = sess[s]
                                             ELSE newv[s].status # "unborn"
(* A message being inserted holds KEY SHARE on its session.                *)
InsertsReference == \A b \in Backends : \A m \in ins[b] : b \in share[m.sid]

(* The holder of KEY SHARE sees a live row, or has written the row itself. *)
ReferencesHold ==
  \A s \in Sessions : \A b \in share[s] : lock[s] = b \/ sess[s].status = "live"

(* Nobody else holds KEY SHARE on a row being deleted, and what the deleter *)
(* still sees of its history is what the cascade has still to visit.       *)
DropsAreComplete ==
  \A s \in Sessions, b \in Backends :
    lock[s] = b /\ newv[s].status = "dead" =>
      /\ share[s] \subseteq {b}
      /\ \/ pc[b] \in {"cascade", "expire"}
         \/ pc[b] = "cascading" /\ History(Visible(b), s) \subseteq todo[b]
         \/ pc[b] # "cascading" /\ History(Visible(b), s) = {}

(* Together they outlast every interleaving of inserts, deletes, cascades, *)
(* commits and rollbacks.                                                  *)
LockDiscipline == RowVersions /\ InsertsReference /\ ReferencesHold /\ DropsAreComplete

(* The session has had one cap: nobody has offered another.                *)
OneCap(s) == Cardinality(offered[s]) = 1

(* However many chats run on a session at once, what is committed never    *)
(* exceeds max_messages: the UPDATE that ends the first append makes the   *)
(* second append's trim see every other turn.  Once                        *)
(* pg_llm_set_max_messages has changed the cap, HistoryWithinOfferedCap.   *)
HistoryWithinCap ==
  \A s \in Sessions : OneCap(s) =>
    Cardinality(History(msgs, s)) <= Window(sess[s].cap)

(* With pg_llm_set_max_messages a chat trims to the cap it read before its *)
(* model call, which may be an older one, but never to more than some cap  *)
(* the session was given.                                                  *)
HistoryWithinOfferedCap ==
  \A s \in Sessions :
    \/ History(msgs, s) = {}
    \/ \E cap \in offered[s] : Cardinality(History(msgs, s)) <= Window(cap)

(* Trimming forgets from the old end only: no deleted message of a live    *)
(* session is newer than one that is kept, although ids are drawn before   *)
(* their turns commit and turns commit in another order.  (A second cap    *)
(* makes room beside messages that the first has deleted.)                 *)
RetainedAreNewest ==
  \A d \in gone, m \in msgs :
    d.sid = m.sid /\ OneCap(m.sid) => d.id < m.id

(* A question that is kept has its answer kept: the two commit together    *)
(* and trimming, by whichever turn, takes the question first.              *)
TurnsWhole ==
  \A q \in msgs : q.role = "user" =>
    \E a \in msgs : a.role = "assistant" /\ a.turn = q.turn /\ a.sid = q.sid

(* Answers are numbered in the order their turns commit, so ORDER BY id    *)
(* replays the answers of a session in the order callers received them.    *)
AnswersInCommitOrder ==
  [][\A a \in msgs' \ msgs, o \in msgs :
       a.sid = o.sid /\ a.role = "assistant" /\ o.role = "assistant" => o.id < a.id]_vars

(* From the moment cleanup has deleted a session until it commits, the     *)
(* session's committed activity is older than the timeout: a turn that     *)
(* commits while cleanup waits for the row saves the session.  For the     *)
(* first call of a transaction: a later cleanup says nothing of what an    *)
(* earlier one deleted.                                                    *)
CleanupSparesActive ==
  \A b \in Backends, s \in Sessions :
    /\ args[b].op = "cleanup" /\ lock[s] = b /\ calls[b] = 1
    /\ newv[s].status = "dead" /\ sess[s].status = "live"
    => sess[s].active < args[b].cutoff

(* First calls deadlock only over rows that a DELETE visits one by one: every    *)
(* cycle has a call that waits in the middle of deleting messages or       *)
(* expired sessions.  The KEY SHARE locks of concurrent turns and their    *)
(* UPDATEs never suffice.  (A client that makes several calls in one       *)
(* transaction can close a cycle of row locks by itself.)                  *)
CyclesGoThroughDeletedRows ==
  \A C \in SUBSET Backends :
    WaitCycle(C) /\ (\A b \in C : calls[b] = 1)
      => \E b \in C : pc[b] \in {"trimming", "wiping", "cascading", "expire"}

(* Every transaction comes to an end, although trim and delete lock rows   *)
(* in different orders: no statement waits forever.                        *)
EveryCallEnds == \A b \in Backends : (pc[b] # "idle") ~> (pc[b] = "idle")

(* One call per transaction, the sessions behave as if each call were one  *)
(* step, the one at which it commits.                                      *)
Abstract == INSTANCE SessionHistory WITH
  Ids <- 1..(2 * MaxCalls),
  status <- [s \in Sessions |-> sess[s].status],
  cap <- [s \in Sessions |-> sess[s].cap],
  history <- [s \in Sessions |-> History(msgs, s)]

ActsAsBoundedHistory == Abstract!Spec
=============================================================================
