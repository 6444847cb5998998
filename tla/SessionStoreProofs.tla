------------------------- MODULE SessionStoreProofs -------------------------
(***************************************************************************)
(* Proofs about SessionStore for every number of backends, sessions and    *)
(* calls and every set of caps and timeouts.                               *)
(***************************************************************************)
EXTENDS SessionStore, TLAPS

LEMMA NoArgsType == NoArgs \in Args
<1>1. (CHOOSE s \in Sessions : TRUE) \in Sessions
  BY SessionStoreAssumption
<1> QED BY <1>1 DEF NoArgs, Args, AllOps

(* Ending a transaction, by commit or rollback, keeps the types of all it  *)
(* writes.                                                                 *)
LEMMA EndTransactionType ==
  ASSUME TypeOK, NEW b \in Backends, EndTransaction(b)
  PROVE  /\ pc' \in [Backends -> Statements]
         /\ lock' \in [Sessions -> Backends \cup {NoBackend}]
         /\ share' \in [Sessions -> SUBSET Backends]
         /\ given' \in [Sessions -> SUBSET (Caps \cup {0})]
         /\ ins' \in [Backends -> SUBSET Message]
         /\ del' \in [Backends -> SUBSET Message]
         /\ calls' \in [Backends -> Nat]
         /\ start' \in [Backends -> 0..MaxClock]
         /\ args' \in [Backends -> Args]
         /\ todo' \in [Backends -> SUBSET Message]
         /\ expired' \in [Backends -> SUBSET Sessions]
         /\ nextId' \in Nat /\ clock' \in 0..MaxClock /\ spent' \in Nat
<1>1. 0 \in 0..MaxClock
  BY SessionStoreAssumption
<1>2. args' \in [Backends -> Args]
  BY NoArgsType DEF EndTransaction, TypeOK
<1>3. start' \in [Backends -> 0..MaxClock] /\ calls' \in [Backends -> Nat]
  BY <1>1 DEF EndTransaction, TypeOK
<1>4. lock' \in [Sessions -> Backends \cup {NoBackend}] /\ share' \in [Sessions -> SUBSET Backends]
  BY DEF EndTransaction, TypeOK
<1> QED BY <1>2, <1>3, <1>4 DEF EndTransaction, TypeOK, GoTo, Statements

LEMMA RollbackType ==
  ASSUME TypeOK, NEW b \in Backends, Rollback(b)
  PROVE  TypeOK'
<1>1. newv' \in [Sessions -> Row]
  BY DEF Rollback, TypeOK
<1>2. EndTransaction(b) /\ UNCHANGED <<sess, msgs, gone, offered>>
  BY DEF Rollback
<1> QED BY <1>1, <1>2, EndTransactionType DEF TypeOK

(* Where an UPDATE leaves the row and its lock.                            *)
LEMMA UpdateRowType ==
  ASSUME TypeOK, NEW b \in Backends, NEW s \in Sessions, NEW new \in Row,
         UpdateRow(b, s, new)
  PROVE  newv' \in [Sessions -> Row] /\ lock' \in [Sessions -> Backends \cup {NoBackend}]
BY DEF UpdateRow, TypeOK

LEMMA ViewType ==
  ASSUME TypeOK, NEW b \in Backends, NEW s \in Sessions
  PROVE  View(b, s) \in Row
BY DEF View, TypeOK

LEMMA StartOfType ==
  ASSUME TypeOK, NEW b \in Backends
  PROVE  StartOf(b) \in 0..MaxClock
BY DEF StartOf, TypeOK

LEMMA ReturnType ==
  ASSUME TypeOK, NEW b \in Backends, NEW statement \in Statements, Return(b, statement)
  PROVE  pc' \in [Backends -> Statements] /\ args' \in [Backends -> Args]
BY NoArgsType DEF Return, GoTo, TypeOK

LEMMA AfterType ==
  ASSUME NEW b, NEW phase
  PROVE  After(b, phase) \in {"touch", "drop", "open"}
BY DEF After

LEMMA BeginDeleteType ==
  ASSUME TypeOK, NEW b \in Backends, NEW phase \in {"trimming", "wiping", "cascading"},
         NEW rows \in SUBSET Message, BeginDelete(b, phase, rows)
  PROVE  TypeOK'
<1>1. (IF rows = {} THEN After(b, phase) ELSE phase) \in Statements
  BY AfterType DEF Statements
<1>2. pc' \in [Backends -> Statements] /\ args' \in [Backends -> Args]
  BY <1>1, ReturnType DEF BeginDelete
<1>3. todo' \in [Backends -> SUBSET Message]
  BY DEF BeginDelete, TypeOK
<1> QED BY <1>2, <1>3 DEF BeginDelete, TypeOK, rowVars, msgVars, capVars, txnVars

(* A call that starts by looking at a session.                             *)
LEMMA EnterType ==
  ASSUME TypeOK, NEW b \in Backends, NEW op, Enter(b, op)
  PROVE  /\ start' \in [Backends -> 0..MaxClock]
         /\ calls' \in [Backends -> Nat] /\ spent' \in Nat /\ clock' \in 0..MaxClock
BY StartOfType DEF Enter, TypeOK

-----------------------------------------------------------------------------
(* Every operation keeps the types.                                        *)

LEMMA CallType ==
  ASSUME TypeOK, NEW b \in Backends, Call(b)
  PROVE  TypeOK'
<1>1. ASSUME NEW s \in Sessions, NEW cap \in Caps, CreateSession(b, s, cap)
      PROVE  TypeOK'
  <2>1. [status |-> "live", cap |-> cap, active |-> StartOf(b)] \in Row
    BY StartOfType DEF Row
  <2>2. newv' \in [Sessions -> Row] /\ lock' \in [Sessions -> Backends \cup {NoBackend}]
    BY <1>1, <2>1 DEF CreateSession, TypeOK
  <2>3. pc' \in [Backends -> Statements]
    BY <1>1 DEF CreateSession, GoTo, TypeOK, Statements
  <2> QED BY <1>1, <2>2, <2>3, EnterType DEF CreateSession, TypeOK, msgVars, capVars
<1>2. ASSUME NEW s \in Sessions, NEW cap \in Caps, StartSetMax(b, s, cap)
      PROVE  TypeOK'
  <2>1. [NoArgs EXCEPT !.op = "set_max", !.sid = s, !.cap = cap] \in Args
    BY NoArgsType DEF Args, AllOps
  <2>2. pc' \in [Backends -> Statements] /\ args' \in [Backends -> Args]
    BY <1>2, <2>1 DEF StartSetMax, GoTo, TypeOK, Statements
  <2> QED BY <1>2, <2>2, EnterType DEF StartSetMax, TypeOK, msgVars, capVars, rowVars
<1>3. ASSUME NEW s \in Sessions, StartChat(b, s)
      PROVE  TypeOK'
  <2>1. View(b, s).cap \in Caps \cup {0}
    BY ViewType DEF Row
  <2>2. [NoArgs EXCEPT !.op = "chat", !.sid = s, !.cap = View(b, s).cap] \in Args
    BY NoArgsType, <2>1 DEF Args, AllOps
  <2>3. pc' \in [Backends -> Statements] /\ args' \in [Backends -> Args]
    BY <1>3, <2>2 DEF StartChat, GoTo, TypeOK, Statements
  <2> QED BY <1>3, <2>3, EnterType DEF StartChat, TypeOK, msgVars, capVars, rowVars
<1>4. ASSUME NEW s \in Sessions, StartSetState(b, s)
      PROVE  TypeOK'
  <2>1. [NoArgs EXCEPT !.op = "set_state", !.sid = s] \in Args
    BY NoArgsType DEF Args, AllOps
  <2>2. pc' \in [Backends -> Statements] /\ args' \in [Backends -> Args]
    BY <1>4, <2>1 DEF StartSetState, GoTo, TypeOK, Statements
  <2> QED BY <1>4, <2>2, EnterType DEF StartSetState, TypeOK, msgVars, capVars, rowVars
<1>5. ASSUME NEW s \in Sessions, StartDelete(b, s)
      PROVE  TypeOK'
  <2>1. [NoArgs EXCEPT !.op = "delete", !.sid = s] \in Args
    BY NoArgsType DEF Args, AllOps
  <2>2. pc' \in [Backends -> Statements] /\ args' \in [Backends -> Args]
    BY <1>5, <2>1 DEF StartDelete, GoTo, TypeOK, Statements
  <2> QED BY <1>5, <2>2, EnterType DEF StartDelete, TypeOK, msgVars, capVars, rowVars
<1>6. ASSUME NEW t \in Timeouts, StartCleanup(b, t)
      PROVE  TypeOK'
  <2>1. StartOf(b) - t \in Int
    BY StartOfType, SessionStoreAssumption
  <2>2. [NoArgs EXCEPT !.op = "cleanup", !.cutoff = StartOf(b) - t] \in Args
    BY NoArgsType, <2>1 DEF Args, AllOps
  <2>3. pc' \in [Backends -> Statements] /\ args' \in [Backends -> Args]
    BY <1>6, <2>2 DEF StartCleanup, GoTo, TypeOK, Statements
  <2>4. expired' \in [Backends -> SUBSET Sessions]
    BY <1>6 DEF StartCleanup, TypeOK
  <2> QED BY <1>6, <2>3, <2>4, EnterType DEF StartCleanup, TypeOK, msgVars, capVars, rowVars
<1> QED BY <1>1, <1>2, <1>3, <1>4, <1>5, <1>6 DEF Call

LEMMA InsertMessageType ==
  ASSUME TypeOK, NEW b \in Backends, InsertMessage(b)
  PROVE  TypeOK'
<1> DEFINE s == args[b].sid
           turn == IF args[b].turn = 0 THEN nextId ELSE args[b].turn
           new == [id |-> nextId, sid |-> s, turn |-> turn,
                   role |-> IF args[b].turn = 0 THEN "user" ELSE "assistant"]
<1>1. args[b] \in Args /\ s \in Sessions /\ turn \in Nat
  BY DEF TypeOK, Args
<1>2. new \in Message
  BY <1>1 DEF Message, TypeOK
<1>3. ins' \in [Backends -> SUBSET Message]
  <2>1. ins' = [ins EXCEPT ![b] = @ \cup {new}]
    BY DEF InsertMessage
  <2> QED BY <1>2, <2>1 DEF TypeOK
<1>4. args' \in [Backends -> Args]
  <2>1. args' = [args EXCEPT ![b].turn = turn]
    BY DEF InsertMessage
  <2>2. [args[b] EXCEPT !.turn = turn] \in Args
    BY <1>1 DEF Args
  <2> QED BY <2>1, <2>2 DEF TypeOK
<1>5. share' \in [Sessions -> SUBSET Backends]
  BY <1>1 DEF InsertMessage, ReferenceSession, TypeOK
<1>6. pc' \in [Backends -> Statements] /\ nextId' \in Nat
  BY DEF InsertMessage, GoTo, TypeOK, Statements
<1> QED BY <1>3, <1>4, <1>5, <1>6 DEF InsertMessage, TypeOK, txnVars, capVars

LEMMA DeleteMessageType ==
  ASSUME TypeOK, NEW b \in Backends, NEW m \in todo[b], DeleteMessage(b, m)
  PROVE  TypeOK'
<1>1. m \in Message /\ todo[b] \ {m} \in SUBSET Message
  BY DEF TypeOK
<1>2. (IF todo[b] \ {m} = {} THEN After(b, pc[b]) ELSE pc[b]) \in Statements
  BY AfterType DEF Statements, TypeOK
<1>3. pc' \in [Backends -> Statements] /\ args' \in [Backends -> Args]
  BY <1>2, ReturnType DEF DeleteMessage
<1>4. del' \in [Backends -> SUBSET Message] /\ todo' \in [Backends -> SUBSET Message]
  BY <1>1 DEF DeleteMessage, TypeOK
<1> QED BY <1>3, <1>4 DEF DeleteMessage, TypeOK, rowVars, txnVars, capVars

(* The statements that write the session row.                              *)
LEMMA RowStatementType ==
  ASSUME TypeOK, NEW b \in Backends,
         \/ TouchSession(b)
         \/ SetMaxMessages(b)
         \/ SetState(b)
         \/ DropSession(b)
         \/ \E s \in expired[b] : ExpireSession(b, s)
  PROVE  TypeOK'
<1> DEFINE sid == args[b].sid
<1>1. args[b] \in Args /\ sid \in Sessions /\ args[b].cap \in Caps \cup {0}
  BY DEF TypeOK, Args
<1>2. \A s \in Sessions : View(b, s) \in Row
  BY ViewType
<1>3. start[b] \in 0..MaxClock
  BY DEF TypeOK
<1>4. \A s \in Sessions : /\ [View(b, s) EXCEPT !.active = start[b]] \in Row
                          /\ [View(b, s) EXCEPT !.cap = args[b].cap] \in Row
                          /\ [View(b, s) EXCEPT !.status = "dead"] \in Row
  BY <1>1, <1>2, <1>3 DEF Row
<1>5. CASE TouchSession(b)
  <2>1. (IF Answered(b) THEN "open" ELSE "insert") \in Statements
    BY DEF Statements
  <2>2. pc' \in [Backends -> Statements] /\ args' \in [Backends -> Args]
    BY <1>5, <2>1, ReturnType DEF TouchSession
  <2> QED BY <1>5, <1>1, <1>4, <2>2, UpdateRowType DEF TouchSession, TypeOK, msgVars, capVars, txnVars
<1>6. CASE SetMaxMessages(b)
  <2>1. pc' \in [Backends -> Statements]
    BY <1>6 DEF SetMaxMessages, GoTo, TypeOK, Statements
  <2> QED BY <1>6, <1>1, <1>4, <2>1, UpdateRowType DEF SetMaxMessages, TypeOK, msgVars, capVars, txnVars
<1>7. CASE SetState(b)
  <2>1. pc' \in [Backends -> Statements] /\ args' \in [Backends -> Args]
    BY <1>7, ReturnType DEF SetState, Statements
  <2> QED BY <1>7, <1>1, <1>4, <2>1, UpdateRowType DEF SetState, TypeOK, msgVars, capVars, txnVars
<1>8. CASE DropSession(b)
  <2>1. pc' \in [Backends -> Statements]
    BY <1>8 DEF DropSession, GoTo, TypeOK, Statements
  <2> QED BY <1>8, <1>1, <1>4, <2>1, UpdateRowType DEF DropSession, TypeOK, msgVars, capVars, txnVars
<1>9. ASSUME NEW s \in expired[b], ExpireSession(b, s)
      PROVE  TypeOK'
  <2>1. s \in Sessions /\ expired' \in [Backends -> SUBSET Sessions]
    BY <1>9 DEF ExpireSession, TypeOK
  <2>2. newv' \in [Sessions -> Row] /\ lock' \in [Sessions -> Backends \cup {NoBackend}]
    BY <1>9, <1>4, <2>1, UpdateRowType DEF ExpireSession, TypeOK
  <2>3. pc' \in [Backends -> Statements]
    BY <1>9 DEF ExpireSession, GoTo, TypeOK, Statements
  <2> QED BY <1>9, <2>1, <2>2, <2>3 DEF ExpireSession, TypeOK, msgVars, capVars, txnVars
<1> QED BY <1>5, <1>6, <1>7, <1>8, <1>9

LEMMA StatementType ==
  ASSUME TypeOK, NEW b \in Backends, Statement(b)
  PROVE  TypeOK'
<1>1. CASE InsertMessage(b)
  BY <1>1, InsertMessageType
<1>2. CASE SessionVanished(b) \/ NegativeCap(b)
  BY <1>2, RollbackType DEF SessionVanished, NegativeCap
<1>3. Visible(b) \subseteq Message
  BY DEF Visible, TypeOK
<1>4. CASE BeginTrim(b)
  <2>1. Trimmed(b, args[b].sid, args[b].cap) \in SUBSET Message
    BY <1>3 DEF Trimmed, History
  <2> QED BY <1>4, <2>1, BeginDeleteType DEF BeginTrim
<1>5. CASE BeginWipe(b)
  <2>1. History(Visible(b), args[b].sid) \in SUBSET Message
    BY <1>3 DEF History
  <2> QED BY <1>5, <2>1, BeginDeleteType DEF BeginWipe
<1>6. CASE BeginCascade(b)
  <2>1. {m \in Visible(b) : lock[m.sid] = b /\ newv[m.sid].status = "dead"} \in SUBSET Message
    BY <1>3
  <2> QED BY <1>6, <2>1, BeginDeleteType DEF BeginCascade
<1>7. CASE \E m \in todo[b] : DeleteMessage(b, m)
  BY <1>7, DeleteMessageType
<1> QED BY <1>1, <1>2, <1>4, <1>5, <1>6, <1>7, RowStatementType DEF Statement

LEMMA CommitType ==
  ASSUME TypeOK, NEW b \in Backends, Commit(b)
  PROVE  TypeOK'
<1>1. sess' \in [Sessions -> Row]
  BY ViewType DEF Commit, TypeOK
<1>2. msgs' \subseteq Message /\ gone' \subseteq Message
  BY DEF Commit, Visible, TypeOK
<1>3. offered' \in [Sessions -> SUBSET (Caps \cup {0})]
  BY DEF Commit, TypeOK
<1> QED BY <1>1, <1>2, <1>3, EndTransactionType DEF Commit, TypeOK

LEMMA NextType ==
  ASSUME TypeOK, [Next]_vars
  PROVE  TypeOK'
<1>1. CASE Tick
  BY <1>1, SessionStoreAssumption DEF Tick, TypeOK, rowVars, msgVars, capVars
<1>2. ASSUME NEW b \in Backends,
             Call(b) \/ Statement(b) \/ Commit(b) \/ Fail(b) \/ DeadlockAbort(b)
      PROVE  TypeOK'
  BY <1>2, CallType, StatementType, CommitType, RollbackType DEF Fail, DeadlockAbort
<1>3. CASE UNCHANGED vars
  BY <1>3 DEF vars, TypeOK
<1> QED BY <1>1, <1>2, <1>3 DEF Next

LEMMA InitType == Init => TypeOK
<1>1. Unborn \in Row
  BY SessionStoreAssumption DEF Unborn, Row
<1> QED BY <1>1, NoArgsType, SessionStoreAssumption DEF Init, TypeOK, Statements

(* Type correctness: every variable keeps its type.                        *)
THEOREM TypeCorrect == Spec => []TypeOK
<1>1. Init => TypeOK
  BY InitType
<1>2. TypeOK /\ [Next]_vars => TypeOK'
  BY NextType
<1> QED BY <1>1, <1>2, PTL DEF Spec

-----------------------------------------------------------------------------
(* No message outlives its session.  NoOrphans alone is not inductive: a   *)
(* commit makes rows of ins[b] and the deletion of a session take effect   *)
(* together, so the proof carries what the row locks guarantee until then. *)

Inv == TypeOK /\ NoOrphans /\ LockDiscipline

(* Steps that leave rows, locks and messages alone and do not enter or     *)
(* leave a cascade.                                                        *)
LEMMA QuietStep ==
  ASSUME Inv, TypeOK', NEW b \in Backends, NEW statement,
         UNCHANGED <<rowVars, msgVars>>,
         \A c \in Backends \ {b} : pc'[c] = pc[c] /\ todo'[c] = todo[c],
         pc'[b] = statement,
         \/ pc[b] \notin {"cascade", "expire", "cascading"} /\ statement # "cascading"
         \/ statement \in {"cascade", "expire"}
  PROVE  Inv'
<1>1. NoOrphans' /\ RowVersions' /\ InsertsReference' /\ ReferencesHold'
  BY DEF Inv, LockDiscipline, NoOrphans, RowVersions, InsertsReference, ReferencesHold,
         rowVars, msgVars
<1>2. \A c \in Backends : Visible(c)' = Visible(c)
  BY DEF Visible, msgVars
<1>3. DropsAreComplete'
  <2> SUFFICES ASSUME NEW s \in Sessions, NEW c \in Backends,
                      lock'[s] = c, newv'[s].status = "dead"
               PROVE  /\ share'[s] \subseteq {c}
                      /\ \/ pc'[c] \in {"cascade", "expire"}
                         \/ pc'[c] = "cascading" /\ History(Visible(c)', s) \subseteq todo'[c]
                         \/ pc'[c] # "cascading" /\ History(Visible(c)', s) = {}
    BY DEF DropsAreComplete
  <2>1. /\ share[s] \subseteq {c}
        /\ \/ pc[c] \in {"cascade", "expire"}
           \/ pc[c] = "cascading" /\ History(Visible(c), s) \subseteq todo[c]
           \/ pc[c] # "cascading" /\ History(Visible(c), s) = {}
    BY DEF Inv, LockDiscipline, DropsAreComplete, rowVars
  <2>2. CASE c = b
    BY <2>1, <2>2, <1>2 DEF rowVars
  <2>3. CASE c # b
    BY <2>1, <2>3, <1>2 DEF rowVars
  <2> QED BY <2>2, <2>3
<1> QED BY <1>1, <1>3 DEF Inv, LockDiscipline

LEMMA CallKeepsInv ==
  ASSUME Inv, NEW b \in Backends, Call(b)
  PROVE  Inv'
<1>0. TypeOK /\ TypeOK'
  BY CallType DEF Inv
<1>1. ASSUME NEW s \in Sessions, NEW cap \in Caps, CreateSession(b, s, cap)
      PROVE  Inv'
  <2>1. /\ sess[s].status = "unborn" /\ lock[s] = NoBackend
        /\ lock' = [lock EXCEPT ![s] = b]
        /\ newv' = [newv EXCEPT ![s] = [status |-> "live", cap |-> cap, active |-> StartOf(b)]]
        /\ UNCHANGED <<sess, share, msgVars, todo>>
        /\ pc[b] \in {"idle", "open"} /\ pc' = [pc EXCEPT ![b] = "open"]
    BY <1>1 DEF CreateSession, Enter, Working, GoTo
  <2>2. newv'[s].status = "live" /\ lock'[s] = b
    BY <2>1, <1>0 DEF TypeOK
  <2>3. \A x \in Sessions \ {s} : newv'[x] = newv[x] /\ lock'[x] = lock[x]
    BY <2>1, <1>0 DEF TypeOK
  <2>4. NoOrphans' /\ InsertsReference'
    BY <2>1 DEF Inv, LockDiscipline, NoOrphans, InsertsReference, msgVars
  <2>5. RowVersions'
    BY <2>1, <2>2, <2>3, SessionStoreAssumption DEF Inv, LockDiscipline, RowVersions
  <2>6. ReferencesHold'
    <3>1. ASSUME NEW c \in share[s]
          PROVE  FALSE
      <4>1. c \in Backends
        BY <1>0 DEF TypeOK
      <4>2. lock[s] = c \/ sess[s].status = "live"
        BY DEF Inv, LockDiscipline, ReferencesHold
      <4> QED BY <2>1, <4>1, <4>2, SessionStoreAssumption
    <3> QED BY <2>1, <2>3, <3>1 DEF Inv, LockDiscipline, ReferencesHold
  <2>7. DropsAreComplete'
    <3>1. \A c \in Backends : Visible(c)' = Visible(c)
      BY <2>1 DEF Visible, msgVars
    <3>2. ASSUME NEW x \in Sessions, NEW c \in Backends, lock'[x] = c, newv'[x].status = "dead"
          PROVE  /\ share'[x] \subseteq {c}
                 /\ \/ pc'[c] \in {"cascade", "expire"}
                    \/ pc'[c] = "cascading" /\ History(Visible(c)', x) \subseteq todo'[c]
                    \/ pc'[c] # "cascading" /\ History(Visible(c)', x) = {}
      <4>1. x # s
        BY <2>2, <3>2
      <4>2. /\ share[x] \subseteq {c}
            /\ \/ pc[c] \in {"cascade", "expire"}
               \/ pc[c] = "cascading" /\ History(Visible(c), x) \subseteq todo[c]
               \/ pc[c] # "cascading" /\ History(Visible(c), x) = {}
        BY <2>3, <3>2, <4>1 DEF Inv, LockDiscipline, DropsAreComplete
      <4>3. pc'[c] = IF c = b THEN "open" ELSE pc[c]
        BY <2>1, <1>0 DEF TypeOK
      <4> QED BY <2>1, <3>1, <4>2, <4>3
    <3> QED BY <3>2 DEF DropsAreComplete
  <2> QED BY <1>0, <2>4, <2>5, <2>6, <2>7 DEF Inv, LockDiscipline
<1>2. ASSUME NEW statement \in {"insert", "update", "wipe", "expire"},
             pc[b] \in {"idle", "open"}, pc' = [pc EXCEPT ![b] = statement],
             UNCHANGED <<rowVars, msgVars, todo>>
      PROVE  Inv'
  <2>1. pc'[b] = statement /\ \A c \in Backends \ {b} : pc'[c] = pc[c]
    BY <1>2, <1>0 DEF TypeOK
  <2> QED BY <1>0, <1>2, <2>1, QuietStep
<1>3. ASSUME NEW s \in Sessions, NEW cap \in Caps, StartSetMax(b, s, cap)
      PROVE  Inv'
  BY <1>2, <1>3 DEF StartSetMax, Enter, Working, GoTo
<1>4. ASSUME NEW s \in Sessions, StartChat(b, s) \/ StartSetState(b, s) \/ StartDelete(b, s)
      PROVE  Inv'
  BY <1>2, <1>4 DEF StartChat, StartSetState, StartDelete, Enter, Working, GoTo
<1>5. ASSUME NEW t \in Timeouts, StartCleanup(b, t)
      PROVE  Inv'
  BY <1>2, <1>5 DEF StartCleanup, Enter, Working, GoTo
<1> QED BY <1>1, <1>3, <1>4, <1>5 DEF Call

LEMMA InsertKeepsInv ==
  ASSUME Inv, NEW b \in Backends, InsertMessage(b)
  PROVE  Inv'
<1> DEFINE sid == args[b].sid
<1>0. TypeOK /\ TypeOK' /\ sid \in Sessions
  BY InsertMessageType DEF Inv, TypeOK, Args
<1>1. /\ RowDeleter(b, sid) = {} /\ Found(b, sid)
      /\ share' = [share EXCEPT ![sid] = @ \cup {b}]
      /\ pc[b] = "insert" /\ pc' = [pc EXCEPT ![b] = "trim"]
      /\ UNCHANGED <<sess, newv, lock, msgs, del, todo>>
  BY DEF InsertMessage, ReferenceSession, GoTo
<1>2. PICK new : new.sid = sid /\ ins' = [ins EXCEPT ![b] = @ \cup {new}]
  BY DEF InsertMessage
<1>3. NoOrphans' /\ RowVersions'
  BY <1>1 DEF Inv, LockDiscipline, NoOrphans, RowVersions
<1>4. InsertsReference'
  <2> SUFFICES ASSUME NEW c \in Backends, NEW m \in ins'[c]
               PROVE  c \in share'[m.sid]
    BY DEF InsertsReference
  <2>1. CASE m \in ins[c]
    <3>1. m.sid \in Sessions /\ c \in share[m.sid]
      BY <1>0, <2>1 DEF Inv, LockDiscipline, InsertsReference, TypeOK, Message
    <3> QED BY <3>1, <1>0, <1>1 DEF TypeOK
  <2>2. CASE m \notin ins[c]
    <3>1. c = b /\ m = new
      BY <1>0, <1>2, <2>2 DEF TypeOK
    <3> QED BY <3>1, <1>0, <1>1, <1>2 DEF TypeOK
  <2> QED BY <2>1, <2>2
<1>5. ReferencesHold'
  <2> SUFFICES ASSUME NEW s \in Sessions, NEW c \in share'[s]
               PROVE  lock[s] = c \/ sess[s].status = "live"
    BY <1>1 DEF ReferencesHold
  <2>1. CASE c \in share[s]
    BY <2>1 DEF Inv, LockDiscipline, ReferencesHold
  <2>2. CASE c \notin share[s]
    <3>1. s = sid /\ c = b
      BY <1>0, <1>1, <2>2 DEF TypeOK
    <3> QED BY <1>1, <3>1 DEF Found, View
  <2> QED BY <2>1, <2>2
<1>6. DropsAreComplete'
  <2> SUFFICES ASSUME NEW s \in Sessions, NEW c \in Backends,
                      lock'[s] = c, newv'[s].status = "dead"
               PROVE  /\ share'[s] \subseteq {c}
                      /\ \/ pc'[c] \in {"cascade", "expire"}
                         \/ pc'[c] = "cascading" /\ History(Visible(c)', s) \subseteq todo'[c]
                         \/ pc'[c] # "cascading" /\ History(Visible(c)', s) = {}
    BY DEF DropsAreComplete
  <2>1. /\ share[s] \subseteq {c}
        /\ \/ pc[c] \in {"cascade", "expire"}
           \/ pc[c] = "cascading" /\ History(Visible(c), s) \subseteq todo[c]
           \/ pc[c] # "cascading" /\ History(Visible(c), s) = {}
    BY <1>1 DEF Inv, LockDiscipline, DropsAreComplete
  <2>2. s # sid
    <3> SUFFICES ASSUME s = sid PROVE FALSE
      OBVIOUS
    <3>1. lock[sid] \in {NoBackend, b}
      BY <1>1 DEF RowDeleter, BeingDropped
    <3>2. c = b
      BY <3>1, <1>1, SessionStoreAssumption
    <3> QED BY <1>1, <3>2 DEF Found, View
  <2>3. share'[s] = share[s]
    BY <1>0, <1>1, <2>2 DEF TypeOK
  <2>4. History(Visible(c)', s) = History(Visible(c), s)
    <3>1. CASE c # b
      BY <3>1, <1>1, <1>2, <1>0 DEF Visible, TypeOK
    <3>2. CASE c = b
      BY <3>2, <1>1, <1>2, <1>0, <2>2 DEF Visible, History, TypeOK
    <3> QED BY <3>1, <3>2
  <2>5. pc'[c] = IF c = b THEN "trim" ELSE pc[c]
    BY <1>0, <1>1 DEF TypeOK
  <2> QED BY <1>1, <2>1, <2>3, <2>4, <2>5
<1> QED BY <1>0, <1>3, <1>4, <1>5, <1>6 DEF Inv, LockDiscipline

(* What the end of a transaction leaves of the others.                     *)
LEMMA OthersGoOn ==
  ASSUME TypeOK, NEW b \in Backends, EndTransaction(b)
  PROVE  /\ ins'[b] = {}
         /\ \A c \in Backends \ {b} : /\ pc'[c] = pc[c] /\ todo'[c] = todo[c]
                                      /\ ins'[c] = ins[c] /\ del'[c] = del[c]
         /\ \A s \in Sessions : /\ share'[s] = share[s] \ {b}
                                /\ lock'[s] = IF lock[s] = b THEN NoBackend ELSE lock[s]
BY DEF EndTransaction, GoTo, TypeOK

LEMMA RollbackKeepsInv ==
  ASSUME Inv, NEW b \in Backends, Rollback(b)
  PROVE  Inv'
<1>0. TypeOK /\ TypeOK'
  BY RollbackType DEF Inv
<1>1. /\ UNCHANGED <<sess, msgs>>
      /\ \A s \in Sessions : newv'[s] = IF lock[s] = b THEN sess[s] ELSE newv[s]
  BY DEF Rollback
<1>2. /\ ins'[b] = {}
      /\ \A c \in Backends \ {b} : /\ pc'[c] = pc[c] /\ todo'[c] = todo[c]
                                   /\ ins'[c] = ins[c] /\ del'[c] = del[c]
      /\ \A s \in Sessions : /\ share'[s] = share[s] \ {b}
                             /\ lock'[s] = IF lock[s] = b THEN NoBackend ELSE lock[s]
  BY <1>0, OthersGoOn DEF Rollback
<1>3. NoOrphans' /\ RowVersions'
  BY <1>1, <1>2 DEF Inv, LockDiscipline, NoOrphans, RowVersions
<1>4. InsertsReference'
  <2> SUFFICES ASSUME NEW c \in Backends, NEW m \in ins'[c]
               PROVE  c \in share'[m.sid]
    BY DEF InsertsReference
  <2>1. c # b /\ m \in ins[c]
    BY <1>2
  <2>2. c \in share[m.sid] /\ m.sid \in Sessions
    BY <2>1, <1>0 DEF Inv, LockDiscipline, InsertsReference, TypeOK, Message
  <2> QED BY <2>1, <2>2, <1>2
<1>5. ReferencesHold'
  BY <1>1, <1>2 DEF Inv, LockDiscipline, ReferencesHold
<1>6. DropsAreComplete'
  <2> SUFFICES ASSUME NEW s \in Sessions, NEW c \in Backends,
                      lock'[s] = c, newv'[s].status = "dead"
               PROVE  /\ share'[s] \subseteq {c}
                      /\ \/ pc'[c] \in {"cascade", "expire"}
                         \/ pc'[c] = "cascading" /\ History(Visible(c)', s) \subseteq todo'[c]
                         \/ pc'[c] # "cascading" /\ History(Visible(c)', s) = {}
    BY DEF DropsAreComplete
  <2>1. c # b /\ lock[s] = c /\ newv[s].status = "dead"
    BY <1>1, <1>2, SessionStoreAssumption
  <2>2. Visible(c)' = Visible(c)
    BY <1>1, <1>2, <2>1 DEF Visible
  <2> QED BY <1>2, <2>1, <2>2 DEF Inv, LockDiscipline, DropsAreComplete
<1> QED BY <1>0, <1>3, <1>4, <1>5, <1>6 DEF Inv, LockDiscipline

LEMMA CommitKeepsInv ==
  ASSUME Inv, NEW b \in Backends, Commit(b)
  PROVE  Inv'
<1>0. TypeOK /\ TypeOK'
  BY CommitType DEF Inv
<1>1. /\ pc[b] = "open" /\ UNCHANGED newv
      /\ msgs' = (msgs \cup ins[b]) \ del[b]
      /\ \A s \in Sessions : sess'[s] = IF lock[s] = b THEN newv[s] ELSE sess[s]
  BY DEF Commit, View, Visible
<1>2. /\ ins'[b] = {}
      /\ \A c \in Backends \ {b} : /\ pc'[c] = pc[c] /\ todo'[c] = todo[c]
                                   /\ ins'[c] = ins[c] /\ del'[c] = del[c]
      /\ \A s \in Sessions : /\ share'[s] = share[s] \ {b}
                             /\ lock'[s] = IF lock[s] = b THEN NoBackend ELSE lock[s]
  BY <1>0, OthersGoOn DEF Commit
<1>3. \A s \in Sessions : newv[s].status \in {"unborn", "live", "dead"}
  BY <1>0 DEF TypeOK, Row
<1>4. \A s \in Sessions : lock[s] = b => newv[s].status \in {"live", "dead"}
  BY <1>3, SessionStoreAssumption DEF Inv, LockDiscipline, RowVersions
<1>5. RowVersions'
  BY <1>1, <1>2 DEF Inv, LockDiscipline, RowVersions
<1>6. InsertsReference'
  <2> SUFFICES ASSUME NEW c \in Backends, NEW m \in ins'[c]
               PROVE  c \in share'[m.sid]
    BY DEF InsertsReference
  <2>1. c # b /\ m \in ins[c]
    BY <1>2
  <2>2. c \in share[m.sid] /\ m.sid \in Sessions
    BY <2>1, <1>0 DEF Inv, LockDiscipline, InsertsReference, TypeOK, Message
  <2> QED BY <2>1, <2>2, <1>2
<1>7. ReferencesHold'
  <2> SUFFICES ASSUME NEW s \in Sessions, NEW c \in share'[s]
               PROVE  lock'[s] = c \/ sess'[s].status = "live"
    BY DEF ReferencesHold
  <2>1. c \in share[s] /\ c # b
    BY <1>2
  <2>2. lock[s] = c \/ sess[s].status = "live"
    BY <2>1 DEF Inv, LockDiscipline, ReferencesHold
  <2>3. CASE lock[s] = b
    <3>1. newv[s].status # "dead"
      BY <2>1, <2>3 DEF Inv, LockDiscipline, DropsAreComplete
    <3> QED BY <1>1, <1>4, <2>3, <3>1
  <2> QED BY <1>1, <1>2, <2>1, <2>2, <2>3
<1>8. NoOrphans'
  <2> SUFFICES ASSUME NEW m \in msgs'
               PROVE  sess'[m.sid].status = "live"
    BY DEF NoOrphans
  <2>1. m.sid \in Sessions
    BY <1>0 DEF TypeOK, Message
  <2>2. CASE lock[m.sid] = b
    <3>1. m \in History(Visible(b), m.sid)
      BY <1>1 DEF History, Visible
    <3>2. newv[m.sid].status # "dead"
      BY <1>1, <2>1, <2>2, <3>1 DEF Inv, LockDiscipline, DropsAreComplete
    <3> QED BY <1>1, <1>4, <2>1, <2>2, <3>2
  <2>3. CASE lock[m.sid] # b
    <3>1. m \in msgs \/ m \in ins[b]
      BY <1>1
    <3>2. sess[m.sid].status = "live"
      BY <2>1, <2>3, <3>1
         DEF Inv, NoOrphans, LockDiscipline, InsertsReference, ReferencesHold
    <3> QED BY <1>1, <2>1, <2>3, <3>2
  <2> QED BY <2>2, <2>3
<1>9. DropsAreComplete'
  <2> SUFFICES ASSUME NEW s \in Sessions, NEW c \in Backends,
                      lock'[s] = c, newv'[s].status = "dead"
               PROVE  /\ share'[s] \subseteq {c}
                      /\ \/ pc'[c] \in {"cascade", "expire"}
                         \/ pc'[c] = "cascading" /\ History(Visible(c)', s) \subseteq todo'[c]
                         \/ pc'[c] # "cascading" /\ History(Visible(c)', s) = {}
    BY DEF DropsAreComplete
  <2>1. c # b /\ lock[s] = c /\ newv[s].status = "dead"
    BY <1>1, <1>2, SessionStoreAssumption
  <2>2. /\ share[s] \subseteq {c}
        /\ \/ pc[c] \in {"cascade", "expire"}
           \/ pc[c] = "cascading" /\ History(Visible(c), s) \subseteq todo[c]
           \/ pc[c] # "cascading" /\ History(Visible(c), s) = {}
    BY <2>1 DEF Inv, LockDiscipline, DropsAreComplete
  <2>3. \A m \in ins[b] : m.sid # s
    BY <2>1, <2>2 DEF Inv, LockDiscipline, InsertsReference
  <2>4. History(Visible(c)', s) \subseteq History(Visible(c), s)
    BY <1>1, <1>2, <2>1, <2>3 DEF History, Visible
  <2> QED BY <1>2, <2>1, <2>2, <2>4
<1> QED BY <1>0, <1>5, <1>6, <1>7, <1>8, <1>9 DEF Inv, LockDiscipline

(* The start of a DELETE.  Only the cascade looks at every dead session.   *)
LEMMA BeginDeleteKeepsInv ==
  ASSUME Inv, NEW b \in Backends, BeginTrim(b) \/ BeginWipe(b) \/ BeginCascade(b)
  PROVE  Inv'
<1>0. TypeOK /\ TypeOK'
  BY StatementType DEF Inv, Statement
<1>1. ASSUME NEW phase \in {"trimming", "wiping"}, NEW rows,
             pc[b] \in {"trim", "wipe"}, BeginDelete(b, phase, rows)
      PROVE  Inv'
  <2>1. /\ UNCHANGED <<rowVars, msgVars>>
        /\ pc' = [pc EXCEPT ![b] = IF rows = {} THEN After(b, phase) ELSE phase]
        /\ todo' = [todo EXCEPT ![b] = rows]
    BY <1>1 DEF BeginDelete, Return, GoTo
  <2>2. /\ pc'[b] # "cascading"
        /\ \A c \in Backends \ {b} : pc'[c] = pc[c] /\ todo'[c] = todo[c]
    BY <1>0, <2>1, AfterType DEF TypeOK
  <2> QED BY <1>0, <1>1, <2>1, <2>2, QuietStep
<1>2. CASE BeginTrim(b) \/ BeginWipe(b)
  BY <1>1, <1>2 DEF BeginTrim, BeginWipe
<1>3. CASE BeginCascade(b)
  <2> DEFINE rows == {m \in Visible(b) : lock[m.sid] = b /\ newv[m.sid].status = "dead"}
  <2>1. /\ UNCHANGED <<rowVars, msgVars>>
        /\ pc' = [pc EXCEPT ![b] = IF rows = {} THEN After(b, "cascading") ELSE "cascading"]
        /\ todo' = [todo EXCEPT ![b] = rows]
    BY <1>3 DEF BeginCascade, BeginDelete, Return, GoTo
  <2>2. /\ todo'[b] = rows
        /\ pc'[b] = IF rows = {} THEN After(b, "cascading") ELSE "cascading"
        /\ \A c \in Backends \ {b} : pc'[c] = pc[c] /\ todo'[c] = todo[c]
    BY <1>0, <2>1 DEF TypeOK
  <2>3. NoOrphans' /\ RowVersions' /\ InsertsReference' /\ ReferencesHold'
    BY <2>1 DEF Inv, LockDiscipline, NoOrphans, RowVersions, InsertsReference,
                ReferencesHold, rowVars, msgVars
  <2>4. \A c \in Backends : Visible(c)' = Visible(c)
    BY <2>1 DEF Visible, msgVars
  <2>5. DropsAreComplete'
    <3> SUFFICES ASSUME NEW s \in Sessions, NEW c \in Backends,
                        lock'[s] = c, newv'[s].status = "dead"
                 PROVE  /\ share'[s] \subseteq {c}
                        /\ \/ pc'[c] \in {"cascade", "expire"}
                           \/ pc'[c] = "cascading" /\ History(Visible(c)', s) \subseteq todo'[c]
                           \/ pc'[c] # "cascading" /\ History(Visible(c)', s) = {}
      BY DEF DropsAreComplete
    <3>1. lock[s] = c /\ newv[s].status = "dead" /\ share'[s] = share[s]
      BY <2>1 DEF rowVars
    <3>2. /\ share[s] \subseteq {c}
          /\ \/ pc[c] \in {"cascade", "expire"}
             \/ pc[c] = "cascading" /\ History(Visible(c), s) \subseteq todo[c]
             \/ pc[c] # "cascading" /\ History(Visible(c), s) = {}
      BY <3>1 DEF Inv, LockDiscipline, DropsAreComplete
    <3>3. CASE c # b
      BY <2>2, <2>4, <3>1, <3>2, <3>3
    <3>4. CASE c = b
      <4>1. History(Visible(b), s) \subseteq rows
        BY <3>1, <3>4 DEF History
      <4>2. pc'[b] # "cascading" => rows = {}
        BY <2>2
      <4> QED BY <2>2, <2>4, <3>1, <3>2, <3>4, <4>1, <4>2
    <3> QED BY <3>3, <3>4
  <2> QED BY <1>0, <2>3, <2>5 DEF Inv, LockDiscipline
<1> QED BY <1>2, <1>3

LEMMA DeleteMessageKeepsInv ==
  ASSUME Inv, NEW b \in Backends, NEW m \in todo[b], DeleteMessage(b, m)
  PROVE  Inv'
<1> DEFINE rest == todo[b] \ {m}
<1>0. TypeOK /\ TypeOK'
  BY DeleteMessageType DEF Inv
<1>1. /\ pc[b] \in {"trimming", "wiping", "cascading"}
      /\ UNCHANGED rowVars /\ UNCHANGED <<msgs, ins>>
      /\ del' = IF m \in Visible(b) THEN [del EXCEPT ![b] = @ \cup {m}] ELSE del
      /\ todo' = [todo EXCEPT ![b] = rest]
      /\ pc' = [pc EXCEPT ![b] = IF rest = {} THEN After(b, pc[b]) ELSE pc[b]]
  BY DEF DeleteMessage, Return, GoTo
<1>2. /\ todo'[b] = rest
      /\ pc'[b] = IF rest = {} THEN After(b, pc[b]) ELSE pc[b]
      /\ \A c \in Backends \ {b} : /\ pc'[c] = pc[c] /\ todo'[c] = todo[c]
                                   /\ del'[c] = del[c]
      /\ del'[b] = IF m \in Visible(b) THEN del[b] \cup {m} ELSE del[b]
  BY <1>0, <1>1 DEF TypeOK
<1>3. NoOrphans' /\ RowVersions' /\ InsertsReference' /\ ReferencesHold'
  BY <1>1 DEF Inv, LockDiscipline, NoOrphans, RowVersions, InsertsReference,
              ReferencesHold, rowVars
<1>4. Visible(b)' = Visible(b) \ {m}
  BY <1>1, <1>2 DEF Visible
<1>5. \A c \in Backends \ {b} : Visible(c)' = Visible(c)
  BY <1>1, <1>2 DEF Visible
<1>6. DropsAreComplete'
  <2> SUFFICES ASSUME NEW s \in Sessions, NEW c \in Backends,
                      lock'[s] = c, newv'[s].status = "dead"
               PROVE  /\ share'[s] \subseteq {c}
                      /\ \/ pc'[c] \in {"cascade", "expire"}
                         \/ pc'[c] = "cascading" /\ History(Visible(c)', s) \subseteq todo'[c]
                         \/ pc'[c] # "cascading" /\ History(Visible(c)', s) = {}
    BY DEF DropsAreComplete
  <2>1. lock[s] = c /\ newv[s].status = "dead" /\ share'[s] = share[s]
    BY <1>1 DEF rowVars
  <2>2. /\ share[s] \subseteq {c}
        /\ \/ pc[c] \in {"cascade", "expire"}
           \/ pc[c] = "cascading" /\ History(Visible(c), s) \subseteq todo[c]
           \/ pc[c] # "cascading" /\ History(Visible(c), s) = {}
    BY <2>1 DEF Inv, LockDiscipline, DropsAreComplete
  <2>3. CASE c # b
    BY <1>2, <1>5, <2>1, <2>2, <2>3
  <2>4. CASE c = b
    <3>1. History(Visible(b)', s) = History(Visible(b), s) \ {m}
      BY <1>4 DEF History
    <3>2. CASE pc[b] = "cascading"
      <4>1. History(Visible(b)', s) \subseteq rest
        BY <2>2, <2>4, <3>1, <3>2
      <4>2. pc'[b] = "cascading" \/ (pc'[b] # "cascading" /\ rest = {})
        BY <1>2, <3>2, AfterType
      <4> QED BY <1>2, <2>1, <2>2, <2>4, <4>1, <4>2
    <3>3. CASE pc[b] # "cascading"
      <4>1. pc'[b] # "cascading"
        BY <1>1, <1>2, <3>3, AfterType
      <4> QED BY <1>1, <2>1, <2>2, <2>4, <3>1, <3>3, <4>1
    <3> QED BY <3>2, <3>3
  <2> QED BY <2>3, <2>4
<1> QED BY <1>0, <1>3, <1>6 DEF Inv, LockDiscipline

(* A statement of b writes the row of s and nothing else but its own state. *)
WritesRow(b, s, new) ==
  /\ lock[s] \in {NoBackend, b}
  /\ newv' = [newv EXCEPT ![s] = new] /\ lock' = [lock EXCEPT ![s] = b]
  /\ UNCHANGED <<sess, share, msgVars, todo>>
  /\ \A c \in Backends \ {b} : pc'[c] = pc[c]

(* It keeps the row live, or deletes it while nobody else refers to it.    *)
KeepsRow(b, new) == /\ new.status = "live"
                    /\ pc[b] \notin {"cascade", "expire", "cascading"}
                    /\ pc'[b] # "cascading"
DeletesRow(b, s, new) == /\ new.status = "dead"
                         /\ share[s] \subseteq {b} /\ pc'[b] \in {"cascade", "expire"}

LEMMA RowStep ==
  ASSUME Inv, TypeOK', NEW b \in Backends, NEW s \in Sessions, NEW new,
         WritesRow(b, s, new), KeepsRow(b, new) \/ DeletesRow(b, s, new)
  PROVE  Inv'
<1>0. newv'[s] = new /\ lock'[s] = b
  BY DEF Inv, TypeOK, WritesRow
<1>1. \A x \in Sessions \ {s} : newv'[x] = newv[x] /\ lock'[x] = lock[x]
  BY DEF Inv, TypeOK, WritesRow
<1>2. NoOrphans' /\ InsertsReference'
  BY DEF Inv, LockDiscipline, NoOrphans, InsertsReference, msgVars, WritesRow
<1>3. RowVersions'
  BY <1>0, <1>1, SessionStoreAssumption
     DEF Inv, LockDiscipline, RowVersions, WritesRow, KeepsRow, DeletesRow
<1>4. ReferencesHold'
  <2> SUFFICES ASSUME NEW x \in Sessions, NEW c \in share[x]
               PROVE  lock'[x] = c \/ sess[x].status = "live"
    BY DEF ReferencesHold, WritesRow
  <2>1. c \in Backends
    BY DEF Inv, TypeOK
  <2>2. lock[x] = c \/ sess[x].status = "live"
    BY DEF Inv, LockDiscipline, ReferencesHold
  <2> QED BY <1>0, <1>1, <2>1, <2>2, SessionStoreAssumption DEF WritesRow
<1>5. DropsAreComplete'
  <2> SUFFICES ASSUME NEW x \in Sessions, NEW c \in Backends,
                      lock'[x] = c, newv'[x].status = "dead"
               PROVE  /\ share'[x] \subseteq {c}
                      /\ \/ pc'[c] \in {"cascade", "expire"}
                         \/ pc'[c] = "cascading" /\ History(Visible(c)', x) \subseteq todo'[c]
                         \/ pc'[c] # "cascading" /\ History(Visible(c)', x) = {}
    BY DEF DropsAreComplete
  <2>1. \A d \in Backends : Visible(d)' = Visible(d)
    BY DEF Visible, msgVars, WritesRow
  <2>2. CASE x = s
    BY <1>0, <2>2, SessionStoreAssumption DEF WritesRow, KeepsRow, DeletesRow
  <2>3. CASE x # s
    <3>1. /\ share[x] \subseteq {c}
          /\ \/ pc[c] \in {"cascade", "expire"}
             \/ pc[c] = "cascading" /\ History(Visible(c), x) \subseteq todo[c]
             \/ pc[c] # "cascading" /\ History(Visible(c), x) = {}
      BY <1>1, <2>3 DEF Inv, LockDiscipline, DropsAreComplete, WritesRow
    <3>2. CASE c # b
      BY <2>1, <3>1, <3>2 DEF WritesRow
    <3>3. CASE c = b
      BY <2>1, <3>1, <3>3 DEF WritesRow, KeepsRow, DeletesRow
    <3> QED BY <3>2, <3>3
  <2> QED BY <2>2, <2>3
<1> QED BY <1>2, <1>3, <1>4, <1>5 DEF Inv, LockDiscipline

LEMMA RowStatementKeepsInv ==
  ASSUME Inv, NEW b \in Backends,
         \/ TouchSession(b)
         \/ SetMaxMessages(b)
         \/ SetState(b)
         \/ DropSession(b)
         \/ \E s \in expired[b] : ExpireSession(b, s)
  PROVE  Inv'
<1> DEFINE sid == args[b].sid
<1>0. TypeOK /\ TypeOK' /\ sid \in Sessions
  BY RowStatementType DEF Inv, TypeOK, Args
<1>1. \A s \in Sessions : RowWriter(b, s) = {} => lock[s] \in {NoBackend, b}
  BY DEF RowWriter
<1>2. \A s \in Sessions : RowUsers(b, s) = {} =>
          lock[s] \in {NoBackend, b} /\ share[s] \subseteq {b}
  BY DEF RowUsers, RowWriter
<1>3. \A s \in Sessions : Found(b, s) <=> View(b, s).status = "live"
  BY DEF Found
<1>4. \A s \in Sessions : View(b, s) \in Row
  BY <1>0, ViewType
(* An UPDATE keeps the status of the row it finds. *)
<1>5. ASSUME NEW s \in Sessions, NEW new, NEW statement \in {"open", "insert", "trim"},
             lock[s] \in {NoBackend, b}, Found(b, s) => new.status = "live",
             UpdateRow(b, s, new), pc[b] \in {"touch", "update"},
             pc' = [pc EXCEPT ![b] = statement],
             UNCHANGED <<sess, share, msgVars, todo>>
      PROVE  Inv'
  <2>1. pc'[b] = statement /\ \A c \in Backends \ {b} : pc'[c] = pc[c]
    BY <1>0, <1>5 DEF TypeOK
  <2>2. CASE Found(b, s)
    <3>1. WritesRow(b, s, new) /\ KeepsRow(b, new)
      BY <1>5, <2>1, <2>2 DEF UpdateRow, WritesRow, KeepsRow
    <3> QED BY <1>0, <3>1, RowStep
  <2>3. CASE ~Found(b, s)
    BY <1>0, <1>5, <2>1, <2>3, QuietStep DEF UpdateRow, rowVars
  <2> QED BY <2>2, <2>3
<1>6. CASE TouchSession(b)
  <2>1. Found(b, sid) => [View(b, sid) EXCEPT !.active = start[b]].status = "live"
    BY <1>0, <1>3, <1>4 DEF Row
  <2> QED BY <1>0, <1>1, <1>5, <1>6, <2>1 DEF TouchSession, TouchWaits, Return, GoTo
<1>7. CASE SetMaxMessages(b)
  <2>1. Found(b, sid) => [View(b, sid) EXCEPT !.cap = args[b].cap].status = "live"
    BY <1>0, <1>3, <1>4 DEF Row
  <2> QED BY <1>0, <1>1, <1>5, <1>7, <2>1 DEF SetMaxMessages, GoTo
<1>8. CASE SetState(b)
  <2>1. Found(b, sid) => [View(b, sid) EXCEPT !.active = start[b]].status = "live"
    BY <1>0, <1>3, <1>4 DEF Row
  <2> QED BY <1>0, <1>1, <1>5, <1>8, <2>1 DEF SetState, Return, GoTo
(* A DELETE marks the row it finds dead. *)
<1>9. ASSUME NEW s \in Sessions, NEW statement \in {"cascade", "expire"},
             RowUsers(b, s) = {}, pc' = [pc EXCEPT ![b] = statement],
             \/ UpdateRow(b, s, [View(b, s) EXCEPT !.status = "dead"])
             \/ UNCHANGED <<newv, lock>>,
             UNCHANGED <<sess, share, msgVars, todo>>
      PROVE  Inv'
  <2>1. pc'[b] = statement /\ \A c \in Backends \ {b} : pc'[c] = pc[c]
    BY <1>0, <1>9 DEF TypeOK
  <2>2. CASE UNCHANGED <<newv, lock>>
    BY <1>0, <1>9, <2>1, <2>2, QuietStep DEF rowVars
  <2>3. CASE ~UNCHANGED <<newv, lock>>
    <3>1. [View(b, s) EXCEPT !.status = "dead"].status = "dead"
      BY <1>4 DEF Row
    <3>2. PICK new : /\ Found(b, s) /\ new.status = "dead"
                     /\ newv' = [newv EXCEPT ![s] = new] /\ lock' = [lock EXCEPT ![s] = b]
      BY <1>9, <2>3, <3>1 DEF UpdateRow
    <3>3. WritesRow(b, s, new) /\ DeletesRow(b, s, new)
      BY <1>2, <1>9, <2>1, <3>2 DEF WritesRow, DeletesRow
    <3> QED BY <1>0, <3>3, RowStep
  <2> QED BY <2>2, <2>3
<1>10. CASE DropSession(b)
  BY <1>0, <1>9, <1>10 DEF DropSession, GoTo
<1>11. ASSUME NEW s \in expired[b], ExpireSession(b, s)
       PROVE  Inv'
  <2>1. s \in Sessions
    BY <1>0 DEF TypeOK
  <2> QED BY <1>9, <1>11, <2>1 DEF ExpireSession, GoTo
<1> QED BY <1>6, <1>7, <1>8, <1>10, <1>11

LEMMA NextKeepsInv ==
  ASSUME Inv, [Next]_vars
  PROVE  Inv'
<1>0. TypeOK'
  BY NextType DEF Inv
<1>1. CASE Tick \/ UNCHANGED vars
  <2>1. UNCHANGED <<sess, newv, lock, share, msgs, ins, del, pc, todo>>
    BY <1>1 DEF Tick, vars, rowVars, msgVars
  <2>2. NoOrphans' /\ RowVersions' /\ InsertsReference' /\ ReferencesHold'
    BY <2>1 DEF Inv, LockDiscipline, NoOrphans, RowVersions, InsertsReference, ReferencesHold
  <2>3. DropsAreComplete'
    BY <2>1 DEF Inv, LockDiscipline, DropsAreComplete, History, Visible
  <2> QED BY <1>0, <2>2, <2>3 DEF Inv, LockDiscipline
<1>2. ASSUME NEW b \in Backends, Statement(b)
      PROVE  Inv'
  <2>1. CASE SessionVanished(b) \/ NegativeCap(b)
    BY <2>1, RollbackKeepsInv DEF SessionVanished, NegativeCap
  <2> QED BY <1>2, <2>1, InsertKeepsInv, BeginDeleteKeepsInv, DeleteMessageKeepsInv,
             RowStatementKeepsInv DEF Statement
<1>3. ASSUME NEW b \in Backends, Call(b) \/ Commit(b) \/ Fail(b) \/ DeadlockAbort(b)
      PROVE  Inv'
  BY <1>3, CallKeepsInv, CommitKeepsInv, RollbackKeepsInv DEF Fail, DeadlockAbort
<1> QED BY <1>1, <1>2, <1>3 DEF Next

LEMMA InitInv == Init => Inv
<1>1. Init => NoOrphans /\ LockDiscipline
  BY SessionStoreAssumption
     DEF Init, NoOrphans, LockDiscipline, RowVersions, InsertsReference,
         ReferencesHold, DropsAreComplete
<1> QED BY <1>1, InitType DEF Inv

(* The row locks outlast every interleaving of the session functions.      *)
THEOREM LocksHold == Spec => []LockDiscipline
<1>1. Init => Inv
  BY InitInv
<1>2. Inv /\ [Next]_vars => Inv'
  BY NextKeepsInv
<1>3. Inv => LockDiscipline
  BY DEF Inv
<1> QED BY <1>1, <1>2, <1>3, PTL DEF Spec

(* No message outlives its session, whatever chats, deletions, cleanups,   *)
(* errors and rollbacks interleave (append_session_message,                *)
(* delete_session_internal, cleanup_sessions_internal).                    *)
THEOREM NoMessageOutlivesItsSession == Spec => []NoOrphans
<1>1. Init => Inv
  BY InitInv
<1>2. Inv /\ [Next]_vars => Inv'
  BY NextKeepsInv
<1>3. Inv => NoOrphans
  BY DEF Inv
<1> QED BY <1>1, <1>2, <1>3, PTL DEF Spec
=============================================================================
