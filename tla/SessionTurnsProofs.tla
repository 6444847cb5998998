------------------------- MODULE SessionTurnsProofs -------------------------
(***************************************************************************)
(* Further proofs about SessionStore: what calls hold while they wait, and *)
(* what a session keeps of its turns.                                      *)
(***************************************************************************)
EXTENDS SessionStoreProofs, FiniteSetTheorems

(* What a step of b leaves alone: the state of the other backends, their   *)
(* locks, and the rows they have locked.                                   *)
LeavesOthers(b) ==
  \A c \in Backends \ {b} :
    /\ pc'[c] = pc[c] /\ args'[c] = args[c] /\ calls'[c] = calls[c]
    /\ todo'[c] = todo[c] /\ ins'[c] = ins[c] /\ del'[c] = del[c]
    /\ \A s \in Sessions :
         /\ lock'[s] = c <=> lock[s] = c
         /\ c \in share'[s] <=> c \in share[s]
         /\ lock[s] = c => newv'[s] = newv[s] /\ sess'[s] = sess[s] /\ given'[s] = given[s]

LEMMA EndLeavesOthers ==
  ASSUME TypeOK, NEW b \in Backends, Commit(b) \/ Rollback(b)
  PROVE  LeavesOthers(b)
<1> SUFFICES ASSUME NEW c \in Backends \ {b}
             PROVE  /\ pc'[c] = pc[c] /\ args'[c] = args[c] /\ calls'[c] = calls[c]
                    /\ todo'[c] = todo[c] /\ ins'[c] = ins[c] /\ del'[c] = del[c]
                    /\ \A s \in Sessions :
                         /\ lock'[s] = c <=> lock[s] = c
                         /\ c \in share'[s] <=> c \in share[s]
                         /\ lock[s] = c => /\ newv'[s] = newv[s] /\ sess'[s] = sess[s]
                                           /\ given'[s] = given[s]
  BY DEF LeavesOthers
<1>1. EndTransaction(b)
  BY DEF Commit, Rollback
<1>2. /\ pc'[c] = pc[c] /\ args'[c] = args[c] /\ calls'[c] = calls[c]
      /\ todo'[c] = todo[c] /\ ins'[c] = ins[c] /\ del'[c] = del[c]
  BY <1>1 DEF EndTransaction, GoTo, TypeOK
<1>3. \A s \in Sessions : /\ lock'[s] = c <=> lock[s] = c
                          /\ c \in share'[s] <=> c \in share[s]
                          /\ lock[s] = c => given'[s] = given[s]
  BY <1>1, SessionStoreAssumption DEF EndTransaction, TypeOK
<1>4. \A s \in Sessions : lock[s] = c => newv'[s] = newv[s] /\ sess'[s] = sess[s]
  BY DEF Commit, Rollback, View, TypeOK
<1> QED BY <1>2, <1>3, <1>4

LEMMA UpdateLeavesOthers ==
  ASSUME TypeOK, NEW b \in Backends, NEW s \in Sessions, NEW new,
         lock[s] \in {NoBackend, b}, UpdateRow(b, s, new), UNCHANGED <<sess, share>>,
         \A x \in Sessions : given'[x] = given[x] \/ x = s
  PROVE  \A c \in Backends \ {b}, x \in Sessions :
           /\ lock'[x] = c <=> lock[x] = c
           /\ c \in share'[x] <=> c \in share[x]
           /\ lock[x] = c => newv'[x] = newv[x] /\ sess'[x] = sess[x] /\ given'[x] = given[x]
BY SessionStoreAssumption DEF UpdateRow, TypeOK

LEMMA CallLeavesOthers ==
  ASSUME TypeOK, NEW b \in Backends, Call(b)
  PROVE  LeavesOthers(b)
<1>1. ASSUME NEW s \in Sessions, NEW cap \in Caps, CreateSession(b, s, cap)
      PROVE  LeavesOthers(b)
  BY <1>1, SessionStoreAssumption DEF CreateSession, Enter, GoTo, TypeOK, LeavesOthers, msgVars
<1>2. ASSUME NEW s \in Sessions, NEW cap \in Caps, StartSetMax(b, s, cap)
      PROVE  LeavesOthers(b)
  BY <1>2 DEF StartSetMax, Enter, GoTo, TypeOK, LeavesOthers, msgVars, rowVars, capVars
<1>3. ASSUME NEW s \in Sessions, StartChat(b, s)
      PROVE  LeavesOthers(b)
  BY <1>3 DEF StartChat, Enter, GoTo, TypeOK, LeavesOthers, msgVars, rowVars, capVars
<1>4. ASSUME NEW s \in Sessions, StartSetState(b, s)
      PROVE  LeavesOthers(b)
  BY <1>4 DEF StartSetState, Enter, GoTo, TypeOK, LeavesOthers, msgVars, rowVars, capVars
<1>5. ASSUME NEW s \in Sessions, StartDelete(b, s)
      PROVE  LeavesOthers(b)
  BY <1>5 DEF StartDelete, Enter, GoTo, TypeOK, LeavesOthers, msgVars, rowVars, capVars
<1>6. ASSUME NEW t \in Timeouts, StartCleanup(b, t)
      PROVE  LeavesOthers(b)
  BY <1>6 DEF StartCleanup, Enter, GoTo, TypeOK, LeavesOthers, msgVars, rowVars, capVars
<1> QED BY <1>1, <1>2, <1>3, <1>4, <1>5, <1>6 DEF Call

LEMMA StatementLeavesOthers ==
  ASSUME TypeOK, NEW b \in Backends, Statement(b)
  PROVE  LeavesOthers(b)
<1> DEFINE sid == args[b].sid
<1>1. sid \in Sessions
  BY DEF TypeOK, Args
<1>2. \A s \in Sessions : RowWriter(b, s) = {} \/ RowUsers(b, s) = {} => lock[s] \in {NoBackend, b}
  BY DEF RowWriter, RowUsers
<1>3. CASE SessionVanished(b) \/ NegativeCap(b)
  BY <1>3, EndLeavesOthers DEF SessionVanished, NegativeCap
<1>4. CASE InsertMessage(b)
  BY <1>1, <1>4 DEF InsertMessage, ReferenceSession, GoTo, TypeOK, LeavesOthers, txnVars, capVars
<1>5. CASE BeginTrim(b) \/ BeginWipe(b) \/ BeginCascade(b)
  <2>1. PICK phase, rows : BeginDelete(b, phase, rows)
    BY <1>5 DEF BeginTrim, BeginWipe, BeginCascade
  <2> QED BY <2>1 DEF BeginDelete, Return, GoTo, TypeOK, LeavesOthers, rowVars, msgVars, txnVars, capVars
<1>6. ASSUME NEW m \in todo[b], DeleteMessage(b, m)
      PROVE  LeavesOthers(b)
  BY <1>6 DEF DeleteMessage, Return, GoTo, TypeOK, LeavesOthers, rowVars, txnVars, capVars
<1>7. CASE TouchSession(b)
  <2>1. /\ lock[sid] \in {NoBackend, b} /\ UNCHANGED <<sess, share, given>>
        /\ UpdateRow(b, sid, [View(b, sid) EXCEPT !.active = start[b]])
    BY <1>1, <1>2, <1>7 DEF TouchSession, TouchWaits, capVars
  <2> QED BY <1>1, <1>7, <2>1, UpdateLeavesOthers
          DEF TouchSession, Return, GoTo, TypeOK, LeavesOthers, msgVars, txnVars
<1>8. CASE SetMaxMessages(b)
  <2>1. /\ lock[sid] \in {NoBackend, b} /\ UNCHANGED <<sess, share>>
        /\ UpdateRow(b, sid, [View(b, sid) EXCEPT !.cap = args[b].cap])
    BY <1>1, <1>2, <1>8 DEF SetMaxMessages
  <2>2. \A x \in Sessions : given'[x] = given[x] \/ x = sid
    BY <1>8 DEF SetMaxMessages, TypeOK
  <2> QED BY <1>1, <1>8, <2>1, <2>2, UpdateLeavesOthers
          DEF SetMaxMessages, GoTo, TypeOK, LeavesOthers, msgVars, txnVars
<1>9. CASE SetState(b)
  <2>1. /\ lock[sid] \in {NoBackend, b} /\ UNCHANGED <<sess, share, given>>
        /\ UpdateRow(b, sid, [View(b, sid) EXCEPT !.active = start[b]])
    BY <1>1, <1>2, <1>9 DEF SetState, capVars
  <2> QED BY <1>1, <1>9, <2>1, UpdateLeavesOthers
          DEF SetState, Return, GoTo, TypeOK, LeavesOthers, msgVars, txnVars
<1>10. CASE DropSession(b)
  <2>1. /\ lock[sid] \in {NoBackend, b} /\ UNCHANGED <<sess, share, given>>
        /\ UpdateRow(b, sid, [View(b, sid) EXCEPT !.status = "dead"])
    BY <1>1, <1>2, <1>10 DEF DropSession, capVars
  <2> QED BY <1>1, <1>10, <2>1, UpdateLeavesOthers
          DEF DropSession, GoTo, TypeOK, LeavesOthers, msgVars, txnVars
<1>11. ASSUME NEW s \in expired[b], ExpireSession(b, s)
       PROVE  LeavesOthers(b)
  <2>1. s \in Sessions
    BY DEF TypeOK
  <2>2. /\ lock[s] \in {NoBackend, b} /\ UNCHANGED <<sess, share, given>>
        /\ \/ UpdateRow(b, s, [View(b, s) EXCEPT !.status = "dead"])
           \/ UNCHANGED <<newv, lock>>
    BY <1>2, <1>11, <2>1 DEF ExpireSession, capVars
  <2>3. \A c \in Backends \ {b}, x \in Sessions :
           /\ lock'[x] = c <=> lock[x] = c
           /\ c \in share'[x] <=> c \in share[x]
           /\ lock[x] = c => newv'[x] = newv[x] /\ sess'[x] = sess[x] /\ given'[x] = given[x]
    BY <2>1, <2>2, UpdateLeavesOthers
  <2> QED BY <1>11, <2>3 DEF ExpireSession, GoTo, TypeOK, LeavesOthers, msgVars, txnVars
<1> QED BY <1>3, <1>4, <1>5, <1>6, <1>7, <1>8, <1>9, <1>10, <1>11 DEF Statement
-----------------------------------------------------------------------------
(* What a call holds before each of its statements.                        *)

HoldsNothing(b) == \A s \in Sessions : lock[s] # b /\ b \notin share[s]

(* The statements that finish the append of a chat.                        *)
Appending(b) ==
  pc[b] = "touch" \/ (pc[b] \in {"trim", "trimming"} /\ args[b].op = "chat")

Holdings(b) ==
  LET s == args[b].sid IN
  /\ calls[b] = 0 => pc[b] = "idle" /\ HoldsNothing(b)
  /\ Appending(b) => b \in share[s] /\ args[b].turn # 0
  /\ pc[b] = "insert" /\ args[b].turn # 0 => lock[s] = b
  /\ calls[b] = 1 =>
       /\ \/ pc[b] \in {"update", "wipe", "wiping", "drop"}
          \/ pc[b] = "insert" /\ args[b].turn = 0
          => HoldsNothing(b)
       /\ pc[b] = "insert" \/ Appending(b)
          => \A x \in Sessions : lock[x] = b => x = s

CallHoldings == nextId > 0 /\ \A b \in Backends : Holdings(b)

LEMMA OthersKeepHoldings ==
  ASSUME TypeOK, NEW b \in Backends, LeavesOthers(b), NEW c \in Backends \ {b}, Holdings(c)
  PROVE  Holdings(c)'
<1>1. args[c].sid \in Sessions
  BY DEF TypeOK, Args
<1>2. /\ pc'[c] = pc[c] /\ args'[c] = args[c] /\ calls'[c] = calls[c]
      /\ \A s \in Sessions : /\ lock'[s] = c <=> lock[s] = c
                             /\ c \in share'[s] <=> c \in share[s]
  BY DEF LeavesOthers
<1> QED BY <1>1, <1>2 DEF Holdings, HoldsNothing, Appending

LEMMA CallKeepsHoldings ==
  ASSUME TypeOK, NEW b \in Backends, Holdings(b), Call(b)
  PROVE  Holdings(b)'
<1>1. calls[b] \in Nat /\ args[b].turn \in Nat
  BY DEF TypeOK, Args
<1>2. ASSUME NEW op, Enter(b, op)
      PROVE  calls'[b] # 0 /\ (calls'[b] = 1 => HoldsNothing(b))
  BY <1>1, <1>2 DEF Enter, Holdings, TypeOK
<1>3. ASSUME NEW s \in Sessions, NEW cap \in Caps, CreateSession(b, s, cap)
      PROVE  Holdings(b)'
  <2>1. pc'[b] = "open" /\ calls'[b] # 0
    BY <1>2, <1>3 DEF CreateSession, GoTo, TypeOK
  <2> QED BY <2>1 DEF Holdings, Appending
<1>4. ASSUME NEW op, NEW statement \in {"insert", "update", "wipe", "expire"}, Enter(b, op),
             pc'[b] = statement, args'[b].turn = 0, UNCHANGED <<lock, share>>
      PROVE  Holdings(b)'
  BY <1>2, <1>4 DEF Holdings, Appending, HoldsNothing
<1>5. ASSUME NEW s \in Sessions, NEW cap \in Caps, StartSetMax(b, s, cap)
      PROVE  Holdings(b)'
  BY <1>4, <1>5 DEF StartSetMax, GoTo, TypeOK, NoArgs, rowVars
<1>6. ASSUME NEW s \in Sessions, StartChat(b, s)
      PROVE  Holdings(b)'
  BY <1>4, <1>6 DEF StartChat, GoTo, TypeOK, NoArgs, rowVars
<1>7. ASSUME NEW s \in Sessions, StartSetState(b, s)
      PROVE  Holdings(b)'
  BY <1>4, <1>7 DEF StartSetState, GoTo, TypeOK, NoArgs, rowVars
<1>8. ASSUME NEW s \in Sessions, StartDelete(b, s)
      PROVE  Holdings(b)'
  BY <1>4, <1>8 DEF StartDelete, GoTo, TypeOK, NoArgs, rowVars
<1>9. ASSUME NEW t \in Timeouts, StartCleanup(b, t)
      PROVE  Holdings(b)'
  BY <1>4, <1>9 DEF StartCleanup, GoTo, TypeOK, NoArgs, rowVars
<1> QED BY <1>3, <1>5, <1>6, <1>7, <1>8, <1>9 DEF Call

LEMMA EndKeepsHoldings ==
  ASSUME TypeOK, NEW b \in Backends, EndTransaction(b)
  PROVE  Holdings(b)'
<1>1. pc'[b] = "idle" /\ args'[b].turn = 0 /\ calls'[b] = 0
  BY DEF EndTransaction, GoTo, NoArgs, TypeOK
<1>2. \A x \in Sessions : lock'[x] # b /\ b \notin share'[x]
  BY SessionStoreAssumption DEF EndTransaction, TypeOK
<1> QED BY <1>1, <1>2 DEF Holdings, HoldsNothing, Appending

LEMMA StatementKeepsHoldings ==
  ASSUME Inv, NEW b \in Backends, Holdings(b), nextId > 0, Statement(b)
  PROVE  Holdings(b)'
<1> DEFINE s == args[b].sid
<1>0. TypeOK /\ s \in Sessions /\ args[b].turn \in Nat /\ nextId \in Nat
  BY DEF Inv, TypeOK, Args
<1>1. CASE SessionVanished(b) \/ NegativeCap(b)
  BY <1>0, <1>1, EndKeepsHoldings DEF SessionVanished, NegativeCap, Rollback
<1>2. CASE InsertMessage(b)
  <2>1. pc[b] = "insert" /\ pc'[b] = "trim" /\ UNCHANGED <<lock, calls>>
    BY <1>0, <1>2 DEF InsertMessage, GoTo, txnVars, TypeOK
  <2>2. args'[b] = [args[b] EXCEPT !.turn = IF args[b].turn = 0 THEN nextId ELSE args[b].turn]
    BY <1>0, <1>2 DEF InsertMessage, TypeOK
  <2>3. args'[b].sid = s /\ args'[b].turn # 0
    BY <1>0, <2>2 DEF TypeOK, Args
  <2>4. b \in share'[s]
    BY <1>0, <1>2 DEF InsertMessage, ReferenceSession, TypeOK
  <2> QED BY <2>1, <2>3, <2>4 DEF Holdings, Appending
<1>3. ASSUME pc[b] \in {"trim", "trimming", "wipe", "wiping", "cascade", "cascading"},
             NEW phase \in {"trimming", "wiping", "cascading"},
             pc[b] \in {"trim", "trimming"} <=> phase = "trimming",
             pc[b] \in {"wipe", "wiping"} <=> phase = "wiping",
             NEW statement \in {phase, After(b, phase)},
             Return(b, statement), UNCHANGED <<lock, share, calls>>
      PROVE  Holdings(b)'
  <2>1. pc'[b] = statement /\ (statement # "open" => args' = args)
    BY <1>0, <1>3 DEF Return, GoTo, TypeOK
  <2>2. calls[b] # 0
    BY <1>3 DEF Holdings
  <2>3. statement \in {"trimming", "touch"} => pc[b] \in {"trim", "trimming"}
    BY <1>3 DEF After
  <2>4. statement = "touch" => args[b].op = "chat"
    BY <1>3 DEF After
  <2>5. statement \in {"wiping", "drop"} => pc[b] \in {"wipe", "wiping"}
    BY <1>3 DEF After
  <2>6. statement \in {"trimming", "wiping", "cascading", "touch", "drop", "open"}
    BY <1>3, AfterType
  <2> QED BY <1>3, <2>1, <2>2, <2>3, <2>4, <2>5, <2>6 DEF Holdings, Appending, HoldsNothing
<1>4. CASE BeginTrim(b)
  BY <1>3, <1>4 DEF BeginTrim, BeginDelete, rowVars, txnVars
<1>5. CASE BeginWipe(b)
  BY <1>3, <1>5 DEF BeginWipe, BeginDelete, rowVars, txnVars
<1>6. CASE BeginCascade(b)
  BY <1>3, <1>6 DEF BeginCascade, BeginDelete, rowVars, txnVars
<1>7. ASSUME NEW m \in todo[b], DeleteMessage(b, m)
      PROVE  Holdings(b)'
  BY <1>3, <1>7 DEF DeleteMessage, rowVars, txnVars
(* The question's sender has locked the row when it goes on to the answer. *)
<1>8. CASE TouchSession(b)
  <2>1. PICK statement \in {"open", "insert"} : Return(b, statement)
    BY <1>8 DEF TouchSession
  <2>2. /\ pc[b] = "touch" /\ UNCHANGED <<share, calls>> /\ pc'[b] = statement
        /\ statement = "insert" => args' = args
    BY <1>0, <1>8, <2>1 DEF TouchSession, Return, GoTo, txnVars, TypeOK
  <2>3. b \in share[s] /\ args[b].turn # 0 /\ calls[b] # 0
    BY <2>2 DEF Holdings, Appending
  <2>4. lock[s] = b \/ sess[s].status = "live"
    BY <1>0, <2>3 DEF Inv, LockDiscipline, ReferencesHold
  <2>5. lock[s] = b \/ Found(b, s)
    BY <2>4 DEF Found, View
  <2>6. /\ lock'[s] = b
        /\ \A x \in Sessions \ {s} : lock'[x] = lock[x]
    BY <1>0, <1>8, <2>5 DEF TouchSession, UpdateRow, TypeOK
  <2> QED BY <1>0, <2>2, <2>3, <2>6 DEF Holdings, Appending
<1>9. ASSUME pc[b] # "idle", UNCHANGED calls, pc'[b] \in {"open", "cascade", "expire", "trim"},
             pc'[b] = "trim" => args'[b].op # "chat"
      PROVE  Holdings(b)'
  BY <1>9 DEF Holdings, Appending
<1>10. CASE SetMaxMessages(b)
  BY <1>0, <1>9, <1>10 DEF SetMaxMessages, GoTo, txnVars, TypeOK
<1>11. CASE SetState(b)
  BY <1>0, <1>9, <1>11 DEF SetState, Return, GoTo, txnVars, TypeOK
<1>12. CASE DropSession(b)
  BY <1>0, <1>9, <1>12 DEF DropSession, GoTo, txnVars, TypeOK
<1>13. ASSUME NEW x \in expired[b], ExpireSession(b, x)
       PROVE  Holdings(b)'
  BY <1>0, <1>9, <1>13 DEF ExpireSession, GoTo, txnVars, TypeOK
<1> QED BY <1>1, <1>2, <1>4, <1>5, <1>6, <1>7, <1>8, <1>10, <1>11, <1>12, <1>13 DEF Statement

(* Only an INSERT draws from the sequence.                                 *)
LEMMA IdsAreDrawn ==
  ASSUME NEW b \in Backends,
         Call(b) \/ Statement(b) \/ Commit(b) \/ Fail(b) \/ DeadlockAbort(b)
  PROVE  nextId' = nextId \/ (InsertMessage(b) /\ nextId' = nextId + 1)
<1>1. CASE Call(b)
  BY <1>1 DEF Call, CreateSession, StartSetMax, StartChat, StartSetState, StartDelete,
              StartCleanup, msgVars
<1>2. CASE Statement(b)
  BY <1>2 DEF Statement, InsertMessage, SessionVanished, NegativeCap, Rollback, EndTransaction,
              BeginTrim, BeginWipe, BeginCascade, BeginDelete, DeleteMessage, TouchSession,
              SetMaxMessages, SetState, DropSession, ExpireSession, msgVars
<1>3. CASE Commit(b) \/ Fail(b) \/ DeadlockAbort(b)
  BY <1>3 DEF Commit, Fail, DeadlockAbort, Rollback, EndTransaction
<1> QED BY <1>1, <1>2, <1>3

LEMMA NextLeavesOthers ==
  ASSUME TypeOK, NEW b \in Backends,
         Call(b) \/ Statement(b) \/ Commit(b) \/ Fail(b) \/ DeadlockAbort(b)
  PROVE  LeavesOthers(b)
BY CallLeavesOthers, StatementLeavesOthers, EndLeavesOthers DEF Fail, DeadlockAbort

LEMMA NextKeepsHoldings ==
  ASSUME Inv, CallHoldings, [Next]_vars
  PROVE  CallHoldings'
<1>0. TypeOK /\ nextId \in Nat
  BY DEF Inv, TypeOK
<1>1. CASE Tick \/ UNCHANGED vars
  <2>1. UNCHANGED <<calls, pc, lock, share, args, nextId>>
    BY <1>1 DEF Tick, vars, rowVars, msgVars
  <2> QED BY <2>1 DEF CallHoldings, Holdings, HoldsNothing, Appending
<1>2. ASSUME NEW b \in Backends,
             Call(b) \/ Statement(b) \/ Commit(b) \/ Fail(b) \/ DeadlockAbort(b)
      PROVE  CallHoldings'
  <2>1. nextId' > 0
    BY <1>0, <1>2, IdsAreDrawn DEF CallHoldings
  <2>2. Holdings(b)'
    BY <1>0, <1>2, CallKeepsHoldings, StatementKeepsHoldings, EndKeepsHoldings
       DEF CallHoldings, Commit, Fail, DeadlockAbort, Rollback
  <2>3. \A c \in Backends \ {b} : Holdings(c)'
    BY <1>0, <1>2, NextLeavesOthers, OthersKeepHoldings DEF CallHoldings
  <2> QED BY <2>1, <2>2, <2>3 DEF CallHoldings
<1> QED BY <1>1, <1>2 DEF Next

LEMMA InitHoldings == Init => CallHoldings
<1>1. ASSUME Init, NEW b \in Backends
      PROVE  Holdings(b)
  <2>1. calls[b] = 0 /\ pc[b] = "idle"
    BY <1>1 DEF Init
  <2>2. HoldsNothing(b)
    BY <1>1, SessionStoreAssumption DEF Init, HoldsNothing
  <2> QED BY <2>1, <2>2 DEF Holdings, Appending
<1>2. Init => nextId > 0
  BY DEF Init
<1> QED BY <1>1, <1>2 DEF CallHoldings

(* A first call that waits holds at most the row it appends to, so calls   *)
(* that wait for one row only cannot wait for each other.                  *)
LEMMA HoldingsBreakCycles ==
  ASSUME TypeOK, CallHoldings
  PROVE  CyclesGoThroughDeletedRows
<1> SUFFICES ASSUME NEW C \in SUBSET Backends, WaitCycle(C), \A b \in C : calls[b] = 1,
                    \A b \in C : pc[b] \notin {"trimming", "wiping", "cascading", "expire"}
             PROVE  FALSE
  BY DEF CyclesGoThroughDeletedRows
<1>1. \A b \in C : args[b].sid \in Sessions /\ Holdings(b)
  BY DEF CallHoldings, TypeOK, Args
<1>2. ASSUME NEW b \in C
      PROVE  /\ pc[b] \in {"insert", "touch", "update", "drop"}
             /\ Blockers(b) \subseteq RowUsers(b, args[b].sid)
             /\ pc[b] # "drop" => Blockers(b) \subseteq {lock[args[b].sid]} \ {b}
  <2>1. Blockers(b) # {}
    BY <1>2 DEF WaitCycle
  <2>2. pc[b] \in {"insert", "touch", "update", "drop"}
    BY <1>2, <2>1 DEF Blockers
  <2> QED BY <2>2 DEF Blockers, RowDeleter, BeingDropped, TouchWaits, RowWriter, RowUsers
<1>3. \A b \in C : pc[b] \in {"insert", "touch"} /\ (pc[b] = "insert" => args[b].turn # 0)
  <2> SUFFICES ASSUME NEW b \in C, HoldsNothing(b)
               PROVE  FALSE
    BY <1>1, <1>2 DEF Holdings
  <2>1. PICK c \in C : b \in Blockers(c)
    BY DEF WaitCycle
  <2>2. b \in RowUsers(c, args[c].sid)
    BY <1>2, <2>1
  <2> QED BY <1>1, <2>2 DEF HoldsNothing, RowUsers, RowWriter
<1>4. PICK b \in C : TRUE
  BY DEF WaitCycle
<1>5. PICK c \in C : b \in Blockers(c)
  BY DEF WaitCycle
<1>6. lock[args[c].sid] = b /\ Blockers(b) # {}
  BY <1>2, <1>3, <1>5 DEF WaitCycle
<1>7. args[c].sid = args[b].sid
  BY <1>1, <1>3, <1>6 DEF Holdings, Appending
<1> QED BY <1>2, <1>3, <1>6, <1>7

(* First calls deadlock only over rows a DELETE visits one by one.         *)
THEOREM RowLocksAloneDoNotDeadlock == Spec => []CyclesGoThroughDeletedRows
<1>1. Init => Inv /\ CallHoldings
  BY InitInv, InitHoldings
<1>2. Inv /\ CallHoldings /\ [Next]_vars => Inv' /\ CallHoldings'
  BY NextKeepsInv, NextKeepsHoldings
<1>3. Inv /\ CallHoldings => CyclesGoThroughDeletedRows
  BY HoldingsBreakCycles DEF Inv
<1> QED BY <1>1, <1>2, <1>3, PTL DEF Spec

-----------------------------------------------------------------------------
(* What the first cleanup of a transaction has deleted so far was idle.    *)

Cleaning(b) ==
  args[b].op = "cleanup" =>
    /\ pc[b] \in {"expire", "cascade", "cascading"}
    /\ calls[b] = 1 => \A s \in Sessions : lock[s] = b =>
         /\ newv[s].status = "dead"
         /\ sess[s].status = "live" => sess[s].active < args[b].cutoff

CleanupHoldings == \A b \in Backends : Cleaning(b)

LEMMA CallKeepsCleaning ==
  ASSUME TypeOK, NEW b \in Backends, Cleaning(b), Holdings(b), Call(b)
  PROVE  Cleaning(b)'
<1>1. ASSUME NEW s \in Sessions, NEW cap \in Caps, CreateSession(b, s, cap)
      PROVE  Cleaning(b)'
  BY <1>1 DEF CreateSession, Enter, Working, Cleaning
<1>2. ASSUME NEW s \in Sessions,
             \/ \E cap \in Caps : StartSetMax(b, s, cap)
             \/ StartChat(b, s) \/ StartSetState(b, s) \/ StartDelete(b, s)
      PROVE  Cleaning(b)'
  <2>1. CASE \E cap \in Caps : StartSetMax(b, s, cap)
    BY <2>1 DEF StartSetMax, NoArgs, TypeOK, Cleaning
  <2>2. CASE StartChat(b, s)
    BY <2>2 DEF StartChat, NoArgs, TypeOK, Cleaning
  <2>3. CASE StartSetState(b, s)
    BY <2>3 DEF StartSetState, NoArgs, TypeOK, Cleaning
  <2>4. CASE StartDelete(b, s)
    BY <2>4 DEF StartDelete, NoArgs, TypeOK, Cleaning
  <2> QED BY <1>2, <2>1, <2>2, <2>3, <2>4
<1>3. ASSUME NEW t \in Timeouts, StartCleanup(b, t)
      PROVE  Cleaning(b)'
  <2>1. calls'[b] = calls[b] + 1 /\ calls[b] \in Nat
    BY <1>3 DEF StartCleanup, Enter, TypeOK
  <2>2. calls'[b] = 1 => HoldsNothing(b)
    BY <2>1 DEF Holdings
  <2>3. pc'[b] = "expire" /\ UNCHANGED <<lock, newv, sess>>
    BY <1>3 DEF StartCleanup, GoTo, TypeOK, rowVars
  <2> QED BY <2>2, <2>3 DEF Cleaning, HoldsNothing
<1> QED BY <1>1, <1>2, <1>3 DEF Call

LEMMA StatementKeepsCleaning ==
  ASSUME TypeOK, NEW b \in Backends, Cleaning(b), Statement(b)
  PROVE  Cleaning(b)'
<1>1. CASE pc[b] \notin {"expire", "cascade", "cascading"}
  <2>1. args[b].op # "cleanup"
    BY <1>1 DEF Cleaning
  <2>2. args'[b].op \in {args[b].op, "none"}
    <3>1. CASE InsertMessage(b)
      <4>1. args'[b] = [args[b] EXCEPT !.turn = IF args[b].turn = 0 THEN nextId ELSE args[b].turn]
        BY <3>1 DEF InsertMessage, TypeOK
      <4> QED BY <4>1 DEF TypeOK, Args
    <3>2. ASSUME NEW statement, Return(b, statement)
          PROVE  args'[b].op \in {args[b].op, "none"}
      BY <3>2 DEF Return, NoArgs, TypeOK
    <3>3. CASE SessionVanished(b) \/ NegativeCap(b)
      BY <3>3 DEF SessionVanished, NegativeCap, Rollback, EndTransaction, NoArgs, TypeOK
    <3>4. CASE BeginTrim(b) \/ BeginWipe(b) \/ BeginCascade(b)
      BY <3>2, <3>4 DEF BeginTrim, BeginWipe, BeginCascade, BeginDelete
    <3>5. CASE \E m \in todo[b] : DeleteMessage(b, m)
      BY <3>2, <3>5 DEF DeleteMessage
    <3>6. CASE TouchSession(b) \/ SetState(b)
      BY <3>2, <3>6 DEF TouchSession, SetState
    <3>7. CASE SetMaxMessages(b) \/ DropSession(b) \/ \E s \in expired[b] : ExpireSession(b, s)
      BY <3>7 DEF SetMaxMessages, DropSession, ExpireSession
    <3> QED BY <3>1, <3>3, <3>4, <3>5, <3>6, <3>7 DEF Statement
  <2> QED BY <2>1, <2>2 DEF Cleaning
<1>2. CASE pc[b] \in {"expire", "cascade", "cascading"}
  <2>1. \/ BeginCascade(b)
        \/ \E m \in todo[b] : DeleteMessage(b, m)
        \/ \E s \in expired[b] : ExpireSession(b, s)
    BY <1>2 DEF Statement, InsertMessage, SessionVanished, NegativeCap, BeginTrim, BeginWipe,
                TouchSession, SetMaxMessages, SetState, DropSession
  <2>2. ASSUME NEW statement \in {"cascading", "open"}, Return(b, statement),
               UNCHANGED <<lock, newv, sess, calls>>
        PROVE  Cleaning(b)'
    BY <2>2 DEF Cleaning, Return, GoTo, NoArgs, TypeOK
  <2>3. CASE BeginCascade(b)
    BY <2>2, <2>3 DEF BeginCascade, BeginDelete, After, rowVars, txnVars
  <2>4. ASSUME NEW m \in todo[b], DeleteMessage(b, m)
        PROVE  Cleaning(b)'
    BY <1>2, <2>2, <2>4 DEF DeleteMessage, After, rowVars, txnVars
  <2>5. ASSUME NEW s \in expired[b], ExpireSession(b, s)
        PROVE  Cleaning(b)'
    <3>1. s \in Sessions /\ View(b, s) \in Row /\ lock[s] \in {NoBackend, b}
      BY <2>5, ViewType DEF TypeOK, ExpireSession, RowUsers, RowWriter
    <3>2. /\ pc'[b] \in {"cascade", "expire"} /\ UNCHANGED <<sess, calls, args>>
      BY <2>5 DEF ExpireSession, GoTo, txnVars, TypeOK
    <3>3. CASE UNCHANGED <<newv, lock>>
      BY <3>2, <3>3 DEF Cleaning
    <3>4. CASE ~UNCHANGED <<newv, lock>>
      <4>1. StillIdle(b, s) /\ Found(b, s)
            /\ newv' = [newv EXCEPT ![s] = [View(b, s) EXCEPT !.status = "dead"]]
            /\ lock' = [lock EXCEPT ![s] = b]
        BY <2>5, <3>4 DEF ExpireSession, UpdateRow
      <4>2. newv'[s].status = "dead"
        BY <3>1, <4>1 DEF TypeOK, Row
      <4>3. args[b].op = "cleanup" /\ calls[b] = 1 => lock[s] # b
        BY <3>1, <4>1 DEF Cleaning, Found, View
      <4>4. args[b].op = "cleanup" /\ calls[b] = 1 => sess[s].active < args[b].cutoff
        BY <4>1, <4>3 DEF StillIdle, Idle, View
      <4>5. \A x \in Sessions \ {s} : lock'[x] = lock[x] /\ newv'[x] = newv[x]
        BY <4>1 DEF TypeOK
      <4> QED BY <3>1, <3>2, <4>2, <4>4, <4>5 DEF Cleaning
    <3> QED BY <3>3, <3>4
  <2> QED BY <2>1, <2>3, <2>4, <2>5
<1> QED BY <1>1, <1>2

LEMMA NextKeepsCleaning ==
  ASSUME TypeOK, CallHoldings, CleanupHoldings, [Next]_vars
  PROVE  CleanupHoldings'
<1>1. CASE Tick \/ UNCHANGED vars
  <2>1. UNCHANGED <<calls, pc, lock, args, newv, sess>>
    BY <1>1 DEF Tick, vars, rowVars
  <2> QED BY <2>1 DEF CleanupHoldings, Cleaning
<1>2. ASSUME NEW b \in Backends,
             Call(b) \/ Statement(b) \/ Commit(b) \/ Fail(b) \/ DeadlockAbort(b)
      PROVE  CleanupHoldings'
  <2>1. Commit(b) \/ Fail(b) \/ DeadlockAbort(b) => Cleaning(b)'
    BY DEF Cleaning, Commit, Fail, DeadlockAbort, Rollback, EndTransaction, NoArgs, TypeOK
  <2>2. Cleaning(b)'
    BY <1>2, <2>1, CallKeepsCleaning, StatementKeepsCleaning DEF CallHoldings, CleanupHoldings
  <2>3. \A c \in Backends \ {b} : Cleaning(c)'
    BY <1>2, NextLeavesOthers DEF LeavesOthers, CleanupHoldings, Cleaning
  <2> QED BY <2>2, <2>3 DEF CleanupHoldings
<1> QED BY <1>1, <1>2 DEF Next

(* The first cleanup of a transaction deletes no session with a committed  *)
(* activity younger than its timeout (cleanup_sessions_internal), however  *)
(* long it waits for the session's row.                                    *)
THEOREM CleanupDeletesIdleSessions == Spec => []CleanupSparesActive
<1>1. Init => Inv /\ CallHoldings /\ CleanupHoldings
  BY InitInv, InitHoldings DEF Init, CleanupHoldings, Cleaning, NoArgs
<1>2. Inv /\ CallHoldings /\ CleanupHoldings /\ [Next]_vars
        => Inv' /\ CallHoldings' /\ CleanupHoldings'
  BY NextKeepsInv, NextKeepsHoldings, NextKeepsCleaning DEF Inv
<1>3. CleanupHoldings => CleanupSparesActive
  BY DEF CleanupHoldings, Cleaning, CleanupSparesActive
<1> QED BY <1>1, <1>2, <1>3, PTL DEF Spec
-----------------------------------------------------------------------------
(* How the messages of turns are numbered and who may hold them.           *)

(* All that b works with: its own messages and those it deletes.           *)
Handled(b) == ins[b] \cup del[b] \cup todo[b]

Numbered(m) == /\ m.id < nextId /\ m.turn < nextId /\ m.turn # 0
               /\ m.role = "user" => m.turn = m.id
               /\ m.role = "assistant" => m.turn < m.id

TurnNumbers ==
  /\ nextId > 0
  /\ \A m \in msgs \cup gone : Numbered(m)
  /\ \A b \in Backends : args[b].turn < nextId /\ \A m \in Handled(b) : Numbered(m)

(* A turn belongs to one transaction until it commits.                     *)
TurnOwners ==
  \A b, c \in Backends : b # c =>
    /\ args[b].turn # 0 => args[b].turn # args[c].turn
    /\ args[b].turn # 0 => \A m \in msgs \cup gone \cup Handled(c) : m.turn # args[b].turn
    /\ \A o \in ins[b] : \A m \in msgs \cup gone \cup Handled(c) : m.turn # o.turn

(* What is being deleted was committed or is the transaction's own.        *)
DeletesKnown == \A b \in Backends : del[b] \cup todo[b] \subseteq msgs \cup gone \cup ins[b]

(* The turn in progress.                                                   *)
InTurn(b) ==
  /\ todo[b] # {} => pc[b] \in {"trimming", "wiping", "cascading"}
  /\ args[b].turn # 0 => args[b].op = "chat" /\ pc[b] \in {"insert", "trim", "trimming", "touch"}
  /\ pc[b] \in {"insert", "touch"} => args[b].op = "chat"
  /\ \A m \in ins[b] : m.turn = args[b].turn => m.sid = args[b].sid
TurnInProgress == \A b \in Backends : InTurn(b)

QuestionOf(q, a) ==
  q.role = "user" /\ a.role = "assistant" /\ q.turn = a.turn /\ q.sid = a.sid

(* Whoever deletes an answer deletes its question.                         *)
QuestionsFirst ==
  \A b \in Backends : \A a \in del[b] \cup todo[b], q \in msgs \cup ins[b] :
    QuestionOf(q, a) => q \in del[b] \cup todo[b]

(* All questions of a transaction have been answered but the last.         *)
OwnTurnsWhole ==
  \A b \in Backends : \A q \in ins[b] :
    q.role = "user" /\ q.turn # args[b].turn => \E a \in ins[b] : QuestionOf(q, a)

(* A transaction with an answer of a session holds the session's row, so   *)
(* no later answer is committed before it.                                 *)
AnswersLock ==
  \A b \in Backends : \A a \in ins[b] : a.role = "assistant" =>
    /\ lock[a.sid] = b
    /\ \A o \in msgs : o.role = "assistant" /\ o.sid = a.sid => o.id < a.id

Finite == IsFiniteSet(msgs) /\ \A b \in Backends : IsFiniteSet(ins[b])


Bookkeeping == TurnNumbers /\ TurnOwners /\ DeletesKnown /\ TurnInProgress /\ Finite

(* What a step of b does to messages unless it inserts one: it goes on with *)
(* its transaction or ends it.                                             *)
GoesOn(b) == /\ msgs' = msgs /\ gone' = gone /\ ins'[b] = ins[b]
             /\ del'[b] \cup todo'[b] \subseteq del[b] \cup todo[b] \cup msgs \cup ins[b]
             /\ args'[b].turn \in {args[b].turn, 0}
Ends(b) == /\ \/ msgs' = msgs /\ gone' = gone
              \/ msgs' = Visible(b) /\ gone' = gone \cup del[b]
           /\ ins'[b] = {} /\ del'[b] = {} /\ todo'[b] = {}
           /\ args'[b].turn = 0 /\ pc'[b] = "idle"

(* A step that neither touches messages nor belongs to a turn.             *)
Quiet(b) == /\ UNCHANGED <<msgs, gone, ins, del, todo>>
            /\ todo[b] = {} /\ args[b].turn = 0 /\ args'[b].turn = 0
            /\ pc'[b] # "touch" /\ (pc'[b] = "insert" => args'[b].op = "chat")

LEMMA EndEnds ==
  ASSUME TypeOK, NEW b \in Backends, Commit(b) \/ Rollback(b)
  PROVE  Ends(b)
BY DEF Commit, Rollback, EndTransaction, GoTo, Ends, NoArgs, TypeOK

LEMMA CallIsQuiet ==
  ASSUME TypeOK, TurnInProgress, NEW b \in Backends, Call(b)
  PROVE  Quiet(b)
<1>1. ASSUME NEW op, Enter(b, op)
      PROVE  todo[b] = {} /\ args[b].turn = 0
  BY <1>1 DEF Enter, Working, TurnInProgress, InTurn
<1>2. ASSUME NEW s \in Sessions, NEW cap \in Caps, CreateSession(b, s, cap)
      PROVE  Quiet(b)
  BY <1>1, <1>2 DEF CreateSession, GoTo, msgVars, Quiet, TypeOK
<1>3. ASSUME NEW s \in Sessions, NEW cap \in Caps, StartSetMax(b, s, cap)
      PROVE  Quiet(b)
  BY <1>1, <1>3 DEF StartSetMax, GoTo, msgVars, Quiet, NoArgs, TypeOK
<1>4. ASSUME NEW s \in Sessions, StartChat(b, s)
      PROVE  Quiet(b)
  BY <1>1, <1>4 DEF StartChat, GoTo, msgVars, Quiet, NoArgs, TypeOK
<1>5. ASSUME NEW s \in Sessions, StartSetState(b, s)
      PROVE  Quiet(b)
  BY <1>1, <1>5 DEF StartSetState, GoTo, msgVars, Quiet, NoArgs, TypeOK
<1>6. ASSUME NEW s \in Sessions, StartDelete(b, s)
      PROVE  Quiet(b)
  BY <1>1, <1>6 DEF StartDelete, GoTo, msgVars, Quiet, NoArgs, TypeOK
<1>7. ASSUME NEW t \in Timeouts, StartCleanup(b, t)
      PROVE  Quiet(b)
  BY <1>1, <1>7 DEF StartCleanup, GoTo, msgVars, Quiet, NoArgs, TypeOK
<1> QED BY <1>2, <1>3, <1>4, <1>5, <1>6, <1>7 DEF Call

LEMMA RowStatementIsQuiet ==
  ASSUME TypeOK, TurnInProgress, NEW b \in Backends,
         \/ SetMaxMessages(b)
         \/ SetState(b)
         \/ DropSession(b)
         \/ \E s \in expired[b] : ExpireSession(b, s)
  PROVE  Quiet(b)
<1>1. todo[b] = {} /\ args[b].turn = 0
  BY DEF SetMaxMessages, SetState, DropSession, ExpireSession, TurnInProgress, InTurn
<1>2. UNCHANGED <<msgs, gone, ins, del, todo>>
  BY DEF SetMaxMessages, SetState, DropSession, ExpireSession, msgVars
<1>3. pc'[b] \in {"trim", "open", "cascade", "expire"}
  BY DEF SetMaxMessages, SetState, DropSession, ExpireSession, Return, GoTo, TypeOK
<1>4. args'[b].turn = 0
  <2>1. SetState(b) => args'[b].turn = 0
    BY DEF SetState, Return, NoArgs, TypeOK
  <2>2. CASE ~SetState(b)
    BY <1>1, <2>2 DEF SetMaxMessages, DropSession, ExpireSession
  <2> QED BY <2>1, <2>2
<1> QED BY <1>1, <1>2, <1>3, <1>4 DEF Quiet

(* The steps of a DELETE and the UPDATE that ends an append.               *)
LEMMA DeleteGoesOn ==
  ASSUME TypeOK, NEW b \in Backends,
         \/ BeginTrim(b) \/ BeginWipe(b) \/ BeginCascade(b)
         \/ \E m \in todo[b] : DeleteMessage(b, m)
         \/ TouchSession(b)
  PROVE  GoesOn(b)
<1>1. \A statement : Return(b, statement) => args'[b].turn \in {args[b].turn, 0}
  BY DEF Return, NoArgs, TypeOK
<1>2. CASE BeginTrim(b)
  BY <1>1, <1>2 DEF BeginTrim, BeginDelete, Trimmed, History, Visible, msgVars, GoesOn, TypeOK
<1>3. CASE BeginWipe(b)
  BY <1>1, <1>3 DEF BeginWipe, BeginDelete, History, Visible, msgVars, GoesOn, TypeOK
<1>4. CASE BeginCascade(b)
  BY <1>1, <1>4 DEF BeginCascade, BeginDelete, Visible, msgVars, GoesOn, TypeOK
<1>5. ASSUME NEW m \in todo[b], DeleteMessage(b, m)
      PROVE  GoesOn(b)
  BY <1>1, <1>5 DEF DeleteMessage, GoesOn, TypeOK
<1>6. CASE TouchSession(b)
  BY <1>1, <1>6 DEF TouchSession, msgVars, GoesOn
<1> QED BY <1>2, <1>3, <1>4, <1>5, <1>6

LEMMA StepGoesOnOrEnds ==
  ASSUME TypeOK, TurnInProgress, NEW b \in Backends,
         Call(b) \/ Statement(b) \/ Commit(b) \/ Fail(b) \/ DeadlockAbort(b)
  PROVE  InsertMessage(b) \/ GoesOn(b) \/ Ends(b)
<1>1. Quiet(b) => GoesOn(b)
  BY DEF Quiet, GoesOn
<1> QED BY <1>1, EndEnds, CallIsQuiet, RowStatementIsQuiet, DeleteGoesOn
        DEF Statement, SessionVanished, NegativeCap, Fail, DeadlockAbort

LEMMA InsertAdds ==
  ASSUME TypeOK, TurnInProgress, NEW b \in Backends, InsertMessage(b)
  PROVE  \E new \in Message :
           /\ ins'[b] = ins[b] \cup {new} /\ del'[b] = del[b] /\ todo'[b] = todo[b]
           /\ msgs' = msgs /\ gone' = gone /\ todo[b] = {}
           /\ nextId' = nextId + 1 /\ new.id = nextId /\ new.sid = args[b].sid
           /\ args'[b].turn = new.turn /\ args'[b].sid = args[b].sid /\ args'[b].op = "chat"
           /\ \/ args[b].turn = 0 /\ new.turn = nextId /\ new.role = "user"
              \/ args[b].turn # 0 /\ new.turn = args[b].turn /\ new.role = "assistant"
<1> DEFINE asking == args[b].turn = 0
           turn == IF asking THEN nextId ELSE args[b].turn
           new == [id |-> nextId, sid |-> args[b].sid, turn |-> turn,
                   role |-> IF asking THEN "user" ELSE "assistant"]
<1>1. args[b] \in Args /\ args[b].sid \in Sessions /\ turn \in Nat /\ nextId \in Nat
  BY DEF TypeOK, Args
<1>2. new \in Message
  BY <1>1 DEF Message
<1>3. ins'[b] = ins[b] \cup {new}
  BY DEF InsertMessage, TypeOK
<1>4. args'[b] = [args[b] EXCEPT !.turn = turn]
  BY DEF InsertMessage, TypeOK
<1>5. args'[b].turn = turn /\ args'[b].sid = args[b].sid /\ args'[b].op = args[b].op
  BY <1>1, <1>4 DEF Args
<1>6. todo[b] = {} /\ args[b].op = "chat"
  BY DEF InsertMessage, TurnInProgress, InTurn
<1>7. del' = del /\ todo' = todo /\ msgs' = msgs /\ gone' = gone /\ nextId' = nextId + 1
  BY DEF InsertMessage
<1> HIDE DEF new, turn
<1>8. /\ new.id = nextId /\ new.sid = args[b].sid /\ new.turn = turn
      /\ new.role = IF asking THEN "user" ELSE "assistant"
  BY DEF new
<1>9. turn = IF asking THEN nextId ELSE args[b].turn
  BY DEF turn
<1> QED BY <1>2, <1>3, <1>5, <1>6, <1>7, <1>8, <1>9

LEMMA TurnNumbersKept ==
  ASSUME TypeOK, TurnInProgress, TurnNumbers, NEW b \in Backends,
         Call(b) \/ Statement(b) \/ Commit(b) \/ Fail(b) \/ DeadlockAbort(b)
  PROVE  TurnNumbers'
<1>0. /\ nextId \in Nat /\ \A c \in Backends : args[c].turn \in Nat
      /\ \A c \in Backends : Handled(c) \subseteq Message
  BY DEF TypeOK, Args, Handled
<1>1. \A c \in Backends \ {b} : Handled(c)' = Handled(c) /\ args'[c] = args[c]
  BY NextLeavesOthers DEF LeavesOthers, Handled
<1>2. CASE InsertMessage(b)
  <2>1. PICK new \in Message :
           /\ ins'[b] = ins[b] \cup {new} /\ del'[b] = del[b] /\ todo'[b] = todo[b]
           /\ msgs' = msgs /\ gone' = gone
           /\ nextId' = nextId + 1 /\ new.id = nextId /\ args'[b].turn = new.turn
           /\ \/ args[b].turn = 0 /\ new.turn = nextId /\ new.role = "user"
              \/ args[b].turn # 0 /\ new.turn = args[b].turn /\ new.role = "assistant"
    BY <1>2, InsertAdds
  <2>2. \A m \in Message : Numbered(m) => Numbered(m)'
    BY <1>0, <2>1 DEF Numbered, Message
  <2>3. Numbered(new)' /\ args'[b].turn < nextId'
    BY <1>0, <2>1 DEF Numbered, TurnNumbers
  <2>4. \A m \in msgs' \cup gone' : Numbered(m)'
    BY <2>1, <2>2 DEF TurnNumbers, TypeOK
  <2>5. \A m \in Handled(b)' : Numbered(m)'
    BY <1>0, <2>1, <2>2, <2>3 DEF TurnNumbers, Handled
  <2>6. \A c \in Backends \ {b} : args'[c].turn < nextId' /\ \A m \in Handled(c)' : Numbered(m)'
    BY <1>0, <1>1, <2>1, <2>2 DEF TurnNumbers
  <2> QED BY <1>0, <2>1, <2>3, <2>4, <2>5, <2>6 DEF TurnNumbers
<1>3. CASE GoesOn(b) \/ Ends(b)
  <2>1. nextId' = nextId
    BY <1>3, IdsAreDrawn, InsertAdds DEF GoesOn, Ends, TypeOK, TurnNumbers, Handled, Numbered
  <2>2. \A m \in Message : Numbered(m)' <=> Numbered(m)
    BY <2>1 DEF Numbered
  <2>3. /\ msgs' \cup gone' \subseteq msgs \cup gone \cup Handled(b)
        /\ Handled(b)' \subseteq Handled(b) \cup msgs
    BY <1>3 DEF GoesOn, Ends, Handled, Visible
  <2>4. args'[b].turn < nextId
    BY <1>3 DEF GoesOn, Ends, TurnNumbers
  <2>5. msgs \cup gone \cup Handled(b) \subseteq Message
    BY <1>0 DEF TypeOK
  <2>6. \A m \in msgs \cup gone \cup Handled(b) : Numbered(m)'
    BY <2>2, <2>5 DEF TurnNumbers
  <2>7. \A c \in Backends \ {b} : args'[c].turn < nextId' /\ \A m \in Handled(c)' : Numbered(m)'
    BY <1>0, <1>1, <2>1, <2>2 DEF TurnNumbers
  <2> QED BY <2>1, <2>3, <2>4, <2>6, <2>7 DEF TurnNumbers
<1> QED BY <1>2, <1>3, StepGoesOnOrEnds

LEMMA TurnOwnersKept ==
  ASSUME TypeOK, TurnInProgress, TurnNumbers, TurnOwners, NEW b \in Backends,
         Call(b) \/ Statement(b) \/ Commit(b) \/ Fail(b) \/ DeadlockAbort(b)
  PROVE  TurnOwners'
<1>0. /\ nextId \in Nat /\ \A c \in Backends : args[c].turn \in Nat /\ args[c].turn < nextId
      /\ \A m \in msgs \cup gone : m.turn \in Nat /\ m.turn < nextId
      /\ \A c \in Backends : \A m \in Handled(c) : m.turn \in Nat /\ m.turn < nextId
  BY DEF TypeOK, Args, Handled, TurnNumbers, Numbered, Message
<1>1. \A c \in Backends \ {b} : Handled(c)' = Handled(c) /\ args'[c] = args[c] /\ ins'[c] = ins[c]
  BY NextLeavesOthers DEF LeavesOthers, Handled
<1> SUFFICES ASSUME NEW c \in Backends, NEW d \in Backends, c # d
             PROVE  /\ args'[c].turn # 0 => args'[c].turn # args'[d].turn
                    /\ args'[c].turn # 0 =>
                          \A m \in msgs' \cup gone' \cup Handled(d)' : m.turn # args'[c].turn
                    /\ \A o \in ins'[c] : \A m \in msgs' \cup gone' \cup Handled(d)' : m.turn # o.turn
  BY DEF TurnOwners
<1>a. /\ args[c].turn # 0 => args[c].turn # args[d].turn
      /\ args[d].turn # 0 => args[c].turn # args[d].turn
      /\ args[c].turn # 0 => \A m \in msgs \cup gone \cup Handled(d) : m.turn # args[c].turn
      /\ args[d].turn # 0 => \A m \in msgs \cup gone \cup Handled(c) : m.turn # args[d].turn
      /\ \A o \in ins[c] : \A m \in msgs \cup gone \cup Handled(d) : m.turn # o.turn
  BY DEF TurnOwners
<1>2. CASE InsertMessage(b)
  <2>1. PICK new \in Message :
           /\ ins'[b] = ins[b] \cup {new} /\ del'[b] = del[b] /\ todo'[b] = todo[b]
           /\ msgs' = msgs /\ gone' = gone /\ args'[b].turn = new.turn
           /\ \/ args[b].turn = 0 /\ new.turn = nextId
              \/ args[b].turn # 0 /\ new.turn = args[b].turn
    BY <1>2, InsertAdds
  <2>2. Handled(b)' = Handled(b) \cup {new}
    BY <2>1 DEF Handled
  <2>3. CASE c = b
    <3>1. d # b
      BY <2>3
    <3>2. \A m \in msgs \cup gone \cup Handled(d) : m.turn # new.turn
      BY <1>0, <1>a, <2>1, <2>3
    <3>3. new.turn # args[d].turn
      BY <1>0, <1>a, <2>1, <2>3
    <3> QED BY <1>1, <1>a, <2>1, <2>3, <3>1, <3>2, <3>3
  <2>4. CASE d = b
    <3>1. c # b
      BY <2>4
    <3>2. args[c].turn # 0 => args[c].turn # new.turn
      BY <1>0, <1>a, <2>1, <2>4
    <3>3. \A o \in ins[c] : new.turn # o.turn
      BY <1>0, <1>a, <2>1, <2>4 DEF Handled
    <3> QED BY <1>1, <1>a, <2>1, <2>2, <2>4, <3>1, <3>2, <3>3
  <2>5. CASE c # b /\ d # b
    BY <1>1, <1>a, <2>1, <2>5
  <2> QED BY <2>3, <2>4, <2>5
<1>3. CASE GoesOn(b)
  <2>1. Handled(b)' \subseteq Handled(b) \cup msgs
    BY <1>3 DEF GoesOn, Handled
  <2>2. args'[b].turn \in {args[b].turn, 0} /\ msgs' = msgs /\ gone' = gone /\ ins'[b] = ins[b]
    BY <1>3 DEF GoesOn
  <2> QED BY <1>1, <1>a, <2>1, <2>2
<1>4. CASE Ends(b)
  <2>1. /\ msgs' \cup gone' \subseteq msgs \cup gone \cup Handled(b) /\ Handled(b)' = {}
        /\ ins'[b] = {} /\ args'[b].turn = 0
    BY <1>4 DEF Ends, Handled, Visible
  <2>2. CASE c = b
    BY <2>1, <2>2
  <2>3. CASE c # b
    <3>1. /\ args[c].turn # 0 => \A m \in Handled(b) : m.turn # args[c].turn
          /\ \A o \in ins[c] : \A m \in Handled(b) : m.turn # o.turn
      BY <2>3 DEF TurnOwners
    <3> QED BY <1>1, <1>a, <2>1, <2>3, <3>1
  <2> QED BY <2>2, <2>3
<1> QED BY <1>2, <1>3, <1>4, StepGoesOnOrEnds

LEMMA DeletesKnownKept ==
  ASSUME TypeOK, TurnInProgress, DeletesKnown, NEW b \in Backends,
         Call(b) \/ Statement(b) \/ Commit(b) \/ Fail(b) \/ DeadlockAbort(b)
  PROVE  DeletesKnown'
<1>1. \A c \in Backends \ {b} : del'[c] = del[c] /\ todo'[c] = todo[c] /\ ins'[c] = ins[c]
  BY NextLeavesOthers DEF LeavesOthers
<1>2. msgs \cup gone \subseteq msgs' \cup gone'
  BY StepGoesOnOrEnds, InsertAdds DEF GoesOn, Ends, Visible
<1>3. del'[b] \cup todo'[b] \subseteq msgs' \cup gone' \cup ins'[b]
  <2>1. del[b] \cup todo[b] \subseteq msgs \cup gone \cup ins[b]
    BY DEF DeletesKnown
  <2>2. CASE InsertMessage(b)
    BY <2>1, <2>2, InsertAdds
  <2>3. CASE GoesOn(b) \/ Ends(b)
    BY <2>1, <2>3 DEF GoesOn, Ends
  <2> QED BY <2>2, <2>3, StepGoesOnOrEnds
<1> QED BY <1>1, <1>2, <1>3 DEF DeletesKnown

LEMMA FiniteKept ==
  ASSUME TypeOK, TurnInProgress, Finite, NEW b \in Backends,
         Call(b) \/ Statement(b) \/ Commit(b) \/ Fail(b) \/ DeadlockAbort(b)
  PROVE  Finite'
<1>1. \A c \in Backends \ {b} : ins'[c] = ins[c]
  BY NextLeavesOthers DEF LeavesOthers
<1>2. IsFiniteSet(msgs) /\ IsFiniteSet(ins[b])
  BY DEF Finite
<1>3. IsFiniteSet(Visible(b))
  <2>1. IsFiniteSet(msgs \cup ins[b])
    BY <1>2, FS_Union
  <2>2. Visible(b) \in SUBSET (msgs \cup ins[b])
    BY DEF Visible
  <2> QED BY <2>1, <2>2, FS_Subset
<1>4. IsFiniteSet(ins'[b])
  <2>1. CASE InsertMessage(b)
    <3>1. PICK new : ins'[b] = ins[b] \cup {new}
      BY <2>1, InsertAdds
    <3> QED BY <1>2, <3>1, FS_AddElement
  <2>2. CASE GoesOn(b) \/ Ends(b)
    BY <1>2, <2>2, FS_EmptySet DEF GoesOn, Ends
  <2> QED BY <2>1, <2>2, StepGoesOnOrEnds
<1>5. IsFiniteSet(msgs')
  BY <1>2, <1>3, StepGoesOnOrEnds, InsertAdds DEF GoesOn, Ends
<1> QED BY <1>1, <1>4, <1>5 DEF Finite

LEMMA TurnInProgressKept ==
  ASSUME TypeOK, TurnInProgress, TurnNumbers, NEW b \in Backends,
         Call(b) \/ Statement(b) \/ Commit(b) \/ Fail(b) \/ DeadlockAbort(b)
  PROVE  TurnInProgress'
<1>1. \A c \in Backends \ {b} : InTurn(c)'
  BY NextLeavesOthers DEF LeavesOthers, TurnInProgress, InTurn
<1> SUFFICES InTurn(b)'
  BY <1>1 DEF TurnInProgress
<1>2. InTurn(b)
  BY DEF TurnInProgress
<1>3. \A m \in ins[b] : m.turn # 0 /\ m.turn < nextId
  BY DEF TurnNumbers, Numbered, Handled
<1>4. CASE Ends(b)
  BY <1>4 DEF Ends, InTurn
<1>5. CASE Quiet(b)
  BY <1>3, <1>5 DEF Quiet, InTurn
<1>6. CASE InsertMessage(b)
  <2>1. pc'[b] = "trim"
    BY <1>6 DEF InsertMessage, GoTo, TypeOK
  <2>2. PICK new \in Message :
           /\ ins'[b] = ins[b] \cup {new} /\ todo'[b] = {} /\ new.sid = args[b].sid
           /\ args'[b].turn = new.turn /\ args'[b].sid = args[b].sid /\ args'[b].op = "chat"
           /\ \/ args[b].turn = 0 /\ new.turn = nextId
              \/ args[b].turn # 0 /\ new.turn = args[b].turn
    BY <1>6, InsertAdds
  <2>3. \A m \in ins[b] : m.turn = new.turn => m.sid = args[b].sid
    BY <1>2, <1>3, <2>2 DEF InTurn, TypeOK, Message
  <2> QED BY <2>1, <2>2, <2>3 DEF InTurn
<1>7. ASSUME NEW phase \in {"trimming", "wiping", "cascading"},
             NEW statement \in {phase, After(b, phase)}, Return(b, statement),
             ins' = ins, todo'[b] # {} => statement = phase,
             args[b].turn # 0 => phase = "trimming"
      PROVE  InTurn(b)'
  <2>1. pc'[b] = statement /\ (statement # "open" => args'[b] = args[b])
        /\ (statement = "open" => args'[b].turn = 0)
    BY <1>7 DEF Return, GoTo, NoArgs, TypeOK
  <2>2. statement = "touch" => args[b].op = "chat"
    BY <1>7 DEF After
  <2>3. statement = "open" => args'[b].turn = 0 /\ \A m \in ins[b] : m.turn # 0
    BY <1>3, <2>1
  <2>4. args[b].turn # 0 => statement \in {"trimming", "touch"}
    BY <1>2, <1>7 DEF After, InTurn
  <2>5. statement \in {"trimming", "wiping", "cascading", "touch", "drop", "open"}
    BY <1>7, AfterType
  <2>6. statement = phase => statement \in {"trimming", "wiping", "cascading"}
    BY <1>7
  <2> QED BY <1>2, <1>7, <2>1, <2>2, <2>3, <2>4, <2>5, <2>6 DEF InTurn
<1>8. CASE BeginTrim(b)
  BY <1>7, <1>8 DEF BeginTrim, BeginDelete, msgVars, TypeOK
<1>9. CASE BeginWipe(b)
  BY <1>2, <1>7, <1>9 DEF BeginWipe, BeginDelete, msgVars, TypeOK, InTurn
<1>10. CASE BeginCascade(b)
  BY <1>2, <1>7, <1>10 DEF BeginCascade, BeginDelete, msgVars, TypeOK, InTurn
<1>11. ASSUME NEW m \in todo[b], DeleteMessage(b, m)
       PROVE  InTurn(b)'
  BY <1>2, <1>7, <1>11 DEF DeleteMessage, TypeOK, InTurn
<1>12. CASE TouchSession(b)
  <2>1. todo'[b] = {} /\ ins' = ins /\ pc[b] = "touch"
    BY <1>2, <1>12 DEF TouchSession, msgVars, InTurn
  <2>2. \/ pc'[b] = "open" /\ args'[b].turn = 0
        \/ pc'[b] = "insert" /\ args'[b] = args[b]
    BY <1>12 DEF TouchSession, Return, GoTo, NoArgs, TypeOK
  <2> QED BY <1>2, <1>3, <2>1, <2>2 DEF InTurn
<1> QED
  BY <1>4, <1>5, <1>6, <1>8, <1>9, <1>10, <1>11, <1>12, EndEnds, CallIsQuiet, RowStatementIsQuiet
     DEF Statement, SessionVanished, NegativeCap, Fail, DeadlockAbort

(* Row locks are kept until the transaction ends.                          *)
LEMMA OwnLocksStay ==
  ASSUME TypeOK, NEW b \in Backends, NEW s \in Sessions, lock[s] = b,
         Call(b) \/ Statement(b) \/ Commit(b) \/ Fail(b) \/ DeadlockAbort(b)
  PROVE  lock'[s] = b \/ Ends(b)
<1>1. ASSUME NEW x \in Sessions, NEW new, UpdateRow(b, x, new)
      PROVE  lock'[s] = b
  BY <1>1 DEF UpdateRow, TypeOK
<1>2. CASE Call(b)
  BY <1>2 DEF Call, CreateSession, StartSetMax, StartChat, StartSetState, StartDelete,
              StartCleanup, rowVars, TypeOK
<1>3. CASE Statement(b)
  <2>1. args[b].sid \in Sessions /\ expired[b] \subseteq Sessions
    BY DEF TypeOK, Args
  <2>2. CASE SessionVanished(b) \/ NegativeCap(b)
    BY <2>2, EndEnds DEF SessionVanished, NegativeCap
  <2>3. CASE TouchSession(b) \/ SetMaxMessages(b) \/ SetState(b) \/ DropSession(b)
    BY <1>1, <2>1, <2>3 DEF TouchSession, SetMaxMessages, SetState, DropSession
  <2>4. CASE \E x \in expired[b] : ExpireSession(b, x)
    BY <1>1, <2>1, <2>4 DEF ExpireSession
  <2>5. CASE \/ InsertMessage(b) \/ BeginTrim(b) \/ BeginWipe(b) \/ BeginCascade(b)
             \/ \E m \in todo[b] : DeleteMessage(b, m)
    BY <2>5 DEF InsertMessage, BeginTrim, BeginWipe, BeginCascade, BeginDelete, DeleteMessage,
                rowVars
  <2> QED BY <1>3, <2>2, <2>3, <2>4, <2>5 DEF Statement
<1> QED BY <1>2, <1>3, EndEnds DEF Fail, DeadlockAbort

LEMMA AnswersLockKept ==
  ASSUME TypeOK, CallHoldings, TurnInProgress, TurnNumbers, AnswersLock, NEW b \in Backends,
         Call(b) \/ Statement(b) \/ Commit(b) \/ Fail(b) \/ DeadlockAbort(b)
  PROVE  AnswersLock'
<1> SUFFICES ASSUME NEW c \in Backends, NEW a \in ins'[c], a.role = "assistant"
             PROVE  /\ lock'[a.sid] = c
                    /\ \A o \in msgs' : o.role = "assistant" /\ o.sid = a.sid => o.id < a.id
  BY DEF AnswersLock
<1>1. CASE c # b
  <2>1. a \in ins[c] /\ a.sid \in Sessions
    BY <1>1, NextLeavesOthers DEF LeavesOthers, TypeOK, Message
  <2>2. lock[a.sid] = c /\ lock'[a.sid] = c
    BY <1>1, <2>1, NextLeavesOthers DEF LeavesOthers, AnswersLock
  <2>3. msgs' \subseteq msgs \cup ins[b]
    BY StepGoesOnOrEnds, InsertAdds DEF GoesOn, Ends, Visible
  <2>4. \A o \in ins[b] : o.role = "assistant" => o.sid # a.sid
    BY <1>1, <2>2 DEF AnswersLock
  <2> QED BY <2>1, <2>2, <2>3, <2>4 DEF AnswersLock
<1>2. CASE c = b
  <2>1. CASE InsertMessage(b)
    <3>1. PICK new \in Message :
             /\ ins'[b] = ins[b] \cup {new} /\ msgs' = msgs /\ new.id = nextId
             /\ new.sid = args[b].sid /\ (args[b].turn = 0 => new.role = "user")
      BY <2>1, InsertAdds
    <3>2. lock' = lock /\ pc[b] = "insert"
      BY <2>1 DEF InsertMessage
    <3>3. CASE a \in ins[b]
      BY <1>2, <3>1, <3>2, <3>3 DEF AnswersLock
    <3>4. CASE a = new
      <4>1. lock[a.sid] = b
        BY <3>1, <3>2, <3>4 DEF CallHoldings, Holdings
      <4>2. \A o \in msgs : o.id < a.id
        BY <3>1, <3>4 DEF TurnNumbers, Numbered
      <4> QED BY <1>2, <3>1, <3>2, <4>1, <4>2
    <3> QED BY <1>2, <3>1, <3>3, <3>4
  <2>2. CASE GoesOn(b) /\ ~Ends(b)
    <3>1. a \in ins[b] /\ a.sid \in Sessions /\ msgs' = msgs
      BY <1>2, <2>2 DEF GoesOn, TypeOK, Message
    <3>2. lock[a.sid] = b
      BY <3>1 DEF AnswersLock
    <3> QED BY <1>2, <2>2, <3>1, <3>2, OwnLocksStay DEF AnswersLock
  <2>3. CASE Ends(b)
    BY <1>2, <2>3 DEF Ends
  <2> QED BY <2>1, <2>2, <2>3, StepGoesOnOrEnds
<1> QED BY <1>1, <1>2

-----------------------------------------------------------------------------
(* Trimming takes the question of a turn before its answer.                *)

(* Of two messages the older has at least as many that are newer.          *)
LEMMA NewestIsClosed ==
  ASSUME NEW H, IsFiniteSet(H), \A m \in H : m.id \in Int, NEW n \in Int,
         NEW m \in H, NEW q \in Newest(H, n), q.id <= m.id
  PROVE  m \in Newest(H, n)
<1>1. NewerThan(H, m) \in SUBSET NewerThan(H, q)
  BY DEF NewerThan, Newest
<1>2. NewerThan(H, q) \in SUBSET H /\ NewerThan(H, m) \in SUBSET H
  BY DEF NewerThan
<1>3. IsFiniteSet(NewerThan(H, q)) /\ IsFiniteSet(NewerThan(H, m))
  BY <1>2, FS_Subset
<1>4. Cardinality(NewerThan(H, m)) <= Cardinality(NewerThan(H, q))
  BY <1>1, <1>3, FS_Subset
<1>5. Cardinality(NewerThan(H, m)) \in Nat /\ Cardinality(NewerThan(H, q)) \in Nat
  BY <1>3, FS_CardinalityType
<1>6. Cardinality(NewerThan(H, q)) < n
  BY DEF Newest
<1> QED BY <1>4, <1>5, <1>6 DEF Newest

LEMMA VisibleFinite ==
  ASSUME TypeOK, Finite, NEW b \in Backends, NEW s
  PROVE  /\ IsFiniteSet(Visible(b)) /\ IsFiniteSet(History(Visible(b), s))
         /\ Visible(b) \subseteq Message /\ History(Visible(b), s) \subseteq Message
<1>1. IsFiniteSet(msgs \cup ins[b])
  BY FS_Union DEF Finite
<1>2. Visible(b) \in SUBSET (msgs \cup ins[b]) /\ History(Visible(b), s) \in SUBSET Visible(b)
  BY DEF Visible, History
<1>3. IsFiniteSet(Visible(b))
  BY <1>1, <1>2, FS_Subset
<1>4. IsFiniteSet(History(Visible(b), s))
  BY <1>2, <1>3, FS_Subset
<1> QED BY <1>2, <1>3, <1>4 DEF TypeOK

(* A question has its own number, and an answer a greater one.             *)
LEMMA NumberedMessages ==
  ASSUME TypeOK, TurnInProgress, TurnNumbers, NEW b \in Backends, NEW c \in Backends,
         Call(b) \/ Statement(b) \/ Commit(b) \/ Fail(b) \/ DeadlockAbort(b),
         NEW m \in msgs' \cup ins'[c] \cup del'[c] \cup todo'[c]
  PROVE  /\ m \in Message /\ m.id \in Nat /\ m.turn \in Nat
         /\ m.role = "user" => m.turn = m.id
         /\ m.role = "assistant" => m.turn < m.id
<1>1. TypeOK'
  BY CallType, StatementType, CommitType, RollbackType DEF Fail, DeadlockAbort
<1>2. TurnNumbers'
  BY TurnNumbersKept
<1> QED BY <1>1, <1>2 DEF TypeOK, TurnNumbers, Numbered, Handled, Message

LEMMA QuestionsFirstKept ==
  ASSUME TypeOK, TurnInProgress, TurnNumbers, TurnOwners, DeletesKnown, Finite,
         QuestionsFirst, NEW b \in Backends,
         Call(b) \/ Statement(b) \/ Commit(b) \/ Fail(b) \/ DeadlockAbort(b)
  PROVE  QuestionsFirst'
<1> SUFFICES ASSUME NEW c \in Backends, NEW a \in del'[c] \cup todo'[c],
                    NEW q \in msgs' \cup ins'[c], QuestionOf(q, a)
             PROVE  q \in del'[c] \cup todo'[c]
  BY DEF QuestionsFirst, QuestionOf
<1>1. CASE c # b
  <2>1. del'[c] = del[c] /\ todo'[c] = todo[c] /\ ins'[c] = ins[c]
    BY <1>1, NextLeavesOthers DEF LeavesOthers
  <2>2. msgs' \subseteq msgs \cup ins[b]
    BY StepGoesOnOrEnds, InsertAdds DEF GoesOn, Ends, Visible
  <2>3. q \notin ins[b]
    BY <1>1, <2>1 DEF TurnOwners, Handled, QuestionOf
  <2> QED BY <2>1, <2>2, <2>3 DEF QuestionsFirst
<1>2. CASE c = b
  <2>1. CASE Ends(b)
    BY <1>2, <2>1 DEF Ends
  <2>2. CASE InsertMessage(b)
    <3>1. PICK new \in Message :
             /\ ins'[b] = ins[b] \cup {new} /\ del'[b] = del[b] /\ todo'[b] = todo[b]
             /\ msgs' = msgs
             /\ new.role = "user" => new.turn = nextId
      BY <2>2, InsertAdds
    <3>2. a.turn < nextId /\ a.turn \in Nat /\ nextId \in Nat
      BY <1>2, <3>1 DEF TurnNumbers, Numbered, Handled, TypeOK, Message
    <3>3. q # new
      BY <3>1, <3>2 DEF QuestionOf
    <3> QED BY <1>2, <3>1, <3>3 DEF QuestionsFirst
  <2>3. CASE Quiet(b) \/ TouchSession(b)
    <3>1. UNCHANGED <<msgs, ins, del, todo>>
      BY <2>3 DEF Quiet, TouchSession, msgVars
    <3> QED BY <3>1 DEF QuestionsFirst
  <2>4. ASSUME NEW m \in todo[b], DeleteMessage(b, m)
        PROVE  q \in del'[b] \cup todo'[b]
    <3>1. /\ msgs' = msgs /\ ins'[b] = ins[b] /\ todo'[b] = todo[b] \ {m}
          /\ del'[b] = IF m \in Visible(b) THEN del[b] \cup {m} ELSE del[b]
      BY <2>4 DEF DeleteMessage, TypeOK
    <3>2. a \in del[b] \cup todo[b]
      BY <1>2, <2>4, <3>1
    <3>3. q \in del[b] \cup todo[b] /\ q \in msgs \cup ins[b]
      BY <1>2, <3>1, <3>2 DEF QuestionsFirst
    <3> QED BY <3>1, <3>3 DEF Visible
(* The rows a DELETE chooses. *)
  <2>5. ASSUME NEW rows, todo'[b] = rows, rows \subseteq Visible(b), UNCHANGED <<msgs, ins, del>>,
               a \in rows /\ q \in Visible(b) => q \in rows, todo[b] = {}
        PROVE  q \in del'[b] \cup todo'[b]
    <3>1. CASE a \in del[b]
      BY <1>2, <2>5, <3>1 DEF QuestionsFirst
    <3>2. CASE a \in rows
      BY <1>2, <2>5, <3>2 DEF Visible
    <3> QED BY <1>2, <2>5, <3>1, <3>2
  <2>6. pc[b] \in {"trim", "wipe", "cascade"} => todo[b] = {}
    BY DEF TurnInProgress, InTurn
  <2>7. q.sid = a.sid /\ q.id < a.id
    <3>1. q.role = "user" => q.turn = q.id
      BY <1>2, NumberedMessages
    <3>2. a.role = "assistant" => a.turn < a.id
      BY <1>2, NumberedMessages
    <3> QED BY <3>1, <3>2 DEF QuestionOf
  <2>8. CASE BeginTrim(b)
    <3> DEFINE H == History(Visible(b), args[b].sid)
               n == args[b].cap
    <3>1. /\ todo'[b] = H \ Newest(H, n) /\ UNCHANGED <<msgs, ins, del>> /\ pc[b] = "trim"
      BY <2>8 DEF BeginTrim, BeginDelete, Trimmed, msgVars, TypeOK
    <3>2. IsFiniteSet(H) /\ \A m \in H : m.id \in Int
      BY VisibleFinite DEF Message
    <3>3. n \in Int
      <4>1. args[b] \in Args
        BY DEF TypeOK
      <4>2. args[b].cap \in Caps \cup {0}
        BY <4>1 DEF Args
      <4>3. \A x \in Caps \cup {0} : x \in Int
        BY SessionStoreAssumption
      <4> QED BY <4>2, <4>3
    <3>4. a \in H \ Newest(H, n) /\ q \in Visible(b) => q \in H \ Newest(H, n)
      <4>1. a \in H /\ q \in Visible(b) => q \in H
        BY <2>7 DEF History
      <4> HIDE DEF H, n
      <4> QED BY <2>7, <3>2, <3>3, <4>1, NewestIsClosed
    <3>5. H \ Newest(H, n) \subseteq Visible(b)
      BY DEF History
    <3> HIDE DEF H, n
    <3> QED BY <1>2, <2>5, <2>6, <3>1, <3>4, <3>5
  <2>9. CASE BeginWipe(b)
    <3>1. /\ todo'[b] = History(Visible(b), args[b].sid) /\ UNCHANGED <<msgs, ins, del>>
          /\ pc[b] = "wipe"
      BY <2>9 DEF BeginWipe, BeginDelete, msgVars, TypeOK
    <3> QED BY <1>2, <2>5, <2>6, <2>7, <3>1 DEF History
  <2>10. CASE BeginCascade(b)
    <3>1. /\ todo'[b] = {m \in Visible(b) : lock[m.sid] = b /\ newv[m.sid].status = "dead"}
          /\ UNCHANGED <<msgs, ins, del>> /\ pc[b] = "cascade"
      BY <2>10 DEF BeginCascade, BeginDelete, msgVars, TypeOK
    <3> QED BY <1>2, <2>5, <2>6, <2>7, <3>1
  <2> QED
    BY <1>2, <2>1, <2>2, <2>3, <2>4, <2>8, <2>9, <2>10, EndEnds, CallIsQuiet, RowStatementIsQuiet
       DEF Statement, SessionVanished, NegativeCap, Fail, DeadlockAbort
<1> QED BY <1>1, <1>2

LEMMA OwnTurnsWholeKept ==
  ASSUME TypeOK, TurnInProgress, TurnNumbers, OwnTurnsWhole, NEW b \in Backends,
         Call(b) \/ Statement(b) \/ Commit(b) \/ Fail(b) \/ DeadlockAbort(b)
  PROVE  OwnTurnsWhole'
<1>1. \A c \in Backends \ {b} : ins'[c] = ins[c] /\ args'[c] = args[c]
  BY NextLeavesOthers DEF LeavesOthers
<1> SUFFICES ASSUME NEW q \in ins'[b], q.role = "user", q.turn # args'[b].turn
             PROVE  \E a \in ins'[b] : QuestionOf(q, a)
  BY <1>1 DEF OwnTurnsWhole, QuestionOf
<1>2. CASE InsertMessage(b)
  <2>1. PICK new \in Message :
           /\ ins'[b] = ins[b] \cup {new} /\ args'[b].turn = new.turn
           /\ args[b].turn # 0 => new.turn = args[b].turn
      BY <1>2, InsertAdds
  <2>2. q \in ins[b]
    BY <2>1
  <2>3. q.turn # 0
    BY <2>2 DEF TurnNumbers, Numbered, Handled
  <2> QED BY <2>1, <2>2, <2>3 DEF OwnTurnsWhole
(* A turn is left when its answer is there. *)
<1>3. CASE TouchSession(b)
  <2>1. /\ ins' = ins
        /\ IF Answered(b) THEN TRUE ELSE args'[b] = args[b]
    BY <1>3 DEF TouchSession, Return, msgVars, TypeOK
  <2>2. CASE q.turn = args[b].turn
    <3>1. PICK a \in ins[b] : a.turn = args[b].turn /\ a.role = "assistant"
      BY <2>1, <2>2 DEF Answered
    <3>2. q.sid = args[b].sid /\ a.sid = args[b].sid
      BY <2>1, <2>2, <3>1 DEF TurnInProgress, InTurn
    <3> QED BY <2>1, <2>2, <3>1, <3>2 DEF QuestionOf
  <2>3. CASE q.turn # args[b].turn
    BY <2>1, <2>3 DEF OwnTurnsWhole
  <2> QED BY <2>2, <2>3
<1>4. CASE Quiet(b)
  <2>1. q \in ins[b] /\ q.turn # 0
    BY <1>4 DEF Quiet, TurnNumbers, Numbered, Handled
  <2> QED BY <1>4, <2>1 DEF Quiet, OwnTurnsWhole
<1>5. CASE Ends(b)
  BY <1>5 DEF Ends
<1>6. ASSUME NEW phase \in {"trimming", "wiping", "cascading"},
             NEW statement \in {phase, After(b, phase)}, Return(b, statement), ins' = ins,
             args[b].turn # 0 => phase = "trimming" /\ args[b].op = "chat"
      PROVE  \E a \in ins'[b] : QuestionOf(q, a)
  <2>1. args[b].turn # 0 => statement # "open"
    BY <1>6 DEF After
  <2>2. q.turn # 0
    BY <1>6 DEF TurnNumbers, Numbered, Handled
  <2>3. args'[b] = args[b] \/ args[b].turn = 0
    BY <1>6, <2>1 DEF Return
  <2> QED BY <1>6, <2>2, <2>3 DEF OwnTurnsWhole
<1>7. args[b].turn # 0 => args[b].op = "chat" /\ pc[b] \in {"insert", "trim", "trimming", "touch"}
  BY DEF TurnInProgress, InTurn
<1>8. CASE BeginTrim(b)
  BY <1>6, <1>7, <1>8 DEF BeginTrim, BeginDelete, msgVars
<1>9. CASE BeginWipe(b)
  BY <1>6, <1>7, <1>9 DEF BeginWipe, BeginDelete, msgVars
<1>10. CASE BeginCascade(b)
  BY <1>6, <1>7, <1>10 DEF BeginCascade, BeginDelete, msgVars
<1>11. ASSUME NEW m \in todo[b], DeleteMessage(b, m)
       PROVE  \E a \in ins'[b] : QuestionOf(q, a)
  BY <1>6, <1>7, <1>11 DEF DeleteMessage
<1> QED
  BY <1>2, <1>3, <1>4, <1>5, <1>8, <1>9, <1>10, <1>11, EndEnds, CallIsQuiet, RowStatementIsQuiet
     DEF Statement, SessionVanished, NegativeCap, Fail, DeadlockAbort

LEMMA TurnsWholeKept ==
  ASSUME TypeOK, TurnInProgress, TurnNumbers, QuestionsFirst, OwnTurnsWhole, TurnsWhole,
         NEW b \in Backends,
         Call(b) \/ Statement(b) \/ Commit(b) \/ Fail(b) \/ DeadlockAbort(b)
  PROVE  TurnsWhole'
<1>1. CASE msgs' = msgs
  BY <1>1 DEF TurnsWhole
<1>2. CASE Commit(b)
  <2> SUFFICES ASSUME NEW q \in msgs', q.role = "user"
               PROVE  \E a \in msgs' : QuestionOf(q, a)
    BY DEF TurnsWhole, QuestionOf
  <2>1. msgs' = (msgs \cup ins[b]) \ del[b] /\ pc[b] = "open"
    BY <1>2 DEF Commit, Visible
  <2>2. args[b].turn = 0 /\ todo[b] = {}
    BY <2>1 DEF TurnInProgress, InTurn
  <2>3. \E a \in msgs \cup ins[b] : QuestionOf(q, a)
    <3>1. CASE q \in msgs
      BY <3>1 DEF TurnsWhole, QuestionOf
    <3>2. CASE q \in ins[b]
      <4>1. q.turn # 0
        BY <3>2 DEF TurnNumbers, Numbered, Handled
      <4> QED BY <2>2, <3>2, <4>1 DEF OwnTurnsWhole
    <3> QED BY <2>1, <3>1, <3>2
  <2>4. PICK a \in msgs \cup ins[b] : QuestionOf(q, a)
    BY <2>3
  <2>5. a \notin del[b]
    BY <2>1, <2>2, <2>4 DEF QuestionsFirst
  <2> QED BY <2>1, <2>4, <2>5
<1>3. Call(b) => msgs' = msgs
  BY CallIsQuiet DEF Quiet
<1>4. Statement(b) => msgs' = msgs
  <2>1. Rollback(b) => msgs' = msgs
    BY DEF Rollback
  <2> QED BY <2>1, InsertAdds, RowStatementIsQuiet, DeleteGoesOn
          DEF Statement, SessionVanished, NegativeCap, Quiet, GoesOn
<1>5. Fail(b) \/ DeadlockAbort(b) => msgs' = msgs
  BY DEF Fail, DeadlockAbort, Rollback
<1> QED BY <1>1, <1>2, <1>3, <1>4, <1>5

-----------------------------------------------------------------------------
TurnInv == /\ Bookkeeping /\ QuestionsFirst /\ OwnTurnsWhole /\ AnswersLock /\ TurnsWhole

LEMMA NextKeepsTurnInv ==
  ASSUME Inv, CallHoldings, TurnInv, [Next]_vars
  PROVE  TurnInv'
<1>1. CASE Tick \/ UNCHANGED vars
  <2>1. UNCHANGED <<msgs, gone, ins, del, todo, nextId, pc, args, lock>>
    BY <1>1 DEF Tick, vars, rowVars, msgVars
  <2>2. /\ TurnNumbers' /\ TurnOwners' /\ DeletesKnown' /\ Finite'
    BY <2>1 DEF TurnInv, Bookkeeping, TurnNumbers, TurnOwners, DeletesKnown, Finite, Handled, Numbered
  <2>3. /\ TurnInProgress' /\ QuestionsFirst' /\ OwnTurnsWhole' /\ AnswersLock' /\ TurnsWhole'
    BY <2>1 DEF TurnInv, Bookkeeping, TurnInProgress, InTurn, QuestionsFirst, OwnTurnsWhole,
                AnswersLock, TurnsWhole, QuestionOf
  <2> QED BY <2>2, <2>3 DEF TurnInv, Bookkeeping
<1>2. ASSUME NEW b \in Backends,
             Call(b) \/ Statement(b) \/ Commit(b) \/ Fail(b) \/ DeadlockAbort(b)
      PROVE  TurnInv'
  BY <1>2, TurnNumbersKept, TurnOwnersKept, DeletesKnownKept, FiniteKept, TurnInProgressKept,
     QuestionsFirstKept, OwnTurnsWholeKept, AnswersLockKept, TurnsWholeKept
     DEF TurnInv, Bookkeeping, Inv
<1> QED BY <1>1, <1>2 DEF Next

LEMMA InitTurnInv == Init => TurnInv
<1> SUFFICES ASSUME Init PROVE TurnInv
  OBVIOUS
<1>1. TurnNumbers /\ TurnOwners /\ DeletesKnown /\ TurnInProgress
  BY DEF Init, TurnNumbers, TurnOwners, DeletesKnown, TurnInProgress, InTurn, Handled, NoArgs
<1>2. Finite
  BY FS_EmptySet DEF Init, Finite
<1>3. QuestionsFirst /\ OwnTurnsWhole /\ AnswersLock /\ TurnsWhole
  BY DEF Init, QuestionsFirst, OwnTurnsWhole, AnswersLock, TurnsWhole
<1> QED BY <1>1, <1>2, <1>3 DEF TurnInv, Bookkeeping

TurnsIInv == Inv /\ CallHoldings /\ TurnInv

LEMMA TurnsInductive ==
  /\ Init => TurnsIInv
  /\ TurnsIInv /\ [Next]_vars => TurnsIInv'
<1>1. Init => TurnsIInv
  BY InitInv, InitHoldings, InitTurnInv DEF TurnsIInv
<1>2. TurnsIInv /\ [Next]_vars => TurnsIInv'
  BY NextKeepsInv, NextKeepsHoldings, NextKeepsTurnInv DEF TurnsIInv
<1> QED BY <1>1, <1>2

(* A question that is kept has its answer kept (append_session_message,    *)
(* trim_session_messages), however turns, caps and deletions interleave.   *)
THEOREM TurnsStayWhole == Spec => []TurnsWhole
<1>1. TurnsIInv => TurnsWhole
  BY DEF TurnsIInv, TurnInv
<1> QED BY <1>1, TurnsInductive, PTL DEF Spec

(* The answers of a session are numbered in the order of their commits     *)
(* (ORDER BY id in load_session_messages).                                 *)
THEOREM AnswersCommitInOrder == Spec => AnswersInCommitOrder
<1>1. ASSUME TurnsIInv, [Next]_vars
      PROVE  [\A a \in msgs' \ msgs, o \in msgs :
                a.sid = o.sid /\ a.role = "assistant" /\ o.role = "assistant" => o.id < a.id]_vars
  <2>1. CASE Tick \/ UNCHANGED vars
    BY <2>1 DEF Tick, vars, msgVars
  <2>2. ASSUME NEW b \in Backends,
               Call(b) \/ Statement(b) \/ Commit(b) \/ Fail(b) \/ DeadlockAbort(b)
        PROVE  \A a \in msgs' \ msgs : a \in ins[b]
    BY <1>1, <2>2, StepGoesOnOrEnds, InsertAdds
       DEF TurnsIInv, TurnInv, Bookkeeping, Inv, GoesOn, Ends, Visible
  <2>3. \A a \in msgs' \ msgs : \E b \in Backends : a \in ins[b]
    BY <1>1, <2>1, <2>2 DEF Next, Tick, vars, msgVars
  <2> QED BY <1>1, <2>3 DEF TurnsIInv, TurnInv, AnswersLock
<1> QED BY <1>1, TurnsInductive, PTL DEF Spec, AnswersInCommitOrder
=============================================================================
