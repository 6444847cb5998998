------------------------ MODULE SessionWindowProofs ------------------------
(***************************************************************************)
(* Proofs about SessionStore: how much of its history a session keeps, and *)
(* which part of it.                                                       *)
(***************************************************************************)
EXTENDS SessionTurnsProofs, WellFoundedInduction

-----------------------------------------------------------------------------
(* The newest n of a set of messages.                                      *)

LEMMA SmallestExists ==
  ASSUME NEW T, T \subseteq Nat, T # {}
  PROVE  \E x \in T : \A y \in T : x <= y
<1> DEFINE R == OpToRel(<, Nat)
<1>1. IsWellFoundedOn(R, Nat)
  BY NatLessThanWellFounded, Zenon
<1>2. \A x, y \in T : y < x => <<y, x>> \in R
  <2> SUFFICES ASSUME NEW x \in T, NEW y \in T, y < x PROVE <<y, x>> \in R
    OBVIOUS
  <2>1. <<y, x>> \in Nat \X Nat /\ <<y, x>>[1] < <<y, x>>[2]
    OBVIOUS
  <2> QED BY <2>1, Zenon DEF OpToRel
<1> HIDE DEF R
<1>3. PICK x \in T : \A y \in T : <<y, x>> \notin R
  BY <1>1, WFMin, Zenon
<1>4. \A y \in T : ~(y < x)
  BY <1>2, <1>3, Zenon
<1> QED BY <1>4

LEMMA OldestExists ==
  ASSUME NEW H, H # {}, \A m \in H : m.id \in Nat
  PROVE  \E m \in H : \A x \in H : m.id <= x.id
<1> DEFINE T == {m.id : m \in H}
<1>1. T \subseteq Nat /\ T # {}
  OBVIOUS
<1>2. PICK i \in T : \A j \in T : i <= j
  BY <1>1, SmallestExists
<1> QED BY <1>2

LEMMA NewestExists ==
  ASSUME NEW H, H # {}, NEW bound \in Nat, \A m \in H : m.id \in Nat /\ m.id <= bound
  PROVE  \E m \in H : \A x \in H : x.id <= m.id
<1> DEFINE T == {bound - m.id : m \in H}
<1>1. T \subseteq Nat /\ T # {}
  OBVIOUS
<1>2. PICK i \in T : \A j \in T : i <= j
  BY <1>1, SmallestExists
<1>3. PICK m \in H : i = bound - m.id
  BY <1>2
<1>4. \A x \in H : bound - m.id <= bound - x.id
  BY <1>2, <1>3
<1> QED BY <1>4

(* OFFSET n leaves at most n messages ...                                  *)
LEMMA NewestBound ==
  ASSUME NEW H, IsFiniteSet(H), \A m \in H : m.id \in Nat,
         \A m, o \in H : m.id = o.id => m = o, NEW n \in Nat
  PROVE  /\ IsFiniteSet(Newest(H, n)) /\ Cardinality(Newest(H, n)) <= n
<1> DEFINE N == Newest(H, n)
<1>1. N \in SUBSET H
  BY DEF Newest
<1>2. IsFiniteSet(N) /\ Cardinality(N) \in Nat
  BY <1>1, FS_Subset, FS_CardinalityType
<1>3. CASE N = {}
  BY <1>3, FS_EmptySet
<1>4. CASE N # {}
  <2>1. PICK m \in N : \A x \in N : m.id <= x.id
    <3> HIDE DEF N
    <3> QED BY <1>1, <1>4, OldestExists
  <2>2. NewerThan(H, m) \in SUBSET H /\ N \ {m} \in SUBSET NewerThan(H, m)
    BY <1>1, <2>1 DEF NewerThan
  <2>3. IsFiniteSet(NewerThan(H, m)) /\ Cardinality(NewerThan(H, m)) \in Nat
    BY <2>2, FS_Subset, FS_CardinalityType
  <2>4. Cardinality(N \ {m}) <= Cardinality(NewerThan(H, m))
    BY <2>2, <2>3, FS_Subset
  <2>5. Cardinality(N \ {m}) = Cardinality(N) - 1
    BY <1>2, FS_RemoveElement
  <2>6. Cardinality(NewerThan(H, m)) < n
    BY <2>1 DEF Newest
  <2> QED BY <1>2, <2>3, <2>4, <2>5, <2>6
<1> QED BY <1>2, <1>3, <1>4

(* ... and no fewer when it drops any, each newer than what it drops.      *)
LEMMA NewestIsFull ==
  ASSUME NEW H, IsFiniteSet(H), NEW bound \in Nat, \A m \in H : m.id \in Nat /\ m.id <= bound,
         NEW n \in Nat, H \ Newest(H, n) # {}
  PROVE  /\ Cardinality(Newest(H, n)) >= n
         /\ \A m \in Newest(H, n), d \in H \ Newest(H, n) : d.id < m.id
<1> DEFINE N == Newest(H, n)
           D == H \ N
<1>1. N \in SUBSET H /\ D \subseteq H
  BY DEF Newest
<1>2. IsFiniteSet(N) /\ Cardinality(N) \in Nat
  BY <1>1, FS_Subset, FS_CardinalityType
<1>3. \A m \in N, d \in D : d.id < m.id
  BY <1>1, NewestIsClosed
<1>4. Cardinality(N) >= n
  <2>1. PICK d \in D : \A x \in D : x.id <= d.id
    <3>1. D # {} /\ \A m \in D : m.id \in Nat /\ m.id <= bound
      BY <1>1
    <3> HIDE DEF D
    <3> QED BY <3>1, NewestExists
  <2>2. NewerThan(H, d) \in SUBSET N
    BY <1>1, <2>1 DEF NewerThan
  <2>3. IsFiniteSet(NewerThan(H, d)) /\ Cardinality(NewerThan(H, d)) <= Cardinality(N)
    BY <1>2, <2>2, FS_Subset
  <2>4. Cardinality(NewerThan(H, d)) \in Nat
    BY <2>3, FS_CardinalityType
  <2>5. ~(Cardinality(NewerThan(H, d)) < n)
    BY <1>1, <2>1 DEF Newest
  <2> QED BY <1>2, <2>3, <2>4, <2>5
<1> QED BY <1>3, <1>4

-----------------------------------------------------------------------------
(* How much of a session's history a transaction leaves.                   *)

UniqueIds ==
  \A b, c \in Backends : \A m \in msgs \cup ins[b], o \in msgs \cup ins[c] :
    m.id = o.id => m = o

(* The caps that b knows a session to have been given.                     *)
KnownCaps(b, s) == offered[s] \cup (IF lock[s] = b THEN given[s] ELSE {})

RowCaps ==
  /\ \A s \in Sessions : sess[s].status # "unborn" => sess[s].cap \in offered[s]
  /\ \A s \in Sessions : lock[s] # NoBackend => newv[s].cap \in offered[s] \cup given[s]

RowLives ==
  /\ \A s \in Sessions : lock[s] # NoBackend => sess[s].status # "dead"
  /\ \A m \in gone : sess[m.sid].status # "unborn"

FiniteCaps == \A s \in Sessions : IsFiniteSet(offered[s]) /\ IsFiniteSet(given[s])

ArgsFit(b) ==
  LET s == args[b].sid IN
  /\ pc[b] \in {"idle", "open"} => args[b].op = "none"
  /\ args[b].op \in {"chat", "set_max"} => View(b, s).status # "unborn"
  /\ args[b].op = "chat" => args[b].cap \in KnownCaps(b, s)
  /\ args[b].op = "set_max" /\ pc[b] = "trim" /\ Found(b, s) => args[b].cap \in KnownCaps(b, s)
CallArgs == \A b \in Backends : ArgsFit(b)

(* The chat in progress has yet to trim the history to its own messages.   *)
Untrimmed(b, s) ==
  args[b].op = "chat" /\ args[b].sid = s /\ (~Answered(b) \/ pc[b] = "trim")

(* Otherwise a transaction with messages of a session holds the session's  *)
(* row and leaves no more than some cap allows.                            *)
Kept(b, s) == History(Visible(b), s) \ todo[b]

SettledAt(b, s) ==
  History(ins[b], s) # {} /\ ~Untrimmed(b, s) =>
    /\ lock[s] = b
    /\ \E cap \in KnownCaps(b, s) : Cardinality(Kept(b, s)) <= Window(cap)

Settled == \A b \in Backends, s \in Sessions : SettledAt(b, s)

Newer(M, D) == \A m \in M, d \in D : d.id < m.id

(* As long as a session has one cap, whoever deletes some of its messages  *)
(* leaves a full window of newer ones, except to delete all.               *)
LeavesNewest(b, s, n) ==
  LET D == History(del[b] \cup todo[b], s) IN
  D # {} => \E N \in SUBSET Kept(b, s) : Cardinality(N) >= Window(n) /\ Newer(N, D)

TrimsAt(b, s, n) ==
  /\ Found(b, s) /\ KnownCaps(b, s) \subseteq {n}
  /\ ~(pc[b] \in {"wiping", "drop"} /\ args[b].sid = s)
  => LeavesNewest(b, s, n)
Trims == \A b \in Backends, s \in Sessions, n \in Caps \cup {0} : TrimsAt(b, s, n)

FullWindows ==
  \A s \in Sessions, n \in Caps \cup {0} :
    offered[s] \subseteq {n} /\ History(gone, s) # {} /\ sess[s].status = "live" =>
      /\ Cardinality(History(msgs, s)) >= Window(n)
      /\ Newer(History(msgs, s), History(gone, s))

-----------------------------------------------------------------------------
(* What a step of b does to the row of a session.                          *)

RowSame(s) == /\ sess'[s] = sess[s] /\ newv'[s] = newv[s] /\ lock'[s] = lock[s]
              /\ given'[s] = given[s] /\ offered'[s] = offered[s]
RowCreated(b, s) == /\ sess[s].status = "unborn" /\ lock[s] = NoBackend
                    /\ sess'[s] = sess[s] /\ lock'[s] = b /\ offered'[s] = offered[s]
                    /\ newv'[s].status = "live" /\ given'[s] = {newv'[s].cap}
RowWritten(b, s) ==
  /\ Found(b, s) /\ lock[s] \in {NoBackend, b}
  /\ sess'[s] = sess[s] /\ lock'[s] = b /\ offered'[s] = offered[s]
  /\ newv'[s].status \in {"live", "dead"}
  /\ \/ newv'[s].cap = View(b, s).cap /\ given'[s] = given[s]
     \/ given'[s] = given[s] \cup {newv'[s].cap}
RowCommitted(b, s) ==
  /\ lock[s] = b /\ lock'[s] = NoBackend /\ sess'[s] = newv[s] /\ newv'[s] = newv[s]
  /\ offered'[s] = offered[s] \cup given[s] /\ given'[s] = {}
RowRolledBack(b, s) ==
  /\ lock[s] = b /\ lock'[s] = NoBackend /\ sess'[s] = sess[s] /\ newv'[s] = sess[s]
  /\ offered'[s] = offered[s] /\ given'[s] = {}

LEMMA EndRowEffects ==
  ASSUME TypeOK, NEW b \in Backends, NEW s \in Sessions
  PROVE  /\ Commit(b) => RowSame(s) \/ RowCommitted(b, s)
         /\ Rollback(b) => RowSame(s) \/ RowRolledBack(b, s)
<1>1. ASSUME Commit(b) PROVE RowSame(s) \/ RowCommitted(b, s)
  <2>1. CASE lock[s] = b
    BY <1>1, <2>1 DEF Commit, EndTransaction, View, RowCommitted
  <2>2. CASE lock[s] # b
    BY <1>1, <2>2 DEF Commit, EndTransaction, View, RowSame
  <2> QED BY <2>1, <2>2
<1>2. ASSUME Rollback(b) PROVE RowSame(s) \/ RowRolledBack(b, s)
  <2>1. CASE lock[s] = b
    BY <1>2, <2>1 DEF Rollback, EndTransaction, RowRolledBack
  <2>2. CASE lock[s] # b
    BY <1>2, <2>2 DEF Rollback, EndTransaction, RowSame
  <2> QED BY <2>1, <2>2
<1> QED BY <1>1, <1>2

LEMMA CallRowEffects ==
  ASSUME TypeOK, NEW b \in Backends, NEW s \in Sessions, Call(b)
  PROVE  RowSame(s) \/ RowCreated(b, s)
<1>1. ASSUME NEW x \in Sessions, NEW cap \in Caps, CreateSession(b, x, cap)
      PROVE  RowSame(s) \/ RowCreated(b, s)
  <2>1. CASE x = s
    BY <1>1, <2>1 DEF CreateSession, RowCreated, TypeOK
  <2>2. CASE x # s
    BY <1>1, <2>2 DEF CreateSession, RowSame, TypeOK
  <2> QED BY <2>1, <2>2
<1>2. CASE UNCHANGED <<rowVars, capVars>>
  BY <1>2 DEF rowVars, capVars, RowSame
<1> QED BY <1>1, <1>2 DEF Call, StartSetMax, StartChat, StartSetState, StartDelete, StartCleanup

LEMMA StatementRowEffects ==
  ASSUME TypeOK, NEW b \in Backends, NEW s \in Sessions, Statement(b)
  PROVE  RowSame(s) \/ RowWritten(b, s) \/ RowRolledBack(b, s)
<1>1. args[b].sid \in Sessions /\ expired[b] \subseteq Sessions
  BY DEF TypeOK, Args
<1>2. \A x \in Sessions : View(b, x) \in Row
  BY ViewType
<1>3. \A x \in Sessions : RowWriter(b, x) = {} \/ RowUsers(b, x) = {} => lock[x] \in {NoBackend, b}
  BY DEF RowWriter, RowUsers
<1>4. ASSUME NEW x \in Sessions, NEW new, UpdateRow(b, x, new), lock[x] \in {NoBackend, b},
             UNCHANGED <<sess, offered, given>>, new.cap = View(b, x).cap,
             Found(b, x) => new.status \in {"live", "dead"}
      PROVE  RowSame(s) \/ RowWritten(b, s)
  <2>1. CASE x = s /\ Found(b, s)
    BY <1>4, <2>1 DEF UpdateRow, RowWritten, TypeOK
  <2>2. CASE ~(x = s /\ Found(b, s))
    BY <1>4, <2>2 DEF UpdateRow, RowSame, TypeOK
  <2> QED BY <2>1, <2>2
<1>5. CASE SessionVanished(b) \/ NegativeCap(b)
  BY <1>5, EndRowEffects DEF SessionVanished, NegativeCap
<1>6. CASE \/ InsertMessage(b) \/ BeginTrim(b) \/ BeginWipe(b) \/ BeginCascade(b)
           \/ \E m \in todo[b] : DeleteMessage(b, m)
  BY <1>6 DEF InsertMessage, BeginTrim, BeginWipe, BeginCascade, BeginDelete, DeleteMessage,
              rowVars, capVars, RowSame
<1>7. \A x \in Sessions :
        /\ [View(b, x) EXCEPT !.active = start[b]].cap = View(b, x).cap
        /\ [View(b, x) EXCEPT !.active = start[b]].status = View(b, x).status
        /\ [View(b, x) EXCEPT !.status = "dead"].cap = View(b, x).cap
        /\ [View(b, x) EXCEPT !.status = "dead"].status = "dead"
        /\ \A cap : /\ [View(b, x) EXCEPT !.cap = cap].cap = cap
                    /\ [View(b, x) EXCEPT !.cap = cap].status = View(b, x).status
  BY <1>2 DEF Row
<1>8. CASE TouchSession(b)
  <2>1. UpdateRow(b, args[b].sid, [View(b, args[b].sid) EXCEPT !.active = start[b]])
        /\ lock[args[b].sid] \in {NoBackend, b} /\ UNCHANGED <<sess, offered, given>>
    BY <1>1, <1>3, <1>8 DEF TouchSession, TouchWaits, capVars
  <2> QED BY <1>1, <1>4, <1>7, <2>1 DEF Found
<1>9. CASE SetState(b)
  <2>1. UpdateRow(b, args[b].sid, [View(b, args[b].sid) EXCEPT !.active = start[b]])
        /\ lock[args[b].sid] \in {NoBackend, b} /\ UNCHANGED <<sess, offered, given>>
    BY <1>1, <1>3, <1>9 DEF SetState, capVars
  <2> QED BY <1>1, <1>4, <1>7, <2>1 DEF Found
<1>10. CASE DropSession(b)
  <2>1. UpdateRow(b, args[b].sid, [View(b, args[b].sid) EXCEPT !.status = "dead"])
        /\ lock[args[b].sid] \in {NoBackend, b} /\ UNCHANGED <<sess, offered, given>>
    BY <1>1, <1>3, <1>10 DEF DropSession, capVars
  <2> QED BY <1>1, <1>4, <1>7, <2>1
<1>11. ASSUME NEW x \in expired[b], ExpireSession(b, x)
       PROVE  RowSame(s) \/ RowWritten(b, s)
  <2>1. /\ \/ UpdateRow(b, x, [View(b, x) EXCEPT !.status = "dead"])
           \/ UNCHANGED <<newv, lock>>
        /\ x \in Sessions /\ lock[x] \in {NoBackend, b} /\ UNCHANGED <<sess, offered, given>>
    BY <1>1, <1>3, <1>11 DEF ExpireSession, capVars
  <2>2. CASE UNCHANGED <<newv, lock>>
    BY <2>1, <2>2 DEF RowSame
  <2> QED BY <1>4, <1>7, <2>1, <2>2
<1>12. CASE SetMaxMessages(b)
  <2> DEFINE x == args[b].sid
             new == [View(b, x) EXCEPT !.cap = args[b].cap]
  <2>1. /\ x \in Sessions /\ UpdateRow(b, x, new) /\ lock[x] \in {NoBackend, b}
        /\ UNCHANGED <<sess, offered>>
        /\ given' = IF Found(b, x) THEN [given EXCEPT ![x] = @ \cup {args[b].cap}] ELSE given
    BY <1>1, <1>3, <1>12 DEF SetMaxMessages
  <2>2. new.cap = args[b].cap /\ new.status = View(b, x).status
    BY <1>1, <1>7
  <2>3. CASE x = s /\ Found(b, s)
    <3>1. newv'[s] = new /\ lock'[s] = b /\ given'[s] = given[s] \cup {args[b].cap}
      BY <2>1, <2>3 DEF UpdateRow, TypeOK
    <3> QED BY <2>1, <2>2, <2>3, <3>1 DEF RowWritten, Found
  <2>4. CASE ~(x = s /\ Found(b, s))
    BY <2>1, <2>4 DEF UpdateRow, RowSame, TypeOK
  <2> QED BY <2>3, <2>4
<1> QED BY <1>5, <1>6, <1>8, <1>9, <1>10, <1>11, <1>12 DEF Statement

StepOf(b) == Call(b) \/ Statement(b) \/ Commit(b) \/ Fail(b) \/ DeadlockAbort(b)

LEMMA RowEffects ==
  ASSUME TypeOK, NEW b \in Backends, StepOf(b), NEW s \in Sessions
  PROVE  \/ RowSame(s) \/ RowCreated(b, s) \/ RowWritten(b, s)
         \/ RowCommitted(b, s) \/ RowRolledBack(b, s)
BY CallRowEffects, StatementRowEffects, EndRowEffects DEF StepOf, Fail, DeadlockAbort

LEMMA RowEndsTransaction ==
  ASSUME TypeOK, NEW b \in Backends, StepOf(b), NEW s \in Sessions,
         RowCommitted(b, s) \/ RowRolledBack(b, s)
  PROVE  Ends(b)
BY OwnLocksStay, SessionStoreAssumption DEF StepOf, RowCommitted, RowRolledBack

LEMMA RowCapsKept ==
  ASSUME TypeOK, RowCaps, NEW b \in Backends, StepOf(b)
  PROVE  RowCaps'
<1> SUFFICES ASSUME NEW s \in Sessions
             PROVE  /\ sess'[s].status # "unborn" => sess'[s].cap \in offered'[s]
                    /\ lock'[s] # NoBackend => newv'[s].cap \in offered'[s] \cup given'[s]
  BY DEF RowCaps
<1>1. /\ sess[s].status # "unborn" => sess[s].cap \in offered[s]
      /\ lock[s] # NoBackend => newv[s].cap \in offered[s] \cup given[s]
  BY DEF RowCaps
<1>2. CASE RowSame(s) \/ RowCreated(b, s)
  BY <1>1, <1>2 DEF RowSame, RowCreated
<1>3. CASE RowWritten(b, s)
  <2>1. View(b, s).cap \in offered[s] \cup given[s]
    BY <1>1, <1>3, SessionStoreAssumption DEF RowWritten, Found, View
  <2> QED BY <1>1, <1>3, <2>1 DEF RowWritten
<1>4. CASE RowCommitted(b, s) \/ RowRolledBack(b, s)
  BY <1>1, <1>4, SessionStoreAssumption DEF RowCommitted, RowRolledBack
<1> QED BY <1>2, <1>3, <1>4, RowEffects

LEMMA FiniteCapsKept ==
  ASSUME TypeOK, FiniteCaps, NEW b \in Backends, StepOf(b)
  PROVE  FiniteCaps'
<1> SUFFICES ASSUME NEW s \in Sessions
             PROVE  IsFiniteSet(offered'[s]) /\ IsFiniteSet(given'[s])
  BY DEF FiniteCaps
<1>1. IsFiniteSet(offered[s]) /\ IsFiniteSet(given[s])
  BY DEF FiniteCaps
<1>2. CASE RowSame(s) \/ RowCreated(b, s)
  BY <1>1, <1>2, FS_Singleton DEF RowSame, RowCreated
<1>3. CASE RowWritten(b, s)
  <2>1. \A cap : IsFiniteSet(given[s] \cup {cap})
    BY <1>1, FS_AddElement
  <2> QED BY <1>1, <1>3, <2>1 DEF RowWritten
<1>4. CASE RowCommitted(b, s) \/ RowRolledBack(b, s)
  <2>1. IsFiniteSet(offered[s] \cup given[s]) /\ IsFiniteSet({})
    BY <1>1, FS_Union, FS_EmptySet
  <2> QED BY <1>1, <1>4, <2>1 DEF RowCommitted, RowRolledBack
<1> QED BY <1>2, <1>3, <1>4, RowEffects

LEMMA RowLivesKept ==
  ASSUME Inv, TurnInProgress, DeletesKnown, RowLives, NEW b \in Backends, StepOf(b)
  PROVE  RowLives'
<1>0. TypeOK /\ RowVersions
  BY DEF Inv, LockDiscipline
<1>1. ASSUME NEW s \in Sessions
      PROVE  /\ lock'[s] # NoBackend => sess'[s].status # "dead"
             /\ sess[s].status # "unborn" => sess'[s].status # "unborn"
  <2>1. lock[s] # NoBackend => sess[s].status # "dead" /\ newv[s].status # "unborn"
    BY <1>0 DEF RowLives, RowVersions
  <2>2. CASE RowSame(s) \/ RowCreated(b, s)
    BY <2>1, <2>2 DEF RowSame, RowCreated
  <2>3. CASE RowWritten(b, s)
    BY <2>1, <2>3, SessionStoreAssumption DEF RowWritten, Found, View
  <2>4. CASE RowCommitted(b, s) \/ RowRolledBack(b, s)
    BY <2>1, <2>4, SessionStoreAssumption DEF RowCommitted, RowRolledBack
  <2> QED BY <1>0, <2>2, <2>3, <2>4, RowEffects
<1>2. ASSUME NEW m \in gone'
      PROVE  sess'[m.sid].status # "unborn"
  <2>1. m \in gone \/ (Commit(b) /\ m \in del[b])
    <3>1. Call(b) \/ Statement(b) \/ Fail(b) \/ DeadlockAbort(b) => gone' = gone
      <4>1. Rollback(b) => gone' = gone
        BY DEF Rollback
      <4> QED BY <1>0, <4>1, CallIsQuiet, RowStatementIsQuiet, InsertAdds, DeleteGoesOn
              DEF Statement, SessionVanished, NegativeCap, Fail, DeadlockAbort, Quiet, GoesOn
    <3> QED BY <1>2, <3>1 DEF StepOf, Commit
  <2>2. m.sid \in Sessions
    BY <1>0, <2>1 DEF TypeOK, Message
  <2>3. CASE m \in gone
    BY <1>1, <2>2, <2>3 DEF RowLives
  <2>4. CASE Commit(b) /\ m \in msgs
    BY <1>1, <2>2, <2>4 DEF Inv, NoOrphans
  <2>5. CASE Commit(b) /\ m \in ins[b]
    <3>1. b \in share[m.sid]
      BY <2>5 DEF Inv, LockDiscipline, InsertsReference
    <3>2. lock[m.sid] = b \/ sess[m.sid].status = "live"
      BY <2>2, <3>1 DEF Inv, LockDiscipline, ReferencesHold
    <3>3. View(b, m.sid).status # "unborn"
      BY <1>0, <2>2, <3>2, SessionStoreAssumption DEF View, RowVersions
    <3> QED BY <2>2, <2>5, <3>3 DEF Commit
  <2> QED BY <2>1, <2>3, <2>4, <2>5 DEF DeletesKnown
<1> QED BY <1>1, <1>2 DEF RowLives

(* Views grow older, and the caps that are known grow.                     *)
LEMMA ViewsAge ==
  ASSUME TypeOK, RowVersions, RowLives, NEW b \in Backends, StepOf(b), NEW c \in Backends,
         c # b \/ ~Ends(b), NEW s \in Sessions
  PROVE  /\ KnownCaps(c, s) \subseteq KnownCaps(c, s)'
         /\ View(c, s).status # "unborn" => View(c, s)'.status # "unborn"
         /\ View(c, s).status = "dead" => View(c, s)'.status = "dead"
<1>1. lock[s] # NoBackend => sess[s].status # "dead" /\ newv[s].status # "unborn"
  BY DEF RowLives, RowVersions
<1>2. CASE RowSame(s)
  BY <1>2 DEF RowSame, KnownCaps, View
<1>3. CASE RowCreated(b, s)
  BY <1>3, SessionStoreAssumption DEF RowCreated, KnownCaps, View
<1>4. CASE RowWritten(b, s)
  BY <1>1, <1>4, SessionStoreAssumption DEF RowWritten, KnownCaps, View, Found
<1>5. CASE RowCommitted(b, s) \/ RowRolledBack(b, s)
  <2>1. c # b
    BY <1>5, RowEndsTransaction
  <2> QED BY <1>1, <1>5, <2>1, SessionStoreAssumption
          DEF RowCommitted, RowRolledBack, KnownCaps, View
<1> QED BY <1>2, <1>3, <1>4, <1>5, RowEffects

LEMMA UniqueIdsKept ==
  ASSUME TypeOK, TurnInProgress, TurnNumbers, UniqueIds, NEW b \in Backends, StepOf(b)
  PROVE  UniqueIds'
<1>1. \A c \in Backends \ {b} : ins'[c] = ins[c]
  BY NextLeavesOthers DEF LeavesOthers, StepOf
<1>2. CASE GoesOn(b) \/ Ends(b)
  <2>1. msgs' \subseteq msgs \cup ins[b] /\ ins'[b] \subseteq ins[b]
    BY <1>2 DEF GoesOn, Ends, Visible
  <2> QED BY <1>1, <2>1 DEF UniqueIds
<1>3. CASE InsertMessage(b)
  <2>1. PICK new \in Message : ins'[b] = ins[b] \cup {new} /\ msgs' = msgs /\ new.id = nextId
    BY <1>3, InsertAdds
  <2>2. \A c \in Backends : \A m \in msgs \cup ins[c] : m.id # new.id
    <3>1. \A c \in Backends : \A m \in msgs \cup ins[c] : m.id < nextId /\ m.id \in Nat
      BY DEF TurnNumbers, Numbered, Handled, TypeOK, Message
    <3> QED BY <2>1, <3>1 DEF TypeOK
  <2>3. \A c \in Backends : ins'[c] \subseteq ins[c] \cup {new}
    BY <1>1, <2>1
  <2> QED BY <2>1, <2>2, <2>3 DEF UniqueIds
<1> QED BY <1>2, <1>3, StepGoesOnOrEnds DEF StepOf

-----------------------------------------------------------------------------
(* What calls work with.                                                   *)

(* A statement goes on with the arguments of its call, or the call ends.   *)
LEMMA ArgsEffects ==
  ASSUME TypeOK, TurnInProgress, NEW b \in Backends, Statement(b)
  PROVE  \/ args'[b].op = "none"
         \/ /\ args'[b].op = args[b].op /\ args'[b].sid = args[b].sid /\ args'[b].cap = args[b].cap
            /\ pc'[b] \notin {"idle", "open"}
            /\ pc'[b] = "trim" => args[b].op = "chat" \/ SetMaxMessages(b)
<1> DEFINE Goal == \/ args'[b].op = "none"
                   \/ /\ args'[b].op = args[b].op /\ args'[b].sid = args[b].sid /\ args'[b].cap = args[b].cap
                      /\ pc'[b] \notin {"idle", "open"}
                      /\ pc'[b] = "trim" => args[b].op = "chat" \/ SetMaxMessages(b)
<1>1. ASSUME NEW statement \in {"trimming", "wiping", "cascading", "touch", "drop", "open", "insert"},
             Return(b, statement)
      PROVE  Goal
  BY <1>1 DEF Return, GoTo, NoArgs, TypeOK
<1>2. ASSUME EndTransaction(b)
      PROVE  Goal
  BY <1>2 DEF EndTransaction, NoArgs, TypeOK
<1>3. CASE SessionVanished(b) \/ NegativeCap(b)
  BY <1>2, <1>3 DEF SessionVanished, NegativeCap, Rollback
<1>4. CASE InsertMessage(b)
  <2>1. args'[b] = [args[b] EXCEPT !.turn = IF args[b].turn = 0 THEN nextId ELSE args[b].turn]
    BY <1>4 DEF InsertMessage, TypeOK
  <2>2. args'[b].op = args[b].op /\ args'[b].sid = args[b].sid /\ args'[b].cap = args[b].cap
    BY <2>1 DEF TypeOK, Args
  <2>3. pc'[b] = "trim" /\ args[b].op = "chat"
    BY <1>4 DEF InsertMessage, GoTo, TurnInProgress, InTurn, TypeOK
  <2> QED BY <2>2, <2>3
<1>5. CASE BeginTrim(b) \/ BeginWipe(b) \/ BeginCascade(b)
  BY <1>1, <1>5, AfterType DEF BeginTrim, BeginWipe, BeginCascade, BeginDelete
<1>6. ASSUME NEW m \in todo[b], DeleteMessage(b, m)
      PROVE  Goal
  BY <1>1, <1>6, AfterType DEF DeleteMessage
<1>7. CASE TouchSession(b) \/ SetState(b)
  BY <1>1, <1>7 DEF TouchSession, SetState
<1>8. CASE SetMaxMessages(b) \/ DropSession(b) \/ \E x \in expired[b] : ExpireSession(b, x)
  BY <1>8 DEF SetMaxMessages, DropSession, ExpireSession, GoTo, TypeOK
<1> QED BY <1>3, <1>4, <1>5, <1>6, <1>7, <1>8 DEF Statement

LEMMA CallKeepsArgsFit ==
  ASSUME TypeOK, RowCaps, NEW b \in Backends, ArgsFit(b), Call(b)
  PROVE  ArgsFit(b)'
<1>1. ASSUME NEW s \in Sessions, NEW cap \in Caps, CreateSession(b, s, cap)
      PROVE  ArgsFit(b)'
  <2>1. args'[b].op = "none"
    BY <1>1 DEF CreateSession, Enter, Working, ArgsFit
  <2> QED BY <2>1 DEF ArgsFit
<1>2. ASSUME NEW s \in Sessions, NEW cap \in Caps, StartSetMax(b, s, cap)
      PROVE  ArgsFit(b)'
  <2>1. args'[b].op = "set_max" /\ args'[b].sid = s /\ pc'[b] = "update"
    BY <1>2 DEF StartSetMax, GoTo, NoArgs, TypeOK
  <2>2. View(b, s)' = View(b, s) /\ Found(b, s)
    BY <1>2 DEF StartSetMax, rowVars, View
  <2> QED BY <2>1, <2>2 DEF ArgsFit, Found
<1>3. ASSUME NEW s \in Sessions, StartChat(b, s)
      PROVE  ArgsFit(b)'
  <2>1. args'[b].op = "chat" /\ args'[b].sid = s /\ args'[b].cap = View(b, s).cap /\ pc'[b] = "insert"
    BY <1>3 DEF StartChat, GoTo, NoArgs, TypeOK
  <2>2. View(b, s)' = View(b, s) /\ Found(b, s) /\ KnownCaps(b, s)' = KnownCaps(b, s)
    BY <1>3 DEF StartChat, rowVars, capVars, View, KnownCaps
  <2>3. View(b, s).cap \in KnownCaps(b, s)
    BY <2>2, SessionStoreAssumption DEF Found, View, RowCaps, KnownCaps
  <2> QED BY <2>1, <2>2, <2>3 DEF ArgsFit, Found
<1>4. ASSUME NEW s \in Sessions, StartSetState(b, s)
      PROVE  ArgsFit(b)'
  BY <1>4 DEF StartSetState, GoTo, NoArgs, TypeOK, ArgsFit
<1>5. ASSUME NEW s \in Sessions, StartDelete(b, s)
      PROVE  ArgsFit(b)'
  BY <1>5 DEF StartDelete, GoTo, NoArgs, TypeOK, ArgsFit
<1>6. ASSUME NEW t \in Timeouts, StartCleanup(b, t)
      PROVE  ArgsFit(b)'
  BY <1>6 DEF StartCleanup, GoTo, NoArgs, TypeOK, ArgsFit
<1> QED BY <1>1, <1>2, <1>3, <1>4, <1>5, <1>6 DEF Call

LEMMA CallArgsKept ==
  ASSUME TypeOK, TurnInProgress, RowVersions, RowLives, RowCaps, CallArgs,
         NEW b \in Backends, StepOf(b)
  PROVE  CallArgs'
<1>0. \A c \in Backends : args[c].sid \in Sessions /\ ArgsFit(c) /\ View(c, args[c].sid) \in Row
  BY ViewType DEF CallArgs, TypeOK, Args
(* A session that was there and is not found does not come back. *)
<1>1. ASSUME NEW c \in Backends, c # b \/ ~Ends(b), args'[c].op = args[c].op,
             args'[c].sid = args[c].sid, args'[c].cap = args[c].cap,
             \/ pc'[c] = pc[c]
             \/ /\ pc'[c] \notin {"idle", "open"}
                /\ pc'[c] = "trim" => args[c].op = "chat"
      PROVE  ArgsFit(c)'
  <2>0. PICK s \in Sessions : s = args[c].sid
    BY <1>0
  <2>1. /\ KnownCaps(c, s) \subseteq KnownCaps(c, s)'
        /\ View(c, s).status # "unborn" => View(c, s)'.status # "unborn"
        /\ View(c, s).status = "dead" => View(c, s)'.status = "dead"
    BY <1>0, <1>1, ViewsAge
  <2>2. args[c].op = "set_max" /\ Found(c, s)' => Found(c, s)
    BY <1>0, <2>0, <2>1 DEF Found, ArgsFit, Row
  <2>3. /\ pc[c] \in {"idle", "open"} => args[c].op = "none"
        /\ args[c].op \in {"chat", "set_max"} => View(c, s).status # "unborn"
        /\ args[c].op = "chat" => args[c].cap \in KnownCaps(c, s)
        /\ args[c].op = "set_max" /\ pc[c] = "trim" /\ Found(c, s) => args[c].cap \in KnownCaps(c, s)
    BY <1>0, <2>0 DEF ArgsFit
  <2>4. /\ pc'[c] \in {"idle", "open"} => args'[c].op = "none"
        /\ args'[c].op \in {"chat", "set_max"} => View(c, s)'.status # "unborn"
        /\ args'[c].op = "chat" => args'[c].cap \in KnownCaps(c, s)'
        /\ args'[c].op = "set_max" /\ pc'[c] = "trim" /\ Found(c, s)' => args'[c].cap \in KnownCaps(c, s)'
    BY <1>1, <2>1, <2>2, <2>3
  <2>5. args'[c].sid = s
    BY <1>1, <2>0
  <2> QED BY <2>4, <2>5 DEF ArgsFit, Found, View, KnownCaps
<1>2. \A c \in Backends \ {b} : ArgsFit(c)'
  <2> SUFFICES ASSUME NEW c \in Backends \ {b} PROVE ArgsFit(c)'
    OBVIOUS
  <2>1. /\ args'[c].op = args[c].op /\ args'[c].sid = args[c].sid
        /\ args'[c].cap = args[c].cap /\ pc'[c] = pc[c] /\ c # b
    BY NextLeavesOthers DEF LeavesOthers, StepOf
  <2> QED BY <1>1, <2>1
<1>3. args'[b].op = "none" => ArgsFit(b)'
  BY DEF ArgsFit
<1>4. ArgsFit(b)'
  <2>1. CASE Commit(b) \/ Fail(b) \/ DeadlockAbort(b)
    BY <1>3, <2>1 DEF Commit, Fail, DeadlockAbort, Rollback, EndTransaction, NoArgs, TypeOK
  <2>2. CASE Call(b)
    BY <1>0, <2>2, CallKeepsArgsFit
  <2>3. CASE Statement(b) /\ SetMaxMessages(b)
    <3>0. PICK s \in Sessions : s = args[b].sid
      BY <1>0
    <3>1. args' = args /\ pc'[b] = "trim" /\ args[b].op = "set_max" /\ ~Ends(b)
      BY <2>3 DEF SetMaxMessages, GoTo, TypeOK, Ends
    <3>2. View(b, s)'.status # "unborn"
      BY <1>0, <3>0, <3>1, ViewsAge DEF ArgsFit
    <3>3. CASE Found(b, s)
      <4>1. lock'[s] = b /\ args[b].cap \in given'[s]
        BY <3>0, <2>3, <3>3 DEF SetMaxMessages, UpdateRow, TypeOK
      <4>2. args[b].cap \in KnownCaps(b, s)'
        BY <4>1 DEF KnownCaps
      <4> QED BY <3>0, <3>1, <3>2, <4>2 DEF ArgsFit, View, KnownCaps
    <3>4. CASE ~Found(b, s)
      <4>1. UNCHANGED <<sess, newv, lock>>
        BY <2>3, <3>0, <3>4 DEF SetMaxMessages, UpdateRow
      <4>2. ~Found(b, s)'
        BY <3>4, <4>1 DEF Found, View
      <4> QED BY <3>0, <3>1, <3>2, <4>2 DEF ArgsFit, View, Found
    <3> QED BY <3>3, <3>4
  <2>4. CASE Statement(b) /\ ~SetMaxMessages(b) /\ args'[b].op # "none"
    <3>1. /\ args'[b].op = args[b].op /\ args'[b].sid = args[b].sid /\ args'[b].cap = args[b].cap
          /\ pc'[b] \notin {"idle", "open"}
          /\ pc'[b] = "trim" => args[b].op = "chat"
      BY <2>4, ArgsEffects
    <3>2. ~Ends(b)
      BY <3>1 DEF Ends
    <3> QED BY <1>1, <3>1, <3>2
  <2> QED BY <1>3, <2>1, <2>2, <2>3, <2>4 DEF StepOf
<1> QED BY <1>2, <1>4 DEF CallArgs

(* A chat is at one of its own statements.                                 *)
ChatStatements ==
  \A b \in Backends : args[b].op = "chat" => pc[b] \in {"insert", "trim", "trimming", "touch"}

LEMMA ChatStatementsKept ==
  ASSUME TypeOK, TurnInProgress, CallArgs, ChatStatements, NEW b \in Backends, StepOf(b)
  PROVE  ChatStatements'
<1>0. \A c \in Backends \ {b} : args'[c] = args[c] /\ pc'[c] = pc[c]
  BY NextLeavesOthers DEF LeavesOthers, StepOf
<1> SUFFICES ASSUME args'[b].op = "chat" PROVE pc'[b] \in {"insert", "trim", "trimming", "touch"}
  BY <1>0 DEF ChatStatements
<1>1. CASE Call(b)
  <2>1. pc[b] \in {"idle", "open"} /\ args[b].op # "chat"
    BY <1>1 DEF Call, CreateSession, StartSetMax, StartChat, StartSetState, StartDelete,
                StartCleanup, Enter, Working, CallArgs, ArgsFit
  <2>2. CASE \E s \in Sessions : StartChat(b, s)
    BY <2>2 DEF StartChat, GoTo, TypeOK
  <2>3. CASE \E s \in Sessions, cap \in Caps : CreateSession(b, s, cap)
    BY <2>1, <2>3 DEF CreateSession
  <2>4. CASE \E s \in Sessions, cap \in Caps : StartSetMax(b, s, cap)
    BY <2>4 DEF StartSetMax, NoArgs, TypeOK
  <2>5. CASE \E s \in Sessions : StartSetState(b, s)
    BY <2>5 DEF StartSetState, NoArgs, TypeOK
  <2>6. CASE \E s \in Sessions : StartDelete(b, s)
    BY <2>6 DEF StartDelete, NoArgs, TypeOK
  <2>7. CASE \E t \in Timeouts : StartCleanup(b, t)
    BY <2>7 DEF StartCleanup, NoArgs, TypeOK
  <2> QED BY <1>1, <2>2, <2>3, <2>4, <2>5, <2>6, <2>7 DEF Call
<1>2. CASE Statement(b)
  <2>1. args[b].op = "chat" /\ pc[b] \in {"insert", "trim", "trimming", "touch"}
    BY <1>2, ArgsEffects DEF ChatStatements
  <2>2. CASE InsertMessage(b)
    BY <2>2 DEF InsertMessage, GoTo, TypeOK
  <2>3. CASE SessionVanished(b) \/ NegativeCap(b)
    BY <2>3 DEF SessionVanished, NegativeCap, Rollback, EndTransaction, NoArgs, TypeOK
  <2>4. CASE BeginTrim(b)
    BY <2>1, <2>4 DEF BeginTrim, BeginDelete, Return, GoTo, After, TypeOK
  <2>5. ASSUME NEW m \in todo[b], DeleteMessage(b, m)
        PROVE  pc'[b] \in {"insert", "trim", "trimming", "touch"}
    BY <2>1, <2>5 DEF DeleteMessage, Return, GoTo, After, TypeOK
  <2>6. CASE TouchSession(b)
    BY <2>6 DEF TouchSession, Return, GoTo, NoArgs, TypeOK
  <2> QED BY <1>2, <2>1, <2>2, <2>3, <2>4, <2>5, <2>6
          DEF Statement, BeginWipe, BeginCascade, SetMaxMessages, SetState, DropSession, ExpireSession
<1>3. CASE Commit(b) \/ Fail(b) \/ DeadlockAbort(b)
  BY <1>3 DEF Commit, Fail, DeadlockAbort, Rollback, EndTransaction, NoArgs, TypeOK
<1> QED BY <1>1, <1>2, <1>3 DEF StepOf

-----------------------------------------------------------------------------
(* A transaction that has added to a session leaves at most a window.      *)

LEMMA WindowOfCap ==
  ASSUME TypeOK, NEW b \in Backends, NEW s \in Sessions, NEW cap \in KnownCaps(b, s)
  PROVE  cap \in Int /\ Window(cap) \in Nat /\ (cap >= 0 => Window(cap) = cap)
<1>1. cap \in Caps \cup {0}
  BY DEF KnownCaps, TypeOK
<1>2. \A x \in Caps \cup {0} : x \in Int
  BY SessionStoreAssumption
<1>3. cap \in Int
  BY <1>1, <1>2
<1> QED BY <1>3 DEF Window

LEMMA KeptFinite ==
  ASSUME TypeOK, Finite, NEW b \in Backends, NEW s \in Sessions
  PROVE  /\ IsFiniteSet(Kept(b, s)) /\ Cardinality(Kept(b, s)) \in Nat
         /\ \A T \in SUBSET Kept(b, s) :
               /\ IsFiniteSet(T) /\ Cardinality(T) \in Nat
               /\ Cardinality(T) <= Cardinality(Kept(b, s))
<1>1. Kept(b, s) \in SUBSET History(Visible(b), s)
  BY DEF Kept
<1>2. IsFiniteSet(Kept(b, s))
  BY <1>1, VisibleFinite, FS_Subset
<1> QED BY <1>2, FS_Subset, FS_CardinalityType

(* Keeping less and knowing more caps.                                     *)
LEMMA StaysSettled ==
  ASSUME TypeOK, Finite, NEW c \in Backends, NEW s \in Sessions, SettledAt(c, s),
         History(ins[c], s)' = History(ins[c], s), lock[s] = c => lock'[s] = c,
         Untrimmed(c, s) => Untrimmed(c, s)',
         lock[s] = c => Kept(c, s)' \subseteq Kept(c, s) /\ KnownCaps(c, s) \subseteq KnownCaps(c, s)'
  PROVE  SettledAt(c, s)'
<1> SUFFICES ASSUME History(ins[c], s) # {}, ~Untrimmed(c, s)
             PROVE  SettledAt(c, s)'
  BY DEF SettledAt
<1>1. PICK cap \in KnownCaps(c, s) : lock[s] = c /\ Cardinality(Kept(c, s)) <= Window(cap)
  BY DEF SettledAt
<1>2. Cardinality(Kept(c, s)') \in Nat /\ Cardinality(Kept(c, s)') <= Cardinality(Kept(c, s))
  BY <1>1, KeptFinite
<1>3. Cardinality(Kept(c, s)') <= Window(cap)
  BY <1>1, <1>2, WindowOfCap, KeptFinite
<1> QED BY <1>1, <1>3 DEF SettledAt

(* Others add nothing to a session whose row is locked.                    *)
LEMMA CommitsUnderLock ==
  ASSUME TypeOK, TurnInProgress, CallArgs, Settled, NEW b \in Backends, StepOf(b),
         NEW s \in Sessions
  PROVE  History(msgs', s) \subseteq History(msgs, s) \/ lock[s] = b
<1> SUFFICES ASSUME NEW m \in msgs' \ msgs, m.sid = s
             PROVE  lock[s] = b
  BY DEF History
<1>1. Commit(b) /\ m \in ins[b]
  <2>1. Rollback(b) => msgs' = msgs
    BY DEF Rollback
  <2>2. Call(b) \/ Statement(b) \/ Fail(b) \/ DeadlockAbort(b) => msgs' = msgs
    BY <2>1, CallIsQuiet, RowStatementIsQuiet, InsertAdds, DeleteGoesOn
       DEF Statement, SessionVanished, NegativeCap, Fail, DeadlockAbort, Quiet, GoesOn
  <2> QED BY <2>2 DEF StepOf, Commit, Visible
<1>2. args[b].op = "none"
  BY <1>1 DEF Commit, CallArgs, ArgsFit
<1>3. History(ins[b], s) # {} /\ ~Untrimmed(b, s)
  BY <1>1, <1>2 DEF History, Untrimmed
<1> QED BY <1>3 DEF Settled, SettledAt

LEMMA OthersStaySettled ==
  ASSUME Inv, TurnInProgress, Finite, RowLives, CallArgs, Settled,
         NEW b \in Backends, StepOf(b), NEW c \in Backends \ {b}, NEW s \in Sessions
  PROVE  SettledAt(c, s)'
<1>0. TypeOK /\ RowVersions
  BY DEF Inv, LockDiscipline
<1>1. /\ pc'[c] = pc[c] /\ args'[c] = args[c] /\ todo'[c] = todo[c] /\ ins'[c] = ins[c]
      /\ del'[c] = del[c] /\ (lock'[s] = c <=> lock[s] = c)
  BY <1>0, NextLeavesOthers DEF LeavesOthers, StepOf
<1>2. KnownCaps(c, s) \subseteq KnownCaps(c, s)'
  BY <1>0, ViewsAge
<1>3. lock[s] = c => Kept(c, s)' \subseteq Kept(c, s)
  BY <1>0, <1>1, CommitsUnderLock DEF Kept, History, Visible
<1>4. Untrimmed(c, s)' <=> Untrimmed(c, s)
  BY <1>1 DEF Untrimmed, Answered
<1>5. SettledAt(c, s) /\ History(ins[c], s)' = History(ins[c], s)
  BY <1>1 DEF Settled, History
<1> QED BY <1>0, <1>1, <1>2, <1>3, <1>4, <1>5, StaysSettled

(* The trim that follows an answer.                                        *)
LEMMA AnswerTrimSettles ==
  ASSUME TypeOK, TurnNumbers, TurnInProgress, Finite, UniqueIds, CallArgs, AnswersLock,
         NEW b \in Backends, BeginTrim(b), Answered(b), args[b].op = "chat",
         NEW s \in Sessions, args[b].sid = s
  PROVE  SettledAt(b, s)'
<1> DEFINE H == History(Visible(b), s)
           n == args[b].cap
<1>1. /\ n >= 0 /\ todo'[b] = H \ Newest(H, n) /\ UNCHANGED <<msgs, ins, del, lock, offered, given>>
  BY DEF BeginTrim, BeginDelete, Trimmed, rowVars, msgVars, capVars, TypeOK
<1>2. lock[s] = b
  BY DEF Answered, AnswersLock, TurnInProgress, InTurn
<1>3. n \in KnownCaps(b, s) /\ n \in KnownCaps(b, s)'
  BY <1>1 DEF CallArgs, ArgsFit, KnownCaps
<1>4. Window(n) = n /\ n \in Nat
  BY <1>1, <1>3, WindowOfCap DEF Window
<1>5. Kept(b, s)' = Newest(H, n)
  BY <1>1 DEF Kept, Visible, History, Newest
<1>6. IsFiniteSet(H) /\ H \subseteq Message /\ H \subseteq msgs \cup ins[b]
  BY VisibleFinite DEF History, Visible
<1>7. \A m \in H : m.id \in Nat
  BY <1>6 DEF Message
<1>8. \A m, o \in H : m.id = o.id => m = o
  BY <1>6 DEF UniqueIds
<1> HIDE DEF H, n
<1>9. Cardinality(Newest(H, n)) <= n
  BY <1>4, <1>6, <1>7, <1>8, NewestBound
<1> QED BY <1>1, <1>2, <1>3, <1>4, <1>5, <1>9 DEF SettledAt

LEMMA OwnStaysSettled ==
  ASSUME Inv, TurnNumbers, TurnInProgress, Finite, UniqueIds, RowLives, CallArgs, ChatStatements,
         AnswersLock, Settled, NEW b \in Backends, StepOf(b), NEW s \in Sessions
  PROVE  SettledAt(b, s)'
<1>0. TypeOK /\ RowVersions /\ SettledAt(b, s)
  BY DEF Inv, LockDiscipline, Settled
<1>1. CASE Ends(b)
  BY <1>1 DEF Ends, SettledAt, History
<1>2. KnownCaps(b, s) \subseteq KnownCaps(b, s)' \/ Ends(b)
  BY <1>0, ViewsAge
<1>3. lock[s] = b => lock'[s] = b \/ Ends(b)
  BY <1>0, OwnLocksStay DEF StepOf
(* Steps that leave messages and deletions alone. *)
<1>4. ASSUME UNCHANGED <<msgs, ins, del, todo>>, ~Ends(b), Untrimmed(b, s) => Untrimmed(b, s)'
      PROVE  SettledAt(b, s)'
  <2>1. Kept(b, s)' = Kept(b, s) /\ History(ins[b], s)' = History(ins[b], s)
    BY <1>4 DEF Kept, Visible, History
  <2> QED BY <1>0, <1>2, <1>3, <1>4, <2>1, StaysSettled
<1>5. CASE Call(b) /\ ~Ends(b)
  <2>1. pc[b] \in {"idle", "open"}
    BY <1>5 DEF Call, CreateSession, StartSetMax, StartChat, StartSetState, StartDelete,
                StartCleanup, Enter, Working
  <2>2. ~Untrimmed(b, s)
    BY <2>1 DEF CallArgs, ArgsFit, Untrimmed
  <2> QED BY <1>0, <1>4, <1>5, <2>2, CallIsQuiet DEF Quiet
<1>6. CASE /\ ~Ends(b)
           /\ \/ SetMaxMessages(b) \/ SetState(b) \/ DropSession(b)
              \/ \E x \in expired[b] : ExpireSession(b, x)
  <2>1. pc[b] \notin {"insert", "trim", "trimming", "touch"}
    BY <1>6 DEF SetMaxMessages, SetState, DropSession, ExpireSession
  <2>2. ~Untrimmed(b, s)
    BY <2>1 DEF ChatStatements, Untrimmed
  <2> QED BY <1>0, <1>4, <1>6, <2>2, RowStatementIsQuiet DEF Quiet
<1>7. CASE InsertMessage(b)
  <2>1. PICK new \in Message :
           /\ ins'[b] = ins[b] \cup {new} /\ del'[b] = del[b] /\ todo'[b] = todo[b]
           /\ msgs' = msgs /\ todo[b] = {} /\ new.sid = args[b].sid
           /\ args'[b].sid = args[b].sid /\ args'[b].op = "chat"
    BY <1>0, <1>7, InsertAdds
  <2>2. pc'[b] = "trim" /\ ~Ends(b)
    BY <1>0, <1>7 DEF InsertMessage, GoTo, TypeOK, Ends
  <2>3. CASE args[b].sid = s
    BY <2>1, <2>2, <2>3 DEF SettledAt, Untrimmed
  <2>4. CASE args[b].sid # s
    <3>1. History(ins[b], s)' = History(ins[b], s) /\ Kept(b, s)' \subseteq Kept(b, s)
      BY <2>1, <2>4 DEF History, Kept, Visible
    <3>2. ~Untrimmed(b, s)
      BY <2>4 DEF Untrimmed
    <3> QED BY <1>0, <1>2, <1>3, <2>2, <3>1, <3>2, StaysSettled
  <2> QED BY <2>3, <2>4
(* The steps of a DELETE keep less, and a call that goes on is the same. *)
<1>8. ASSUME NEW statement \in {"trimming", "wiping", "cascading", "touch", "drop", "open"},
             Return(b, statement), UNCHANGED <<msgs, ins>>, Kept(b, s)' \subseteq Kept(b, s),
             statement = "open" => args[b].op # "chat",
             ~(pc[b] = "trim" /\ args[b].op = "chat" /\ args[b].sid = s /\ Answered(b))
      PROVE  SettledAt(b, s)'
  <2>1. pc'[b] = statement /\ (statement # "open" => args'[b] = args[b]) /\ ~Ends(b)
    BY <1>0, <1>8 DEF Return, GoTo, TypeOK, Ends
  <2>2. Untrimmed(b, s) => Untrimmed(b, s)'
    BY <1>8, <2>1 DEF Untrimmed, Answered
  <2>3. History(ins[b], s)' = History(ins[b], s)
    BY <1>8 DEF History
  <2> QED BY <1>0, <1>2, <1>3, <1>8, <2>1, <2>2, <2>3, StaysSettled
<1>9. todo[b] # {} => pc[b] \in {"trimming", "wiping", "cascading"}
  BY DEF TurnInProgress, InTurn
<1>10. ASSUME NEW phase \in {"trimming", "wiping", "cascading"}, NEW rows, BeginDelete(b, phase, rows),
              pc[b] \in {"trim", "wipe", "cascade"}, phase = "trimming" <=> pc[b] = "trim",
              ~(pc[b] = "trim" /\ args[b].op = "chat" /\ args[b].sid = s /\ Answered(b))
       PROVE  SettledAt(b, s)'
  <2>1. PICK statement \in {phase, After(b, phase)} : Return(b, statement)
    BY <1>10 DEF BeginDelete
  <2>2. /\ UNCHANGED <<msgs, ins, del>> /\ todo[b] = {}
    BY <1>9, <1>10 DEF BeginDelete, msgVars
  <2>3. statement = "open" => args[b].op # "chat"
    BY <1>10, <2>1 DEF After, ChatStatements
  <2>4. Kept(b, s)' \subseteq Kept(b, s)
    BY <2>2 DEF Kept, Visible, History
  <2>5. statement \in {"trimming", "wiping", "cascading", "touch", "drop", "open"}
    BY <2>1, AfterType
  <2> QED BY <1>8, <1>10, <2>1, <2>2, <2>3, <2>4, <2>5
<1>11. CASE BeginTrim(b)
  <2>1. CASE args[b].op = "chat" /\ args[b].sid = s /\ Answered(b)
    BY <1>0, <1>11, <2>1, AnswerTrimSettles
  <2>2. CASE ~(args[b].op = "chat" /\ args[b].sid = s /\ Answered(b))
    BY <1>10, <1>11, <2>2 DEF BeginTrim
  <2> QED BY <2>1, <2>2
<1>12. CASE BeginWipe(b) \/ BeginCascade(b)
  BY <1>10, <1>12 DEF BeginWipe, BeginCascade
<1>13. ASSUME NEW m \in todo[b], DeleteMessage(b, m)
       PROVE  SettledAt(b, s)'
  <2>1. PICK statement \in {pc[b], After(b, pc[b])} : Return(b, statement)
    BY <1>13 DEF DeleteMessage
  <2>2. /\ UNCHANGED <<msgs, ins>> /\ todo'[b] = todo[b] \ {m}
        /\ del'[b] = IF m \in Visible(b) THEN del[b] \cup {m} ELSE del[b]
        /\ pc[b] \in {"trimming", "wiping", "cascading"}
    BY <1>0, <1>13 DEF DeleteMessage, TypeOK
  <2>3. statement = "open" => args[b].op # "chat"
    BY <2>1, <2>2 DEF After, ChatStatements
  <2>4. Kept(b, s)' \subseteq Kept(b, s)
    BY <2>2 DEF Kept, Visible, History
  <2>5. statement \in {"trimming", "wiping", "cascading", "touch", "drop", "open"}
    BY <2>1, <2>2, AfterType
  <2> QED BY <1>8, <2>1, <2>2, <2>3, <2>4, <2>5
<1>14. CASE TouchSession(b)
  <2>1. /\ UNCHANGED <<msgs, ins, del, todo>> /\ pc[b] = "touch"
        /\ pc'[b] = (IF Answered(b) THEN "open" ELSE "insert")
        /\ ~Answered(b) => args'[b] = args[b]
    BY <1>0, <1>14 DEF TouchSession, msgVars, Return, GoTo, TypeOK
  <2>2. Untrimmed(b, s) => Untrimmed(b, s)'
    BY <2>1 DEF Untrimmed, Answered
  <2>3. ~Ends(b)
    BY <2>1 DEF Ends
  <2> QED BY <1>4, <2>1, <2>2, <2>3
<1> QED
  BY <1>0, <1>1, <1>5, <1>6, <1>7, <1>11, <1>12, <1>13, <1>14, EndEnds
     DEF StepOf, Statement, SessionVanished, NegativeCap, Fail, DeadlockAbort

(* What commits is what was visible and settled.                           *)
LEMMA MessagesCommit ==
  ASSUME TypeOK, TurnInProgress, NEW b \in Backends, StepOf(b)
  PROVE  \/ msgs' = msgs /\ gone' = gone
         \/ /\ Commit(b) /\ msgs' = Visible(b) /\ gone' = gone \cup del[b]
            /\ todo[b] = {} /\ pc[b] = "open"
<1>1. Rollback(b) => msgs' = msgs /\ gone' = gone
  BY DEF Rollback
<1>2. Call(b) \/ Statement(b) \/ Fail(b) \/ DeadlockAbort(b) => msgs' = msgs /\ gone' = gone
  BY <1>1, CallIsQuiet, RowStatementIsQuiet, InsertAdds, DeleteGoesOn
     DEF Statement, SessionVanished, NegativeCap, Fail, DeadlockAbort, Quiet, GoesOn
<1>3. Commit(b) => todo[b] = {}
  BY DEF Commit, TurnInProgress, InTurn
<1> QED BY <1>2, <1>3 DEF StepOf, Commit

LEMMA OfferedCapKept ==
  ASSUME TypeOK, TurnInProgress, Finite, CallArgs, Settled, HistoryWithinOfferedCap,
         NEW b \in Backends, StepOf(b)
  PROVE  HistoryWithinOfferedCap'
<1> SUFFICES ASSUME NEW s \in Sessions, History(msgs', s) # {}
             PROVE  \E cap \in offered'[s] : Cardinality(History(msgs', s)) <= Window(cap)
  BY DEF HistoryWithinOfferedCap, History, Window
<1>1. offered[s] \subseteq offered'[s]
  BY RowEffects DEF RowSame, RowCreated, RowWritten, RowCommitted, RowRolledBack
<1>2. CASE History(msgs', s) \in SUBSET History(msgs, s)
  <2>1. PICK cap \in offered[s] : Cardinality(History(msgs, s)) <= Window(cap)
    BY <1>2 DEF HistoryWithinOfferedCap
  <2>2. History(msgs, s) \in SUBSET msgs
    BY DEF History
  <2>3. IsFiniteSet(History(msgs, s)) /\ Cardinality(History(msgs, s)) \in Nat
    BY <2>2, FS_Subset, FS_CardinalityType DEF Finite
  <2>4. /\ Cardinality(History(msgs', s)) \in Nat
        /\ Cardinality(History(msgs', s)) <= Cardinality(History(msgs, s))
    BY <1>2, <2>3, FS_Subset, FS_CardinalityType
  <2>5. Window(cap) \in Nat
    BY WindowOfCap DEF KnownCaps
  <2> QED BY <1>1, <2>1, <2>3, <2>4, <2>5
<1>3. CASE History(msgs', s) \notin SUBSET History(msgs, s)
  <2>1. /\ Commit(b) /\ msgs' = Visible(b) /\ todo[b] = {} /\ pc[b] = "open"
        /\ History(ins[b], s) # {}
    BY <1>3, MessagesCommit DEF History, Visible
  <2>2. ~Untrimmed(b, s)
    BY <2>1 DEF CallArgs, ArgsFit, Untrimmed
  <2>3. PICK cap \in KnownCaps(b, s) : lock[s] = b /\ Cardinality(Kept(b, s)) <= Window(cap)
    BY <2>1, <2>2 DEF Settled, SettledAt
  <2>4. Kept(b, s) = History(msgs', s)
    BY <2>1 DEF Kept, History
  <2>5. cap \in offered'[s]
    BY <2>1, <2>3 DEF Commit, KnownCaps
  <2> QED BY <2>3, <2>4, <2>5
<1> QED BY <1>2, <1>3

WindowInv == /\ UniqueIds /\ RowCaps /\ RowLives /\ FiniteCaps /\ CallArgs /\ ChatStatements
             /\ Settled /\ HistoryWithinOfferedCap

LEMMA NextKeepsWindowInv ==
  ASSUME TurnsIInv, WindowInv, [Next]_vars
  PROVE  WindowInv'
<1> USE DEF WindowInv
<1>0. /\ Inv /\ TypeOK /\ RowVersions /\ TurnNumbers /\ TurnInProgress /\ DeletesKnown /\ Finite
      /\ AnswersLock
  BY DEF TurnsIInv, TurnInv, Bookkeeping, Inv, LockDiscipline
<1>1. ASSUME NEW b \in Backends, StepOf(b)
      PROVE  WindowInv'
  <2>1. UniqueIds'
    BY <1>0, <1>1, UniqueIdsKept
  <2>2. RowCaps'
    BY <1>0, <1>1, RowCapsKept
  <2>3. RowLives'
    BY <1>0, <1>1, RowLivesKept
  <2>4. FiniteCaps'
    BY <1>0, <1>1, FiniteCapsKept
  <2>5. CallArgs'
    BY <1>0, <1>1, CallArgsKept
  <2>6. ChatStatements'
    BY <1>0, <1>1, ChatStatementsKept
  <2>7. Settled'
    BY <1>0, <1>1, OthersStaySettled, OwnStaysSettled DEF Settled
  <2>8. HistoryWithinOfferedCap'
    BY <1>0, <1>1, OfferedCapKept
  <2> QED BY <2>1, <2>2, <2>3, <2>4, <2>5, <2>6, <2>7, <2>8
<1>2. CASE Tick \/ UNCHANGED vars
  <2>1. UNCHANGED <<sess, newv, lock, msgs, gone, offered, given, ins, del, pc, args, todo>>
    BY <1>2 DEF Tick, vars, rowVars, msgVars, capVars
  <2>2. (UniqueIds /\ RowCaps /\ RowLives /\ FiniteCaps)'
    BY <2>1 DEF UniqueIds, RowCaps, RowLives, FiniteCaps
  <2>3. (CallArgs /\ ChatStatements)'
    BY <2>1 DEF CallArgs, ArgsFit, View, Found, KnownCaps, ChatStatements
  <2>4. Settled'
    BY <2>1 DEF Settled, SettledAt, Untrimmed, Answered, KnownCaps, Kept, Visible, History
  <2>5. HistoryWithinOfferedCap'
    BY <2>1 DEF HistoryWithinOfferedCap, History
  <2> QED BY <2>2, <2>3, <2>4, <2>5
<1> QED BY <1>1, <1>2 DEF Next, StepOf

LEMMA InitWindowInv == Init => WindowInv
<1> SUFFICES ASSUME Init PROVE WindowInv
  OBVIOUS
<1>1. UniqueIds /\ HistoryWithinOfferedCap /\ RowCaps /\ RowLives
  BY DEF Init, UniqueIds, HistoryWithinOfferedCap, History, RowCaps, RowLives, Unborn
<1>2. FiniteCaps
  BY FS_EmptySet DEF Init, FiniteCaps
<1>3. CallArgs /\ ChatStatements
  BY DEF Init, CallArgs, ArgsFit, ChatStatements, NoArgs
<1>4. Settled
  BY DEF Init, Settled, SettledAt, History
<1> QED BY <1>1, <1>2, <1>3, <1>4 DEF WindowInv

WindowIInv == TurnsIInv /\ WindowInv

(* A session never keeps more committed messages than some cap it has been *)
(* given, whatever caps are set while chats, each trimming to the cap it   *)
(* read, wait for their model (trim_session_messages).                     *)
THEOREM HistoryStaysWithinOfferedCap == Spec => []HistoryWithinOfferedCap
<1>1. Init => WindowIInv
  BY TurnsInductive, InitWindowInv DEF WindowIInv
<1>2. WindowIInv /\ [Next]_vars => WindowIInv'
  BY TurnsInductive, NextKeepsWindowInv DEF WindowIInv
<1>3. WindowIInv => HistoryWithinOfferedCap
  BY DEF WindowIInv, WindowInv
<1> QED BY <1>1, <1>2, <1>3, PTL DEF Spec

(* A session that was given one cap has no other.                          *)
LEMMA TheOneCap ==
  ASSUME TypeOK, FiniteCaps, RowCaps, NEW s \in Sessions, OneCap(s)
  PROVE  /\ offered[s] = {sess[s].cap} \/ sess[s].status = "unborn"
         /\ \E n \in Caps \cup {0} : offered[s] = {n}
<1>1. PICK n : offered[s] = {n}
  BY FS_Singleton DEF OneCap, FiniteCaps
<1> QED BY <1>1 DEF RowCaps, TypeOK

(* However many chats run on a session at once, it keeps no more than      *)
(* max_messages: whoever answers holds the session's row until it commits. *)
THEOREM HistoryStaysWithinCap == Spec => []HistoryWithinCap
<1>1. Init => WindowIInv
  BY TurnsInductive, InitWindowInv DEF WindowIInv
<1>2. WindowIInv /\ [Next]_vars => WindowIInv'
  BY TurnsInductive, NextKeepsWindowInv DEF WindowIInv
<1>3. WindowIInv => HistoryWithinCap
  <2> SUFFICES ASSUME WindowIInv, NEW s \in Sessions, OneCap(s)
               PROVE  Cardinality(History(msgs, s)) <= Window(sess[s].cap)
    BY DEF HistoryWithinCap
  <2>1. TypeOK /\ FiniteCaps /\ RowCaps /\ HistoryWithinOfferedCap /\ NoOrphans
    BY DEF WindowIInv, WindowInv, TurnsIInv, Inv
  <2>2. CASE History(msgs, s) = {}
    <3>1. sess[s].cap \in Caps \cup {0}
      BY <2>1 DEF TypeOK, Row
    <3>2. \A x \in Caps \cup {0} : x \in Int
      BY SessionStoreAssumption
    <3> QED BY <2>2, <3>1, <3>2, FS_EmptySet DEF Window
  <2>3. CASE History(msgs, s) # {}
    <3>1. sess[s].status = "live"
      BY <2>1, <2>3 DEF NoOrphans, History
    <3>2. offered[s] = {sess[s].cap}
      BY <2>1, <3>1, TheOneCap
    <3> QED BY <2>1, <2>3, <3>2 DEF HistoryWithinOfferedCap
  <2> QED BY <2>2, <2>3
<1> QED BY <1>1, <1>2, <1>3, PTL DEF Spec

-----------------------------------------------------------------------------
(* Which part of its history a session keeps.                              *)

LEMMA NothingOfUnborn ==
  ASSUME Inv, DeletesKnown, RowLives, NEW b \in Backends, NEW s \in Sessions,
         sess[s].status = "unborn", lock[s] # b
  PROVE  History(del[b] \cup todo[b], s) = {}
<1> SUFFICES ASSUME NEW m \in del[b] \cup todo[b], m.sid = s PROVE FALSE
  BY DEF History
<1>1. m \notin msgs
  BY DEF Inv, NoOrphans
<1>2. m \notin gone
  BY DEF RowLives
<1>3. m \notin ins[b]
  BY DEF Inv, LockDiscipline, InsertsReference, ReferencesHold
<1> QED BY <1>1, <1>2, <1>3 DEF DeletesKnown

(* Only a transaction's own calls delete what it has inserted.             *)
LEMMA OwnInserts ==
  ASSUME TurnOwners, NEW b \in Backends, NEW c \in Backends \ {b}, NEW m \in del[c]
  PROVE  m \notin ins[b]
BY DEF TurnOwners, Handled

(* Somebody else's step takes away newest messages only by a commit that   *)
(* leaves a window of its own, newer still.                                *)
LEMMA OthersLeaveNewest ==
  ASSUME Inv, TurnOwners, TurnInProgress, DeletesKnown, RowLives, Trims, TypeOK',
         NEW b \in Backends, StepOf(b), NEW c \in Backends \ {b},
         NEW s \in Sessions, NEW n \in Caps \cup {0}
  PROVE  TrimsAt(c, s, n)'
<1>0. TypeOK /\ RowVersions
  BY DEF Inv, LockDiscipline
<1> SUFFICES ASSUME Found(c, s)', KnownCaps(c, s)' \subseteq {n},
                    ~(pc'[c] \in {"wiping", "drop"} /\ args'[c].sid = s),
                    History(del'[c] \cup todo'[c], s) # {}
             PROVE  LeavesNewest(c, s, n)'
  BY DEF TrimsAt, LeavesNewest, History
<1>1. /\ pc'[c] = pc[c] /\ args'[c] = args[c] /\ todo'[c] = todo[c] /\ ins'[c] = ins[c]
      /\ del'[c] = del[c] /\ (lock'[s] = c <=> lock[s] = c)
      /\ lock[s] = c => newv'[s] = newv[s]
  BY <1>0, NextLeavesOthers DEF LeavesOthers, StepOf
<1>2. KnownCaps(c, s) \subseteq {n}
  BY <1>0, ViewsAge
<1>3. Found(c, s)
  <2>1. CASE lock[s] = c
    BY <1>1, <2>1 DEF Found, View
  <2>2. CASE lock[s] # c
    <3>1. sess'[s].status = "live"
      BY <1>1, <2>2 DEF Found, View
    <3>2. sess[s].status # "unborn"
      BY <1>1, <2>2, NothingOfUnborn
    <3>3. sess[s].status = "live" \/ lock[s] # NoBackend
      BY <1>0, <3>1, RowEffects, SessionStoreAssumption
         DEF RowSame, RowCreated, RowWritten, RowCommitted, RowRolledBack
    <3>4. sess[s].status \in {"unborn", "live", "dead"}
      BY <1>0 DEF TypeOK, Row
    <3> QED BY <2>2, <3>2, <3>3, <3>4 DEF RowLives, Found, View
  <2> QED BY <2>1, <2>2
<1> DEFINE D == History(del[c] \cup todo[c], s)
<1>4. PICK N \in SUBSET Kept(c, s) : Cardinality(N) >= Window(n) /\ Newer(N, D)
  BY <1>1, <1>2, <1>3 DEF Trims, TrimsAt, LeavesNewest
<1>5. D = History(del'[c] \cup todo'[c], s) /\ D # {}
  BY <1>1
<1>6. SUFFICES \E M \in SUBSET Kept(c, s)' : Cardinality(M) >= Window(n) /\ Newer(M, D)
  BY <1>5 DEF LeavesNewest, Newer, Window, History
<1>7. CASE msgs' = msgs
  <2>1. Kept(c, s)' = Kept(c, s)
    BY <1>1, <1>7 DEF Kept, Visible, History
  <2> QED BY <1>4, <2>1
<1>8. CASE Commit(b) /\ N \cap del[b] = {}
  <2>1. N \subseteq Kept(c, s)'
    BY <1>1, <1>4, <1>8 DEF Commit, Kept, Visible, History
  <2> QED BY <1>4, <2>1
<1>9. CASE Commit(b) /\ N \cap del[b] # {}
  <2>1. PICK y \in N : y \in del[b] /\ y \in Kept(c, s) /\ y.sid = s
    BY <1>4, <1>9 DEF Kept, History
  <2>2. y \in msgs
    BY <2>1, OwnInserts DEF Kept, Visible, History
  <2>3. sess[s].status = "live"
    BY <2>1, <2>2 DEF Inv, NoOrphans
  <2>4. Found(b, s) /\ KnownCaps(b, s) \subseteq {n}
    <3>1. CASE lock[s] = b
      <4>1. sess'[s] = newv[s] /\ lock'[s] = NoBackend /\ offered'[s] = offered[s] \cup given[s]
        BY <1>9, <3>1 DEF Commit, EndTransaction, View
      <4> QED BY <1>1, <3>1, <4>1, SessionStoreAssumption DEF Found, View, KnownCaps
    <3>2. CASE lock[s] # b
      BY <1>2, <2>3, <3>2 DEF Found, View, KnownCaps
    <3> QED BY <3>1, <3>2
  <2>5. pc[b] = "open" /\ todo[b] = {} /\ msgs' = Visible(b)
    BY <1>9 DEF Commit, TurnInProgress, InTurn
  <2>6. y \in History(del[b] \cup todo[b], s)
    BY <2>1 DEF History
  <2>7. PICK M \in SUBSET Kept(b, s) :
          Cardinality(M) >= Window(n) /\ Newer(M, History(del[b] \cup todo[b], s))
    BY <2>4, <2>5, <2>6 DEF Trims, TrimsAt, LeavesNewest
  <2>8. Newer(M, D)
    <3> SUFFICES ASSUME NEW m \in M, NEW d \in D PROVE d.id < m.id
      BY DEF Newer
    <3>1. d.id < y.id /\ y.id < m.id
      BY <1>4, <2>1, <2>6, <2>7 DEF Newer
    <3>2. m \in msgs \cup ins[b] /\ d \in del[c] \cup todo[c]
      BY <2>7 DEF Kept, Visible, History
    <3>3. m.id \in Nat /\ d.id \in Nat /\ y.id \in Nat
      BY <1>0, <2>2, <3>2 DEF TypeOK, Message
    <3> QED BY <3>1, <3>3
  <2>9. M \subseteq Kept(c, s)'
    <3> SUFFICES ASSUME NEW m \in M PROVE m \in Kept(c, s)'
      OBVIOUS
    <3>1. m \in msgs' /\ m.sid = s
      BY <2>5, <2>7 DEF Kept, History
    <3>2. m.id \in Nat
      BY <3>1 DEF TypeOK, Message
    <3>3. m \notin D
      <4> SUFFICES ASSUME m \in D PROVE FALSE
        OBVIOUS
      <4>1. m.id < m.id
        BY <2>8 DEF Newer
      <4> QED BY <3>2, <4>1
    <3>4. m \notin del'[c] \cup todo'[c]
      BY <1>1, <3>1, <3>3 DEF History
    <3> QED BY <3>1, <3>4 DEF Kept, Visible, History
  <2> QED BY <2>7, <2>8, <2>9
<1> QED BY <1>0, <1>7, <1>8, <1>9, MessagesCommit

(* A trim is the work of a chat or of pg_llm_set_max_messages.             *)
TrimmingCalls == \A b \in Backends : pc[b] = "trim" => args[b].op \in {"chat", "set_max"}

LEMMA TrimmingCallsKept ==
  ASSUME TypeOK, TurnInProgress, TrimmingCalls, NEW b \in Backends, StepOf(b)
  PROVE  TrimmingCalls'
<1>1. \A c \in Backends \ {b} : args'[c] = args[c] /\ pc'[c] = pc[c]
  BY NextLeavesOthers DEF LeavesOthers, StepOf
<1> SUFFICES ASSUME pc'[b] = "trim" PROVE args'[b].op \in {"chat", "set_max"}
  BY <1>1 DEF TrimmingCalls
<1>2. ~Ends(b)
  BY DEF Ends
<1>3. CASE Call(b)
  BY <1>3 DEF Call, CreateSession, StartSetMax, StartChat, StartSetState, StartDelete,
              StartCleanup, GoTo, TypeOK
<1>4. CASE InsertMessage(b)
  BY <1>4, InsertAdds
<1>5. CASE SetMaxMessages(b)
  BY <1>5 DEF SetMaxMessages
<1>6. ASSUME NEW statement \in {"trimming", "wiping", "cascading", "touch", "drop", "open", "insert"},
             Return(b, statement)
      PROVE  FALSE
  BY <1>6 DEF Return, GoTo, TypeOK
<1>7. CASE BeginTrim(b) \/ BeginWipe(b) \/ BeginCascade(b)
  BY <1>6, <1>7, AfterType DEF BeginTrim, BeginWipe, BeginCascade, BeginDelete
<1>8. ASSUME NEW m \in todo[b], DeleteMessage(b, m)
      PROVE  FALSE
  BY <1>6, <1>8, AfterType DEF DeleteMessage
<1>9. CASE TouchSession(b) \/ SetState(b)
  BY <1>6, <1>9 DEF TouchSession, SetState
<1>10. CASE DropSession(b) \/ \E x \in expired[b] : ExpireSession(b, x)
  BY <1>10 DEF DropSession, ExpireSession, GoTo, TypeOK
<1> QED BY <1>2, <1>3, <1>4, <1>5, <1>7, <1>8, <1>9, <1>10, EndEnds
        DEF StepOf, Statement, SessionVanished, NegativeCap, Fail, DeadlockAbort

(* A trim to n leaves n messages newer than everything deleted, if what it *)
(* started from had n messages newer than what was deleted before.         *)
LEMMA TrimLeavesNewest ==
  ASSUME NEW H, IsFiniteSet(H), NEW bound \in Nat, \A m \in H : m.id \in Nat /\ m.id <= bound,
         NEW n \in Nat, NEW D, \A d \in D : d.id \in Nat,
         D # {} => \E N \in SUBSET H : Cardinality(N) >= n /\ Newer(N, D),
         D \cup (H \ Newest(H, n)) # {}
  PROVE  /\ Cardinality(Newest(H, n)) >= n
         /\ Newer(Newest(H, n), D \cup (H \ Newest(H, n)))
<1>0. Newest(H, n) \subseteq H
  BY DEF Newest
<1>1. \A T \in SUBSET H :
         IsFiniteSet(T) /\ Cardinality(T) \in Nat /\ Cardinality(T) <= Cardinality(H)
  BY FS_Subset, FS_CardinalityType
<1>2. Cardinality(Newest(H, n)) >= n
  <2>1. CASE H \ Newest(H, n) # {}
    BY <2>1, NewestIsFull
  <2>2. CASE H \ Newest(H, n) = {}
    <3>1. PICK N \in SUBSET H : Cardinality(N) >= n
      BY <2>2
    <3>2. Newest(H, n) = H
      BY <1>0, <2>2
    <3>3. Cardinality(N) <= Cardinality(H) /\ Cardinality(N) \in Nat /\ Cardinality(H) \in Nat
      BY <1>1
    <3> QED BY <3>1, <3>2, <3>3
  <2> QED BY <2>1, <2>2
<1>3. Newer(Newest(H, n), H \ Newest(H, n))
  <2> SUFFICES ASSUME H \ Newest(H, n) # {} PROVE Newer(Newest(H, n), H \ Newest(H, n))
    BY DEF Newer
  <2> QED BY NewestIsFull DEF Newer
<1>4. Newer(Newest(H, n), D)
  <2> SUFFICES ASSUME NEW m \in Newest(H, n), NEW d \in D, ~(d.id < m.id) PROVE FALSE
    BY DEF Newer
  <2>1. PICK N \in SUBSET H : Cardinality(N) >= n /\ Newer(N, D)
    OBVIOUS
  <2>2. \A x \in N : x.id > m.id
    <3> SUFFICES ASSUME NEW x \in N PROVE x.id > m.id
      OBVIOUS
    <3>1. d.id < x.id
      BY <2>1 DEF Newer
    <3>2. x.id \in Nat /\ m.id \in Nat /\ d.id \in Nat
      BY <1>0
    <3> QED BY <3>1, <3>2
  <2>3. N \in SUBSET NewerThan(H, m) /\ NewerThan(H, m) \in SUBSET H
    BY <2>2 DEF NewerThan
  <2>4. Cardinality(N) <= Cardinality(NewerThan(H, m))
    BY <1>1, <2>3, FS_Subset
  <2>5. Cardinality(NewerThan(H, m)) < n
    BY DEF Newest
  <2>6. Cardinality(N) \in Nat /\ Cardinality(NewerThan(H, m)) \in Nat
    BY <1>1, <2>3
  <2> QED BY <2>1, <2>4, <2>5, <2>6
<1> QED BY <1>2, <1>3, <1>4 DEF Newer

LEMMA BeginTrimLeavesNewest ==
  ASSUME TypeOK, TurnNumbers, TurnInProgress, Finite, CallArgs, TrimmingCalls, Trims,
         NEW b \in Backends, BeginTrim(b), NEW s \in Sessions, args[b].sid = s,
         NEW n \in Caps \cup {0}, Found(b, s), KnownCaps(b, s) \subseteq {n}
  PROVE  LeavesNewest(b, s, n)'
<1> DEFINE H == History(Visible(b), s)
           D == History(del[b], s)
           cap == args[b].cap
<1>1. /\ pc[b] = "trim" /\ todo[b] = {} /\ cap >= 0 /\ todo'[b] = H \ Newest(H, cap)
      /\ UNCHANGED <<msgs, ins, del>>
  BY DEF BeginTrim, BeginDelete, Trimmed, msgVars, TypeOK, TurnInProgress, InTurn
<1>2. cap \in KnownCaps(b, s)
  BY <1>1 DEF TrimmingCalls, CallArgs, ArgsFit
<1>3. cap = n /\ n \in Nat /\ Window(n) = n
  BY <1>1, <1>2, WindowOfCap DEF Window
<1>4. H \in SUBSET Message /\ D \in SUBSET Message /\ IsFiniteSet(H)
  BY VisibleFinite DEF D, History, TypeOK
<1>5. nextId \in Nat /\ \A m \in H : m.id \in Nat /\ m.id <= nextId
  <2>1. \A m \in H : m \in msgs \cup ins[b]
    BY DEF History, Visible
  <2>2. \A m \in msgs \cup ins[b] : m.id < nextId
    BY DEF TurnNumbers, Handled, Numbered
  <2> QED BY <1>4, <2>1, <2>2 DEF Message, TypeOK
<1>6. \A d \in D : d.id \in Nat
  BY <1>4 DEF Message
<1>7. D # {} => \E N \in SUBSET H : Cardinality(N) >= n /\ Newer(N, D)
  <2>1. Kept(b, s) = H /\ History(del[b] \cup todo[b], s) = D
    BY <1>1 DEF Kept, History
  <2>2. LeavesNewest(b, s, n)
    BY <1>1 DEF Trims, TrimsAt
  <2> QED BY <1>3, <2>1, <2>2 DEF LeavesNewest
<1>8. /\ Kept(b, s)' = Newest(H, n)
      /\ History(del[b] \cup todo[b], s)' = D \cup (H \ Newest(H, n))
  BY <1>1, <1>3 DEF Kept, Visible, History, Newest
<1> HIDE DEF H, D, cap
<1>9. D \cup (H \ Newest(H, n)) # {} =>
        Cardinality(Newest(H, n)) >= n /\ Newer(Newest(H, n), D \cup (H \ Newest(H, n)))
  BY <1>3, <1>4, <1>5, <1>6, <1>7, TrimLeavesNewest
<1>10. Window(n)' = n /\ \A M, E : Newer(M, E)' <=> Newer(M, E)
  BY <1>3 DEF Window, Newer
<1> QED BY <1>8, <1>9, <1>10, <1>3 DEF LeavesNewest

LEMMA OwnLeaveNewest ==
  ASSUME Inv, TurnNumbers, TurnOwners, TurnInProgress, DeletesKnown, Finite, RowLives, CallArgs,
         TrimmingCalls, Trims, NEW b \in Backends, StepOf(b),
         NEW s \in Sessions, NEW n \in Caps \cup {0}
  PROVE  TrimsAt(b, s, n)'
<1>0. TypeOK /\ RowVersions
  BY DEF Inv, LockDiscipline
<1>1. CASE Ends(b)
  BY <1>1 DEF Ends, TrimsAt, LeavesNewest, History
<1> SUFFICES ASSUME ~Ends(b), Found(b, s)', KnownCaps(b, s)' \subseteq {n},
                    ~(pc'[b] \in {"wiping", "drop"} /\ args'[b].sid = s)
             PROVE  LeavesNewest(b, s, n)'
  BY <1>1 DEF TrimsAt
<1>2. KnownCaps(b, s) \subseteq {n}
  BY <1>0, ViewsAge
<1>3. /\ Found(b, s) \/ RowCreated(b, s)
      /\ RowCreated(b, s) => Call(b)
  <2>1. RowSame(s) \/ RowCreated(b, s) \/ RowWritten(b, s)
    BY <1>0, RowEffects, RowEndsTransaction
  <2>2. RowSame(s) => Found(b, s)
    BY DEF RowSame, Found, View
  <2>3. RowCreated(b, s) /\ Statement(b) => FALSE
    BY <1>0, StatementRowEffects, SessionStoreAssumption
       DEF RowCreated, RowSame, RowWritten, RowRolledBack, Found, View
  <2>4. Call(b) \/ Statement(b)
    BY <1>0, EndEnds DEF StepOf, Fail, DeadlockAbort
  <2> QED BY <2>1, <2>2, <2>3, <2>4 DEF RowWritten
(* Steps that delete nothing of the session. *)
<1>4. ASSUME History(del[b] \cup todo[b], s)' \subseteq History(del[b] \cup todo[b], s),
             Kept(b, s) \subseteq Kept(b, s)', ~(pc[b] \in {"wiping", "drop"} /\ args[b].sid = s),
             Found(b, s)
      PROVE  LeavesNewest(b, s, n)'
  <2> SUFFICES ASSUME History(del[b] \cup todo[b], s)' # {}
               PROVE  LeavesNewest(b, s, n)'
    BY DEF LeavesNewest
  <2>1. PICK N \in SUBSET Kept(b, s) :
          Cardinality(N) >= Window(n) /\ Newer(N, History(del[b] \cup todo[b], s))
    BY <1>2, <1>4 DEF Trims, TrimsAt, LeavesNewest
  <2>2. Newer(N, History(del[b] \cup todo[b], s)') /\ N \in SUBSET Kept(b, s)'
    BY <1>4, <2>1 DEF Newer
  <2> QED BY <2>1, <2>2 DEF LeavesNewest, Newer, Window
<1>5. ASSUME UNCHANGED <<msgs, ins, del, todo>>
      PROVE  /\ History(del[b] \cup todo[b], s)' = History(del[b] \cup todo[b], s)
             /\ Kept(b, s)' = Kept(b, s)
  BY <1>5 DEF History, Kept, Visible
<1>6. CASE Call(b)
  <2>1. UNCHANGED <<msgs, ins, del, todo>>
    BY <1>0, <1>6, CallIsQuiet DEF Quiet
  <2>2. CASE Found(b, s)
    <3>1. pc[b] \in {"idle", "open"}
      BY <1>6 DEF Call, CreateSession, StartSetMax, StartChat, StartSetState, StartDelete,
                  StartCleanup, Enter, Working
    <3> QED BY <1>4, <1>5, <2>1, <2>2, <3>1
  <2>3. CASE RowCreated(b, s)
    <3>1. History(del[b] \cup todo[b], s) = {}
      BY <2>3, NothingOfUnborn, SessionStoreAssumption DEF RowCreated
    <3> QED BY <1>5, <2>1, <3>1 DEF LeavesNewest
  <2> QED BY <1>3, <2>2, <2>3
<1>7. CASE SetMaxMessages(b) \/ SetState(b) \/ \E x \in expired[b] : ExpireSession(b, x)
  <2>1. UNCHANGED <<msgs, ins, del, todo>>
    BY <1>0, <1>7, RowStatementIsQuiet DEF Quiet
  <2>2. pc[b] \in {"update", "expire"}
    BY <1>7 DEF SetMaxMessages, SetState, ExpireSession
  <2>3. Statement(b)
    BY <1>7 DEF Statement
  <2>4. Found(b, s)
    BY <1>0, <1>3, <2>3, StatementRowEffects, SessionStoreAssumption
       DEF RowCreated, RowSame, RowWritten, RowRolledBack, Found, View
  <2> QED BY <1>4, <1>5, <2>1, <2>2, <2>4
<1>8. ASSUME Statement(b), UNCHANGED <<sess, newv, lock>> PROVE Found(b, s)
  BY <1>8 DEF Found, View
<1>9. CASE DropSession(b)
  <2>1. UNCHANGED <<msgs, ins, del, todo>>
    BY <1>0, <1>9, RowStatementIsQuiet DEF Quiet
  <2>2. Found(b, s)
    BY <1>0, <1>3, <1>9, StatementRowEffects, SessionStoreAssumption
       DEF Statement, RowCreated, RowSame, RowWritten, RowRolledBack, Found, View
  <2>3. args[b].sid # s
    <3> SUFFICES ASSUME args[b].sid = s PROVE FALSE
      OBVIOUS
    <3>1. newv'[s] = [View(b, s) EXCEPT !.status = "dead"] /\ lock'[s] = b
      BY <1>0, <1>9, <2>2 DEF DropSession, UpdateRow, TypeOK
    <3>2. newv'[s].status = "dead"
      BY <1>0, <3>1, ViewType DEF Row
    <3> QED BY <3>1, <3>2 DEF Found, View
  <2> QED BY <1>4, <1>5, <2>1, <2>2, <2>3
<1>10. CASE TouchSession(b)
  <2>1. UNCHANGED <<msgs, ins, del, todo>> /\ pc[b] = "touch"
    BY <1>10 DEF TouchSession, msgVars
  <2>2. Found(b, s)
    BY <1>0, <1>3, <1>10, StatementRowEffects, SessionStoreAssumption
       DEF Statement, RowCreated, RowSame, RowWritten, RowRolledBack, Found, View
  <2> QED BY <1>4, <1>5, <2>1, <2>2
<1>11. CASE InsertMessage(b)
  <2>1. PICK new : /\ ins'[b] = ins[b] \cup {new} /\ del'[b] = del[b] /\ todo'[b] = todo[b]
                   /\ msgs' = msgs
    BY <1>0, <1>11, InsertAdds
  <2>2. pc[b] = "insert" /\ Found(b, s)
    BY <1>8, <1>11 DEF InsertMessage, Statement
  <2>3. /\ History(del[b] \cup todo[b], s)' = History(del[b] \cup todo[b], s)
        /\ Kept(b, s) \subseteq Kept(b, s)'
    BY <2>1 DEF History, Kept, Visible
  <2> QED BY <1>4, <2>2, <2>3
<1>12. ASSUME NEW phase \in {"trimming", "wiping", "cascading"}, NEW rows,
              BeginDelete(b, phase, rows), pc[b] \in {"trim", "wipe", "cascade"}, Statement(b),
              History(rows, s) = {}
       PROVE  LeavesNewest(b, s, n)'
  <2>1. /\ UNCHANGED <<msgs, ins, del>> /\ todo[b] = {} /\ todo'[b] = rows
        /\ UNCHANGED <<sess, newv, lock>>
    BY <1>0, <1>12 DEF BeginDelete, msgVars, rowVars, TurnInProgress, InTurn, TypeOK
  <2>2. /\ History(del[b] \cup todo[b], s)' = History(del[b] \cup todo[b], s)
        /\ Kept(b, s)' = Kept(b, s)
    BY <1>12, <2>1 DEF History, Kept, Visible
  <2> QED BY <1>4, <1>8, <1>12, <2>1, <2>2
<1>13. CASE BeginTrim(b)
  <2>1. Found(b, s)
    BY <1>8, <1>13 DEF BeginTrim, BeginDelete, rowVars, Statement
  <2>2. CASE args[b].sid = s
    BY <1>0, <1>2, <1>13, <2>1, <2>2, BeginTrimLeavesNewest
  <2>3. CASE args[b].sid # s
    <3>1. History(Trimmed(b, args[b].sid, args[b].cap), s) = {}
      BY <2>3 DEF Trimmed, History
    <3> QED BY <1>12, <1>13, <3>1 DEF BeginTrim, Statement
  <2> QED BY <2>2, <2>3
<1>14. CASE BeginWipe(b)
  <2>1. CASE args[b].sid = s
    <3>1. pc'[b] \in {"wiping", "drop"} /\ args'[b] = args[b]
      BY <1>0, <1>14 DEF BeginWipe, BeginDelete, Return, After, GoTo, TypeOK
    <3> QED BY <2>1, <3>1
  <2>2. CASE args[b].sid # s
    <3>1. History(History(Visible(b), args[b].sid), s) = {}
      BY <2>2 DEF History
    <3> QED BY <1>12, <1>14, <3>1 DEF BeginWipe, Statement
  <2> QED BY <2>1, <2>2
<1>15. CASE BeginCascade(b)
  <2> DEFINE rows == {m \in Visible(b) : lock[m.sid] = b /\ newv[m.sid].status = "dead"}
  <2>1. Found(b, s)
    BY <1>8, <1>15 DEF BeginCascade, BeginDelete, rowVars, Statement
  <2>2. History(rows, s) = {}
    BY <2>1 DEF Found, View, History
  <2> QED BY <1>12, <1>15, <2>2 DEF BeginCascade, Statement
<1>16. ASSUME NEW m \in todo[b], DeleteMessage(b, m)
       PROVE  LeavesNewest(b, s, n)'
  <2>1. /\ pc[b] \in {"trimming", "wiping", "cascading"} /\ UNCHANGED <<msgs, ins>>
        /\ todo'[b] = todo[b] \ {m}
        /\ del'[b] = IF m \in Visible(b) THEN del[b] \cup {m} ELSE del[b]
        /\ UNCHANGED <<sess, newv, lock>>
    BY <1>0, <1>16 DEF DeleteMessage, rowVars, TypeOK
  <2>2. Found(b, s)
    BY <1>8, <1>16, <2>1 DEF Statement
  <2>3. ~(pc[b] = "wiping" /\ args[b].sid = s)
    <3>1. pc[b] = "wiping" => pc'[b] \in {"wiping", "drop"} /\ args'[b] = args[b]
      BY <1>0, <1>16 DEF DeleteMessage, Return, After, GoTo, TypeOK
    <3> QED BY <3>1
  <2>4. /\ History(del[b] \cup todo[b], s)' \subseteq History(del[b] \cup todo[b], s)
        /\ Kept(b, s)' = Kept(b, s)
    BY <2>1 DEF History, Kept, Visible
  <2> QED BY <1>4, <2>1, <2>2, <2>3, <2>4
<1> QED
  BY <1>0, <1>6, <1>7, <1>9, <1>10, <1>11, <1>13, <1>14, <1>15, <1>16, EndEnds
     DEF StepOf, Statement, SessionVanished, NegativeCap, Fail, DeadlockAbort

(* What a commit keeps of a session is at most the window it leaves, hence *)
(* exactly that window.                                                    *)
LEMMA FullWindowsKept ==
  ASSUME Inv, Inv', TurnInProgress, DeletesKnown, Finite, Finite', RowLives, Trims, FullWindows,
         HistoryWithinOfferedCap', NEW b \in Backends, StepOf(b)
  PROVE  FullWindows'
<1>0. TypeOK /\ TypeOK'
  BY DEF Inv
<1> SUFFICES ASSUME NEW s \in Sessions, NEW n \in Caps \cup {0},
                    offered'[s] \subseteq {n}, History(gone', s) # {}, sess'[s].status = "live"
             PROVE  /\ Cardinality(History(msgs', s)) >= Window(n)
                    /\ Newer(History(msgs', s), History(gone', s))
  BY DEF FullWindows, Newer, Window, History
<1>1. offered[s] \subseteq {n}
  BY <1>0, RowEffects DEF RowSame, RowCreated, RowWritten, RowCommitted, RowRolledBack
<1>2. CASE msgs' = msgs /\ gone' = gone /\ ~Commit(b)
  <2>1. sess'[s] = sess[s]
    BY <1>0, <1>2, CallRowEffects, StatementRowEffects, EndRowEffects
       DEF StepOf, Fail, DeadlockAbort, RowSame, RowCreated, RowWritten, RowRolledBack
  <2> QED BY <1>1, <1>2, <2>1 DEF FullWindows
<1>3. CASE Commit(b)
  <2> DEFINE M == History(msgs', s)
             D == History(del[b], s)
             G == History(gone, s)
  <2>1. /\ msgs' = Visible(b) /\ gone' = gone \cup del[b] /\ todo[b] = {} /\ pc[b] = "open"
        /\ sess'[s] = View(b, s) /\ offered'[s] = KnownCaps(b, s)
    BY <1>3 DEF Commit, KnownCaps, TurnInProgress, InTurn
  <2>2. /\ Kept(b, s) = M /\ History(del[b] \cup todo[b], s) = D
        /\ History(gone', s) = G \cup D
    BY <2>1 DEF Kept, History
  <2>3. n \in Int /\ Window(n) \in Nat
    <3>1. \A x \in Caps \cup {0} : x \in Int
      BY SessionStoreAssumption
    <3> QED BY <3>1 DEF Window
  <2>4. \A T \in SUBSET M :
          /\ IsFiniteSet(T) /\ Cardinality(T) \in Nat /\ Cardinality(T) <= Cardinality(M)
          /\ Cardinality(T) = Cardinality(M) => T = M
    <3>1. M \in SUBSET msgs'
      BY DEF History
    <3>2. IsFiniteSet(M)
      BY <3>1, FS_Subset DEF Finite
    <3> QED BY <3>2, FS_Subset, FS_CardinalityType
  <2>5. Cardinality(M) <= Window(n)
    <3>1. CASE M = {}
      BY <2>3, <3>1, FS_EmptySet
    <3>2. CASE M # {}
      <4>1. PICK cap \in offered'[s] : Cardinality(M) <= Window(cap)
        BY <3>2 DEF HistoryWithinOfferedCap, History, Window
      <4> QED BY <4>1
    <3> QED BY <3>1, <3>2
  <2>6. \A T \in SUBSET M : Cardinality(T) >= Window(n) => T = M /\ Cardinality(M) >= Window(n)
    <3> SUFFICES ASSUME NEW T \in SUBSET M, Cardinality(T) >= Window(n)
                 PROVE  T = M /\ Cardinality(M) >= Window(n)
      OBVIOUS
    <3>1. /\ Cardinality(T) \in Nat /\ Cardinality(T) <= Cardinality(M)
          /\ Cardinality(M) \in Nat
          /\ Cardinality(T) = Cardinality(M) => T = M
      BY <2>4
    <3>2. Cardinality(T) = Cardinality(M)
      BY <2>3, <2>5, <3>1
    <3> QED BY <2>3, <3>1, <3>2
  <2>7. \A m \in M \cup D \cup G : m.id \in Nat /\ m.sid = s
    BY <1>0 DEF History, TypeOK, Message
  <2>8. D # {} => Cardinality(M) >= Window(n) /\ Newer(M, D)
    <3> SUFFICES ASSUME D # {} PROVE Cardinality(M) >= Window(n) /\ Newer(M, D)
      OBVIOUS
    <3>1. Found(b, s)
      BY <2>1 DEF Found
    <3>2. PICK N \in SUBSET M : Cardinality(N) >= Window(n) /\ Newer(N, D)
      BY <2>1, <2>2, <3>1 DEF Trims, TrimsAt, LeavesNewest
    <3> QED BY <2>6, <3>2
  <2>9. G # {} => Cardinality(M) >= Window(n) /\ Newer(M, G)
    <3> SUFFICES ASSUME G # {} PROVE Cardinality(M) >= Window(n) /\ Newer(M, G)
      OBVIOUS
    <3>1. sess[s].status = "live"
      <4>1. sess[s].status \in {"unborn", "live", "dead"}
        BY <1>0 DEF TypeOK, Row
      <4>2. sess[s].status # "unborn"
        BY DEF RowLives, History
      <4>3. lock[s] = b => sess[s].status # "dead"
        BY SessionStoreAssumption DEF RowLives
      <4> QED BY <2>1, <4>1, <4>2, <4>3 DEF View
    <3>2. Cardinality(History(msgs, s)) >= Window(n) /\ Newer(History(msgs, s), G)
      BY <1>1, <3>1 DEF FullWindows
    <3>3. CASE D \cap msgs = {}
      <4>1. History(msgs, s) \in SUBSET M
        BY <2>1, <3>3 DEF History, Visible
      <4> QED BY <2>6, <3>2, <4>1
    <3>4. CASE D \cap msgs # {}
      <4>1. PICK d \in D : d \in History(msgs, s)
        BY <3>4 DEF History
      <4>2. Cardinality(M) >= Window(n) /\ Newer(M, D)
        BY <2>8, <4>1
      <4>3. \A m \in M, g \in G : g.id < d.id /\ d.id < m.id
        BY <3>2, <4>1, <4>2 DEF Newer
      <4>4. \A m \in M, g \in G : g.id < m.id
        BY <2>7, <4>1, <4>3
      <4> QED BY <4>2, <4>4 DEF Newer
    <3> QED BY <3>3, <3>4
  <2> QED BY <2>2, <2>8, <2>9 DEF Newer
<1> QED BY <1>0, <1>2, <1>3, MessagesCommit

NewestInv == TrimmingCalls /\ Trims /\ FullWindows

LEMMA NextKeepsNewestInv ==
  ASSUME WindowIInv, WindowIInv', NewestInv, [Next]_vars
  PROVE  NewestInv'
<1>0. /\ Inv /\ Inv' /\ TypeOK /\ TypeOK' /\ TurnNumbers /\ TurnOwners /\ TurnInProgress
      /\ DeletesKnown /\ Finite /\ Finite' /\ RowLives /\ CallArgs /\ HistoryWithinOfferedCap'
      /\ TrimmingCalls /\ Trims /\ FullWindows
  BY DEF WindowIInv, WindowInv, TurnsIInv, TurnInv, Bookkeeping, Inv, NewestInv
<1>1. ASSUME NEW b \in Backends, StepOf(b)
      PROVE  NewestInv'
  <2>1. TrimmingCalls'
    BY <1>0, <1>1, TrimmingCallsKept
  <2>2. Trims'
    BY <1>0, <1>1, OthersLeaveNewest, OwnLeaveNewest DEF Trims
  <2>3. FullWindows'
    BY <1>0, <1>1, FullWindowsKept
  <2> QED BY <2>1, <2>2, <2>3 DEF NewestInv
<1>2. CASE Tick \/ UNCHANGED vars
  <2>1. UNCHANGED <<sess, newv, lock, msgs, gone, offered, given, ins, del, pc, args, todo>>
    BY <1>2 DEF Tick, vars, rowVars, msgVars, capVars
  <2>2. TrimmingCalls'
    BY <1>0, <2>1 DEF TrimmingCalls
  <2>3. Trims'
    BY <1>0, <2>1 DEF Trims, TrimsAt, LeavesNewest, Newer, Kept, Visible, History, Found, View,
                      KnownCaps, Window
  <2>4. FullWindows'
    BY <1>0, <2>1 DEF FullWindows, Newer, History, Window
  <2> QED BY <2>2, <2>3, <2>4 DEF NewestInv
<1> QED BY <1>1, <1>2 DEF Next, StepOf

LEMMA InitNewestInv == Init => NewestInv
<1> SUFFICES ASSUME Init PROVE NewestInv
  OBVIOUS
<1>1. \A b \in Backends, s \in Sessions : History(del[b] \cup todo[b], s) = {} /\ History(gone, s) = {}
  BY DEF Init, History
<1>2. TrimmingCalls
  BY DEF Init, TrimmingCalls
<1>3. Trims
  BY <1>1 DEF Trims, TrimsAt, LeavesNewest
<1>4. FullWindows
  BY DEF Init, FullWindows, History
<1> QED BY <1>2, <1>3, <1>4 DEF NewestInv

(* While a session has one cap, what it forgets is older than all it       *)
(* keeps, though ids are drawn before turns commit and concurrent trims    *)
(* choose their rows from different snapshots (trim_session_messages).     *)
THEOREM TrimsForgetTheOldest == Spec => []RetainedAreNewest
<1> DEFINE IInv == WindowIInv /\ NewestInv
<1>1. Init => IInv
  BY TurnsInductive, InitWindowInv, InitNewestInv DEF WindowIInv
<1>2. IInv /\ [Next]_vars => IInv'
  <2> SUFFICES ASSUME WindowIInv, NewestInv, [Next]_vars PROVE WindowIInv' /\ NewestInv'
    OBVIOUS
  <2>1. WindowIInv'
    BY TurnsInductive, NextKeepsWindowInv DEF WindowIInv
  <2> QED BY <2>1, NextKeepsNewestInv
<1>3. IInv => RetainedAreNewest
  <2> SUFFICES ASSUME WindowIInv, FullWindows, NEW d \in gone, NEW m \in msgs,
                      d.sid = m.sid, OneCap(m.sid)
               PROVE  d.id < m.id
    BY DEF RetainedAreNewest, NewestInv
  <2>1. TypeOK /\ NoOrphans /\ FiniteCaps /\ RowCaps
    BY DEF WindowIInv, WindowInv, TurnsIInv, Inv
  <2>2. m.sid \in Sessions /\ sess[m.sid].status = "live"
    BY <2>1 DEF TypeOK, Message, NoOrphans
  <2>3. PICK n \in Caps \cup {0} : offered[m.sid] = {n}
    BY <2>1, <2>2, TheOneCap
  <2>4. m \in History(msgs, m.sid) /\ d \in History(gone, m.sid)
    BY DEF History
  <2>5. Newer(History(msgs, m.sid), History(gone, m.sid))
    BY <2>2, <2>3, <2>4 DEF FullWindows
  <2> QED BY <2>4, <2>5 DEF Newer
<1> QED BY <1>1, <1>2, <1>3, PTL DEF Spec
=============================================================================
