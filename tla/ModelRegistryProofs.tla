------------------------ MODULE ModelRegistryProofs ------------------------
(***************************************************************************)
(* Proofs about ModelRegistry for every number of backends, names, keys    *)
(* and calls.                                                              *)
(***************************************************************************)
EXTENDS ModelRegistry, TLAPS

LEMMA AbsentType == Absent \in Rows /\ NoArg \in Args
BY DEF Rows, Args, NoArg

(* What a rollback leaves of the types.                                    *)
LEMMA UndoType ==
  ASSUME TypeOK, NEW B \in SUBSET Backends, Undo(B)
  PROVE  /\ row' \in [Names -> Rows] /\ newv' \in [Names -> Rows]
         /\ lock' \in [Names -> Backends \cup {NoBackend}]
         /\ writer' \in [Names -> Backends \cup {NoBackend}]
         /\ undone' \subseteq Model
         /\ pc' \in [Backends -> {"idle", "open", "upsert", "delete", "hung"}]
         /\ arg' \in [Backends -> Args]
<1>1. undone' \subseteq Model
  BY DEF Undo, TypeOK, Rows
<1>2. arg' \in [Backends -> Args] /\ newv' \in [Names -> Rows]
  BY AbsentType DEF Undo, TypeOK
<1> QED BY <1>1, <1>2 DEF Undo, TypeOK

LEMMA ViewType ==
  ASSUME TypeOK, NEW b \in Backends, NEW n \in Names
  PROVE  View(b, n) \in Rows
BY DEF View, TypeOK

LEMMA CreateInstanceType ==
  ASSUME TypeOK, NEW b \in Backends, NEW n, NEW m \in Rows, CreateInstance(b, n, m)
  PROVE  /\ cache' \in [Backends -> [Names -> Rows]]
         /\ pc' \in [Backends -> {"idle", "open", "upsert", "delete", "hung"}]
         /\ orphaned' \subseteq Backends
<1>1. [cache[b] EXCEPT ![n] = m] \in [Names -> Rows]
  BY DEF TypeOK
<1> QED BY <1>1 DEF CreateInstance, GoTo, TypeOK

LEMMA CallType ==
  ASSUME TypeOK, NEW b \in Backends, NEW op, Call(b, op)
  PROVE  calls' \in 0..MaxCalls /\ calls + 1 \in 1..MaxCalls
BY ModelRegistryAssumption DEF Call, TypeOK

LEMMA StartAddType ==
  ASSUME TypeOK, NEW b \in Backends, NEW n \in Names, NEW sealed \in BOOLEAN,
         NEW quality \in Quality, NEW legible \in BOOLEAN,
         StartAdd(b, n, sealed, quality, legible)
  PROVE  TypeOK'
<1> DEFINE k == IF sealed THEN key[b] ELSE NoKey
           m == NewModel(b, k, quality, legible)
<1>1. calls' \in 0..MaxCalls /\ calls + 1 \in 1..MaxCalls
  BY CallType DEF StartAdd
<1>2. k \in Keys \cup {NoKey} /\ quality \in {"good", "bad"}
  BY ModelRegistryAssumption DEF TypeOK
<1>3. m \in Model
  BY <1>1, <1>2 DEF NewModel, Model
<1>4. [name |-> n, model |-> m] \in Args
  BY <1>3 DEF Args, Rows
<1>5. arg' = [arg EXCEPT ![b] = [name |-> n, model |-> m]]
  BY DEF StartAdd
<1>6. arg' \in [Backends -> Args]
  BY <1>4, <1>5 DEF TypeOK
<1> QED BY <1>1, <1>6 DEF StartAdd, GoTo, TypeOK, catalogVars

LEMMA UpsertType ==
  ASSUME TypeOK, NEW b \in Backends, Upsert(b)
  PROVE  TypeOK'
<1> DEFINE n == arg[b].name
           m == arg[b].model
<1>1. m \in Rows
  BY DEF TypeOK, Args
<1>2. UNCHANGED <<key, calls>>
  BY DEF Upsert
<1>3. ASSUME WriteRow(b, n, m)
      PROVE  /\ newv' \in [Names -> Rows]
             /\ lock' \in [Names -> Backends \cup {NoBackend}]
  BY <1>1, <1>3 DEF WriteRow, TypeOK
<1>4. CASE WriteRow(b, n, m) /\ CreateInstance(b, n, m)
           /\ arg' = [arg EXCEPT ![b] = NoArg] /\ UNCHANGED <<row, writer, undone>>
  BY <1>1, <1>2, <1>3, <1>4, AbsentType, CreateInstanceType DEF TypeOK
<1>5. CASE CreateFails(b, m)
  BY <1>2, <1>5, UndoType DEF CreateFails, TypeOK
<1>6. CASE WriteRow(b, n, m) /\ GoTo(b, "hung")
           /\ UNCHANGED <<row, writer, undone, arg, cache, orphaned>>
  BY <1>2, <1>3, <1>6 DEF GoTo, TypeOK
<1> QED BY <1>4, <1>5, <1>6 DEF Upsert

LEMMA AskType ==
  ASSUME TypeOK, NEW b \in Backends, NEW n \in Names, NEW op, Ask(b, n, op)
  PROVE  TypeOK'
<1>1. calls' \in 0..MaxCalls
  BY CallType DEF Ask
<1>2. CASE AskCached(b, n, op)
  BY <1>1, <1>2 DEF AskCached, GoTo, TypeOK, catalogVars
<1>3. CASE AskLoaded(b, n)
  BY <1>1, <1>3, ViewType, CreateInstanceType DEF AskLoaded, TypeOK, catalogVars
<1>4. CASE AskRefused(b, n, op)
  BY <1>1, <1>4, UndoType DEF AskRefused, TypeOK
<1> QED BY <1>2, <1>3, <1>4 DEF Ask

LEMMA NextType ==
  ASSUME TypeOK, [Next]_vars
  PROVE  TypeOK'
<1>1. ASSUME Restart, calls' \in 0..MaxCalls
      PROVE  TypeOK'
  BY <1>1, AbsentType, UndoType DEF Restart, TypeOK
<1>2. CASE Crash
  BY <1>1, <1>2 DEF Crash, TypeOK
<1>3. ASSUME NEW b \in Backends, AddThrows(b)
      PROVE  TypeOK'
  BY <1>1, <1>3, CallType DEF AddThrows
<1>4. ASSUME NEW b \in Backends, NEW n \in Names, StartRemove(b, n)
      PROVE  TypeOK'
  <2>1. cache' \in [Backends -> [Names -> Rows]]
    BY <1>4, AbsentType DEF StartRemove, Forget, TypeOK
  <2>2. arg' \in [Backends -> Args]
    BY <1>4, AbsentType DEF StartRemove, TypeOK, Args
  <2> QED BY <1>4, <2>1, <2>2, CallType DEF StartRemove, GoTo, TypeOK, catalogVars
<1>5. ASSUME NEW b \in Backends, CallHangs(b) \/ \E k \in Keys \cup {NoKey} : SetKey(b, k)
      PROVE  TypeOK'
  BY <1>5, CallType DEF CallHangs, Hang, SetKey, GoTo, TypeOK, catalogVars
<1>6. ASSUME NEW b \in Backends, DeleteRow(b)
      PROVE  TypeOK'
  <2>1. newv' \in [Names -> Rows] /\ lock' \in [Names -> Backends \cup {NoBackend}]
    BY <1>6, AbsentType DEF DeleteRow, WriteRow, TypeOK
  <2> QED BY <1>6, <2>1, AbsentType DEF DeleteRow, GoTo, TypeOK
<1>7. ASSUME NEW b \in Backends, Commit(b)
      PROVE  TypeOK'
  BY <1>7, ViewType DEF Commit, GoTo, TypeOK
<1>8. ASSUME NEW b \in Backends, Rollback(b) \/ DeadlockAbort(b)
      PROVE  TypeOK'
  BY <1>8, UndoType DEF Rollback, DeadlockAbort, TypeOK
<1>9. CASE UNCHANGED vars
  BY <1>9 DEF vars, TypeOK
<1> QED BY <1>2, <1>3, <1>4, <1>5, <1>6, <1>7, <1>8, <1>9, StartAddType, UpsertType, AskType
        DEF Next, Step

LEMMA InitType == Init => TypeOK
BY AbsentType, ModelRegistryAssumption DEF Init, TypeOK

(* Type correctness: every variable keeps its type.                        *)
THEOREM RegistryTypeCorrect == Spec => []TypeOK
<1>1. TypeOK /\ [Next]_vars => TypeOK'
  BY NextType
<1> QED BY <1>1, InitType, PTL DEF Spec

-----------------------------------------------------------------------------
(* No committed row is refused.  CommittedRowsInitialize is not inductive: *)
(* what a transaction has written and may still commit must be good too,   *)
(* and only a hung backend may hold a row that was never tried.            *)

Builds(m) == m # Absent => m.quality = "good"

WrittenLoads ==
  \A n \in Names, b \in Backends : lock[n] = b /\ pc[b] # "hung" => Builds(newv[n])

CatalogInv == TypeOK /\ CommittedRowsInitialize /\ WrittenLoads

(* A rolled back transaction leaves the committed rows and those of others. *)
LEMMA UndoKeepsInv ==
  ASSUME CatalogInv, TypeOK', NEW B \in SUBSET Backends, Undo(B)
  PROVE  CatalogInv'
<1>1. CommittedRowsInitialize'
  BY DEF CatalogInv, Undo, CommittedRowsInitialize
<1>2. WrittenLoads'
  <2> SUFFICES ASSUME NEW n \in Names, NEW b \in Backends, lock'[n] = b, pc'[b] # "hung"
               PROVE  Builds(newv'[n])
    BY DEF WrittenLoads
  <2>1. lock[n] = b /\ b \notin B
    BY ModelRegistryAssumption DEF Undo, CatalogInv, TypeOK
  <2>2. newv'[n] = newv[n] /\ pc'[b] = pc[b]
    BY <2>1 DEF Undo
  <2> QED BY <2>1, <2>2 DEF CatalogInv, WrittenLoads
<1> QED BY <1>1, <1>2 DEF CatalogInv

(* Steps that leave the rows alone and end no hang.                        *)
LEMMA QuietStep ==
  ASSUME CatalogInv, TypeOK', UNCHANGED <<row, newv, lock>>,
         \A b \in Backends : pc[b] = "hung" => pc'[b] = "hung"
  PROVE  CatalogInv'
BY DEF CatalogInv, CommittedRowsInitialize, WrittenLoads

(* A backend writes a row.                                                 *)
LEMMA WriteKeepsInv ==
  ASSUME CatalogInv, TypeOK', NEW b \in Backends, NEW n, NEW m, WriteRow(b, n, m),
         UNCHANGED row, \A c \in Backends \ {b} : pc'[c] = pc[c],
         pc[b] # "hung", pc'[b] # "hung" => Builds(m)
  PROVE  CatalogInv'
<1>1. CommittedRowsInitialize'
  BY DEF CatalogInv, CommittedRowsInitialize
<1>2. WrittenLoads'
  <2> SUFFICES ASSUME NEW x \in Names, NEW c \in Backends, lock'[x] = c, pc'[c] # "hung"
               PROVE  Builds(newv'[x])
    BY DEF WrittenLoads
  <2>1. CASE x = n
    BY <2>1 DEF WriteRow, CatalogInv, TypeOK
  <2>2. CASE x # n
    <3>1. lock[x] = c /\ newv'[x] = newv[x]
      BY <2>2 DEF WriteRow, CatalogInv, TypeOK
    <3> QED BY <3>1 DEF CatalogInv, WrittenLoads
  <2> QED BY <2>1, <2>2
<1> QED BY <1>1, <1>2 DEF CatalogInv

LEMMA NextKeepsInv ==
  ASSUME CatalogInv, [Next]_vars
  PROVE  CatalogInv'
<1>0. TypeOK /\ TypeOK'
  BY NextType DEF CatalogInv
<1>1. CASE Crash
  BY <1>0, <1>1, UndoKeepsInv DEF Crash, Restart
<1>2. ASSUME NEW b \in Backends, AddThrows(b) \/ Rollback(b) \/ DeadlockAbort(b)
      PROVE  CatalogInv'
  BY <1>0, <1>2, UndoKeepsInv DEF AddThrows, Restart, Rollback, DeadlockAbort
<1>3. ASSUME NEW b \in Backends,
             UNCHANGED <<row, newv, lock>>, pc[b] # "hung",
             \A c \in Backends \ {b} : pc'[c] = pc[c]
      PROVE  CatalogInv'
  BY <1>0, <1>3, QuietStep
<1>4. ASSUME NEW b \in Backends, NEW n \in Names, NEW sealed \in BOOLEAN,
             NEW quality \in Quality, NEW legible \in BOOLEAN,
             StartAdd(b, n, sealed, quality, legible)
      PROVE  CatalogInv'
  BY <1>0, <1>3, <1>4 DEF StartAdd, Call, GoTo, TypeOK, catalogVars
<1>5. ASSUME NEW b \in Backends, NEW n \in Names, StartRemove(b, n)
      PROVE  CatalogInv'
  BY <1>0, <1>3, <1>5 DEF StartRemove, Call, GoTo, TypeOK, catalogVars
<1>6. ASSUME NEW b \in Backends, CallHangs(b) \/ \E k \in Keys \cup {NoKey} : SetKey(b, k)
      PROVE  CatalogInv'
  BY <1>0, <1>3, <1>6 DEF CallHangs, Hang, SetKey, Call, GoTo, TypeOK, catalogVars
<1>7. ASSUME NEW b \in Backends, NEW n \in Names, NEW op, Ask(b, n, op)
      PROVE  CatalogInv'
  <2>1. pc[b] # "hung"
    BY <1>7 DEF Ask, Call
  <2>2. CASE AskCached(b, n, op)
    BY <1>0, <1>3, <2>1, <2>2 DEF AskCached, GoTo, TypeOK, catalogVars
  <2>3. CASE AskLoaded(b, n)
    BY <1>0, <1>3, <2>1, <2>3 DEF AskLoaded, CreateInstance, GoTo, TypeOK, catalogVars
  <2>4. CASE AskRefused(b, n, op)
    BY <1>0, <2>4, UndoKeepsInv DEF AskRefused
  <2> QED BY <1>7, <2>2, <2>3, <2>4 DEF Ask
<1>8. ASSUME NEW b \in Backends, Upsert(b)
      PROVE  CatalogInv'
  <2> DEFINE n == arg[b].name
             m == arg[b].model
  <2>1. pc[b] = "upsert"
    BY <1>8 DEF Upsert
  <2>2. CASE CreateFails(b, m)
    BY <1>0, <2>2, UndoKeepsInv DEF CreateFails
  <2>3. CASE WriteRow(b, n, m) /\ CreateInstance(b, n, m) /\ UNCHANGED row
    <3>1. Builds(m) /\ \A c \in Backends \ {b} : pc'[c] = pc[c]
      BY <1>0, <2>3 DEF CreateInstance, GoTo, TypeOK, Builds
    <3> QED BY <1>0, <2>1, <2>3, <3>1, WriteKeepsInv
  <2>4. CASE WriteRow(b, n, m) /\ GoTo(b, "hung") /\ UNCHANGED row
    <3>1. pc'[b] = "hung" /\ \A c \in Backends \ {b} : pc'[c] = pc[c]
      BY <1>0, <2>4 DEF GoTo, TypeOK
    <3> QED BY <1>0, <2>1, <2>4, <3>1, WriteKeepsInv
  <2> QED BY <1>8, <2>2, <2>3, <2>4 DEF Upsert
<1>9. ASSUME NEW b \in Backends, DeleteRow(b)
      PROVE  CatalogInv'
  <2>1. /\ pc[b] = "delete" /\ pc'[b] = "open" /\ UNCHANGED row
        /\ \A c \in Backends \ {b} : pc'[c] = pc[c]
    BY <1>0, <1>9 DEF DeleteRow, GoTo, TypeOK
  <2>2. CASE UNCHANGED <<newv, lock>>
    BY <1>3, <2>1, <2>2
  <2>3. CASE WriteRow(b, arg[b].name, Absent)
    <3>1. Builds(Absent)
      BY DEF Builds
    <3> QED BY <1>0, <2>1, <2>3, <3>1, WriteKeepsInv
  <2> QED BY <1>9, <2>2, <2>3 DEF DeleteRow
<1>10. ASSUME NEW b \in Backends, Commit(b)
       PROVE  CatalogInv'
  <2>1. \A n \in Names : Builds(View(b, n))
    BY <1>0, <1>10 DEF Commit, View, CatalogInv, CommittedRowsInitialize, WrittenLoads, Builds
  <2>2. CommittedRowsInitialize'
    BY <1>10, <2>1 DEF Commit, CommittedRowsInitialize, Builds
  <2>3. WrittenLoads'
    <3> SUFFICES ASSUME NEW n \in Names, NEW c \in Backends, lock'[n] = c, pc'[c] # "hung"
                 PROVE  Builds(newv'[n])
      BY DEF WrittenLoads
    <3>1. lock[n] = c /\ c # b
      BY <1>0, <1>10, ModelRegistryAssumption DEF Commit, TypeOK
    <3>2. pc'[c] = pc[c] /\ newv'[n] = newv[n]
      BY <1>0, <1>10, <3>1 DEF Commit, GoTo, TypeOK
    <3> QED BY <3>1, <3>2 DEF CatalogInv, WrittenLoads
  <2> QED BY <1>0, <2>2, <2>3 DEF CatalogInv
<1>11. CASE UNCHANGED vars
  BY <1>0, <1>11, QuietStep DEF vars
<1> QED BY <1>1, <1>2, <1>4, <1>5, <1>6, <1>7, <1>8, <1>9, <1>10, <1>11 DEF Next, Step

(* Whatever add_model is given, the committed catalog only ever holds rows *)
(* whose configuration initialize accepts (create_model_instance,          *)
(* model_manager.cpp); whether their secrets open is another matter.       *)
THEOREM CommittedRowsAlwaysInitialize == Spec => []CommittedRowsInitialize
<1>1. Init => CatalogInv
  BY InitType, ModelRegistryAssumption DEF Init, CatalogInv, CommittedRowsInitialize, WrittenLoads
<1>2. CatalogInv /\ [Next]_vars => CatalogInv'
  BY NextKeepsInv
<1>3. CatalogInv => CommittedRowsInitialize
  BY DEF CatalogInv
<1> QED BY <1>1, <1>2, <1>3, PTL DEF Spec

-----------------------------------------------------------------------------
(* A cache departs from the catalog only through others or a rollback.     *)
(* The proof follows each revision from the call that makes it: until it   *)
(* commits nobody but its author has it, and none is both committed and    *)
(* rolled back.                                                            *)

Revised == {m \in Rows : m.rev <= calls}
RevisionsMade ==
  /\ \A n \in Names : row[n] \in Revised /\ newv[n] \in Revised
  /\ \A b \in Backends : arg[b].model \in Revised /\ \A n \in Names : cache[b][n] \in Revised
  /\ undone \subseteq Revised

(* Where a revision has come to beside the call that makes it.             *)
InCatalog(m) == m \in undone \/ \E n \in Names : row[n] = m \/ newv[n] = m
InCache(m) == \E b \in Backends, n \in Names : cache[b][n] = m

PendingFresh ==
  \A b \in Backends : pc[b] = "upsert" =>
    /\ arg[b].name \in Names /\ arg[b].model # Absent /\ arg[b].model.by = b
    /\ ~InCatalog(arg[b].model) /\ ~InCache(arg[b].model)

WrittenIsOwn(b, n) ==
  LET m == newv[n] IN
  /\ m.by = b /\ m \notin undone
  /\ \A x \in Names : row[x] # m /\ (lock[x] # NoBackend /\ newv[x] = m => x = n)
  /\ \A c \in Backends, x \in Names : cache[c][x] = m => c = b /\ x = n
WrittenFresh ==
  \A b \in Backends, n \in Names : lock[n] = b /\ newv[n] # Absent => WrittenIsOwn(b, n)

CommittedStand == \A n \in Names : row[n] \notin undone

RemovedForgotten ==
  \A b \in Backends : pc[b] = "delete" =>
    arg[b].name \in Names /\ cache[b][arg[b].name] = Absent

Explained(b, n) ==
  LET m == cache[b][n] IN
  pc[b] # "hung" /\ m # Absent =>
    \/ m = View(b, n)
    \/ m.by = b /\ m \in undone
    \/ m \notin undone /\ lock[n] # b /\ writer[n] # b
CachesExplained == \A b \in Backends, n \in Names : Explained(b, n)

CacheInv == /\ RevisionsMade /\ PendingFresh /\ WrittenFresh /\ CommittedStand /\ RemovedForgotten
            /\ CachesExplained

LEMMA Revisions ==
  ASSUME TypeOK
  PROVE  /\ calls \in Nat /\ Absent \in Revised
         /\ \A m \in Rows : m.rev \in Nat
         /\ Absent \notin undone
         /\ calls' \in Nat /\ calls' >= calls => Revised \subseteq Revised'
<1>1. calls \in Nat
  BY ModelRegistryAssumption DEF TypeOK
<1>2. \A m \in Rows : m.rev \in Nat
  BY ModelRegistryAssumption DEF Rows, Model, Absent
<1>3. Absent \notin Model
  BY DEF Absent, Model
<1>4. Absent.rev = 0
  BY DEF Absent
<1>5. calls' \in Nat /\ calls' >= calls => Revised \subseteq Revised'
  BY <1>1, <1>2 DEF Revised
<1> QED BY <1>1, <1>2, <1>3, <1>4, <1>5, AbsentType DEF TypeOK, Revised

(* A rollback: what it undoes nobody else has.                             *)
LEMMA UndoKeepsCaches ==
  ASSUME TypeOK, TypeOK', CacheInv, NEW B \in SUBSET Backends, Undo(B), calls' >= calls,
         \/ cache' = cache /\ \A b \in B : pc[b] # "hung"
         \/ cache' = [b \in Backends |-> [n \in Names |-> Absent]]
  PROVE  CacheInv'
<1> USE DEF CacheInv
<1>0. /\ row' = row /\ writer' = writer
      /\ \A n \in Names : newv'[n] = IF lock[n] \in B THEN row[n] ELSE newv[n]
      /\ \A n \in Names : lock'[n] = IF lock[n] \in B THEN NoBackend ELSE lock[n]
      /\ \A m : m \in undone' <=> m \in undone \/ (m # Absent /\ \E n \in Names : lock[n] \in B /\ newv[n] = m)
      /\ \A b \in Backends : pc'[b] = IF b \in B THEN "idle" ELSE pc[b]
      /\ \A b \in Backends : arg'[b] = IF b \in B THEN NoArg ELSE arg[b]
  BY DEF Undo
<1>1. \A b \in Backends, n \in Names : cache'[b][n] = cache[b][n] \/ cache'[b][n] = Absent
  OBVIOUS
<1>2. RevisionsMade'
  <2>1. Revised \subseteq Revised' /\ Absent \in Revised
    BY Revisions, ModelRegistryAssumption DEF TypeOK
  <2>2. NoArg.model = Absent
    BY DEF NoArg
  <2>3. \A n \in Names : row'[n] \in Revised /\ newv'[n] \in Revised
    BY <1>0 DEF RevisionsMade
  <2>4. \A b \in Backends : arg'[b].model \in Revised /\ \A n \in Names : cache'[b][n] \in Revised
    BY <1>0, <1>1, <2>1, <2>2 DEF RevisionsMade
  <2>5. undone' \subseteq Revised
    BY <1>0 DEF RevisionsMade
  <2> QED BY <2>1, <2>3, <2>4, <2>5 DEF RevisionsMade
<1>3. PendingFresh'
  <2> SUFFICES ASSUME NEW b \in Backends, pc'[b] = "upsert"
               PROVE  /\ arg'[b].name \in Names /\ arg'[b].model # Absent /\ arg'[b].model.by = b
                      /\ ~InCatalog(arg[b].model)' /\ ~InCache(arg[b].model)'
    BY DEF PendingFresh
  <2>1. b \notin B /\ arg'[b] = arg[b] /\ pc[b] = "upsert"
    BY <1>0
  <2> QED BY <1>0, <1>1, <2>1 DEF PendingFresh, InCatalog, InCache
<1>4. WrittenFresh'
  <2> SUFFICES ASSUME NEW b \in Backends, NEW n \in Names, lock'[n] = b, newv'[n] # Absent
               PROVE  WrittenIsOwn(b, n)'
    BY DEF WrittenFresh
  <2>1. lock[n] = b /\ b \notin B /\ newv'[n] = newv[n]
    BY <1>0, ModelRegistryAssumption
  <2>2. WrittenIsOwn(b, n)
    BY <2>1 DEF WrittenFresh
  <2>3. newv[n] \notin undone'
    BY <1>0, <2>1, <2>2, ModelRegistryAssumption DEF WrittenIsOwn
  <2>4. \A x \in Names : row'[x] # newv[n] /\ (lock'[x] # NoBackend /\ newv'[x] = newv[n] => x = n)
    BY <1>0, <2>2 DEF WrittenIsOwn
  <2>5. \A c \in Backends, x \in Names : cache'[c][x] = newv[n] => c = b /\ x = n
    BY <1>1, <2>1, <2>2 DEF WrittenIsOwn
  <2> QED BY <2>1, <2>2, <2>3, <2>4, <2>5 DEF WrittenIsOwn
<1>5. CommittedStand'
  BY <1>0, ModelRegistryAssumption DEF CommittedStand, WrittenFresh, WrittenIsOwn
<1>6. RemovedForgotten'
  BY <1>0, <1>1 DEF RemovedForgotten
<1>7. CachesExplained'
  <2> SUFFICES ASSUME NEW b \in Backends, NEW n \in Names, pc'[b] # "hung", cache'[b][n] # Absent
               PROVE  Explained(b, n)'
    BY DEF CachesExplained, Explained
  <2>1. cache' = cache /\ pc[b] # "hung" /\ cache[b][n] # Absent /\ b # NoBackend
    BY <1>0, ModelRegistryAssumption
  <2> DEFINE m == cache[b][n]
  <2>2. CASE m = View(b, n) /\ lock[n] = b /\ b \in B
    <3>1. m.by = b /\ m \in undone'
      BY <1>0, <2>1, <2>2 DEF View, WrittenFresh, WrittenIsOwn
    <3> QED BY <2>1, <3>1 DEF Explained
  <2>3. CASE m = View(b, n) /\ ~(lock[n] = b /\ b \in B)
    <3>1. m = View(b, n)'
      BY <1>0, <2>1, <2>3 DEF View
    <3> QED BY <2>1, <3>1 DEF Explained
  <2>4. CASE m.by = b /\ m \in undone
    BY <1>0, <2>1, <2>4 DEF Explained
  <2>5. CASE m \notin undone /\ lock[n] # b /\ writer[n] # b
    <3>1. m \notin undone'
      <4> SUFFICES ASSUME NEW x \in Names, lock[x] \in B, newv[x] = m PROVE FALSE
        BY <1>0, <2>5
      <4>1. PICK c \in Backends : lock[x] = c
        OBVIOUS
      <4>2. WrittenIsOwn(c, x)
        BY <2>1, <4>1 DEF WrittenFresh
      <4> QED BY <2>5, <4>1, <4>2 DEF WrittenIsOwn
    <3> QED BY <1>0, <2>1, <2>5, <3>1 DEF Explained
  <2> QED BY <2>1, <2>2, <2>3, <2>4, <2>5 DEF CachesExplained, Explained
<1> QED BY <1>2, <1>3, <1>4, <1>5, <1>6, <1>7

(* Calls that leave rows, caches and arguments alone.                      *)
LEMMA QuietKeepsCaches ==
  ASSUME TypeOK, TypeOK', CacheInv, UNCHANGED <<row, newv, lock, writer, undone, cache, arg>>,
         calls' >= calls,
         \A b \in Backends : \/ pc'[b] = pc[b]
                             \/ pc[b] # "hung" /\ pc'[b] \notin {"upsert", "delete"}
  PROVE  CacheInv'
<1> USE DEF CacheInv
<1>1. RevisionsMade'
  <2>1. Revised \subseteq Revised'
    BY Revisions, ModelRegistryAssumption DEF TypeOK
  <2> QED BY <2>1 DEF RevisionsMade
<1>2. PendingFresh'
  BY DEF PendingFresh, InCatalog, InCache
<1>3. WrittenFresh' /\ CommittedStand' /\ RemovedForgotten'
  BY DEF WrittenFresh, WrittenIsOwn, CommittedStand, RemovedForgotten
<1>4. CachesExplained'
  BY DEF CachesExplained, Explained, View
<1> QED BY <1>1, <1>2, <1>3, <1>4

(* A commit publishes what only its author had.                            *)
LEMMA CommitKeepsCaches ==
  ASSUME TypeOK, TypeOK', CacheInv, NEW b \in Backends, Commit(b)
  PROVE  CacheInv'
<1> USE DEF CacheInv
<1>0. /\ UNCHANGED <<newv, cache, arg, undone, calls>> /\ b # NoBackend
      /\ \A n \in Names : row'[n] = IF lock[n] = b THEN newv[n] ELSE row[n]
      /\ \A n \in Names : writer'[n] = IF lock[n] = b THEN b ELSE writer[n]
      /\ \A n \in Names : lock'[n] = IF lock[n] = b THEN NoBackend ELSE lock[n]
      /\ pc[b] = "open" /\ pc'[b] = "idle" /\ \A c \in Backends \ {b} : pc'[c] = pc[c]
  BY ModelRegistryAssumption DEF Commit, View, GoTo, TypeOK
<1>1. RevisionsMade'
  BY <1>0 DEF RevisionsMade, Revised
<1>2. PendingFresh'
  BY <1>0 DEF PendingFresh, InCatalog, InCache
<1>3. WrittenFresh'
  <2> SUFFICES ASSUME NEW c \in Backends, NEW n \in Names, lock'[n] = c, newv[n] # Absent
               PROVE  WrittenIsOwn(c, n)'
    BY <1>0 DEF WrittenFresh
  <2>1. lock[n] = c /\ c # b
    BY <1>0, ModelRegistryAssumption
  <2>2. WrittenIsOwn(c, n)
    BY <2>1 DEF WrittenFresh
  <2>3. \A x \in Names : row'[x] # newv[n]
    BY <1>0, <2>1, <2>2 DEF WrittenIsOwn
  <2> QED BY <1>0, <2>2, <2>3 DEF WrittenIsOwn
<1>4. CommittedStand'
  BY <1>0, Revisions DEF CommittedStand, WrittenFresh, WrittenIsOwn
<1>5. RemovedForgotten'
  BY <1>0 DEF RemovedForgotten
<1>6. CachesExplained'
  <2> SUFFICES ASSUME NEW c \in Backends, NEW n \in Names, pc'[c] # "hung", cache[c][n] # Absent
               PROVE  Explained(c, n)'
    BY <1>0 DEF CachesExplained, Explained
  <2>1. pc[c] # "hung" /\ Explained(c, n)
    BY <1>0 DEF CachesExplained
  <2> DEFINE m == cache[c][n]
  <2>2. CASE m = View(c, n) /\ (c = b \/ lock[n] # b)
    <3>1. m = View(c, n)'
      BY <1>0, <2>2 DEF View
    <3> QED BY <1>0, <3>1 DEF Explained
  <2>3. CASE m = View(c, n) /\ c # b /\ lock[n] = b
    <3>1. m = row[n] /\ m \notin undone /\ lock'[n] # c /\ writer'[n] # c
      BY <1>0, <2>3, ModelRegistryAssumption DEF View, CommittedStand
    <3> QED BY <1>0, <3>1 DEF Explained
  <2>4. CASE m.by = c /\ m \in undone
    BY <1>0, <2>4 DEF Explained
  <2>5. CASE m \notin undone /\ lock[n] # c /\ writer[n] # c
    BY <1>0, <2>5, ModelRegistryAssumption DEF Explained
  <2> QED BY <2>1, <2>2, <2>3, <2>4, <2>5 DEF Explained
<1> QED BY <1>1, <1>2, <1>3, <1>4, <1>5, <1>6

(* add_model begins with a revision that nobody has seen.                  *)
LEMMA StartAddKeepsCaches ==
  ASSUME TypeOK, TypeOK', CacheInv, NEW b \in Backends, NEW n \in Names, NEW sealed \in BOOLEAN,
         NEW quality \in Quality, NEW legible \in BOOLEAN,
         StartAdd(b, n, sealed, quality, legible)
  PROVE  CacheInv'
<1> USE DEF CacheInv
<1> DEFINE m == NewModel(b, IF sealed THEN key[b] ELSE NoKey, quality, legible)
<1>0. /\ UNCHANGED <<row, newv, lock, writer, undone, cache>>
      /\ calls' = calls + 1 /\ arg'[b] = [name |-> n, model |-> m] /\ pc'[b] = "upsert"
      /\ \A c \in Backends \ {b} : pc'[c] = pc[c] /\ arg'[c] = arg[c]
      /\ pc[b] \in {"idle", "open"}
  BY DEF StartAdd, Call, GoTo, TypeOK, catalogVars
<1>1. m.rev = calls + 1 /\ m.by = b
  BY DEF NewModel
<1>2. m \in Rows
  <2>1. arg'[b] \in Args /\ arg'[b].model = m
    BY <1>0 DEF TypeOK
  <2> QED BY <2>1 DEF Args
<1> HIDE DEF m
<1>3. m \notin Revised /\ m \in Revised' /\ Revised \subseteq Revised' /\ Absent \in Revised
  BY <1>0, <1>1, <1>2, Revisions DEF Revised
<1>4. RevisionsMade'
  <2>1. \A c \in Backends : arg'[c].model \in Revised'
    BY <1>0, <1>3 DEF RevisionsMade
  <2> QED BY <1>0, <1>3, <2>1 DEF RevisionsMade
<1>5. PendingFresh'
  <2>1. m # Absent /\ ~InCatalog(m) /\ ~InCache(m)
    BY <1>3 DEF RevisionsMade, InCatalog, InCache
  <2> QED BY <1>0, <1>1, <2>1 DEF PendingFresh, InCatalog, InCache
<1>6. WrittenFresh' /\ CommittedStand' /\ RemovedForgotten'
  BY <1>0 DEF WrittenFresh, WrittenIsOwn, CommittedStand, RemovedForgotten
<1>7. CachesExplained'
  BY <1>0 DEF CachesExplained, Explained, View
<1> QED BY <1>4, <1>5, <1>6, <1>7

(* The upsert hands its revision to the catalog and, if the call gets to   *)
(* build the instance, to the author's cache.                              *)
LEMMA UpsertKeepsCaches ==
  ASSUME TypeOK, TypeOK', CacheInv, NEW b \in Backends, Upsert(b)
  PROVE  CacheInv'
<1> USE DEF CacheInv
<1> DEFINE n == arg[b].name
           m == arg[b].model
<1>1. CASE CreateFails(b, m)
  BY <1>1, UndoKeepsCaches, Revisions DEF Upsert, CreateFails
<1>2. CASE ~CreateFails(b, m)
  <2>0. /\ n \in Names /\ m # Absent /\ m.by = b /\ ~InCatalog(m) /\ ~InCache(m)
        /\ MayWrite(b, n) /\ pc[b] = "upsert" /\ b # NoBackend
    BY ModelRegistryAssumption DEF Upsert, PendingFresh
  <2>1. /\ WriteRow(b, n, m) /\ UNCHANGED <<row, writer, undone, calls>>
        /\ \/ CreateInstance(b, n, m) /\ arg' = [arg EXCEPT ![b] = NoArg]
           \/ GoTo(b, "hung") /\ UNCHANGED <<arg, cache>>
    BY <1>2 DEF Upsert
  <2>2. /\ newv'[n] = m /\ lock'[n] = b
        /\ \A x \in Names \ {n} : newv'[x] = newv[x] /\ lock'[x] = lock[x]
        /\ \A c \in Backends \ {b} : pc'[c] = pc[c] /\ arg'[c] = arg[c] /\ cache'[c] = cache[c]
        /\ \A x \in Names \ {n} : cache'[b][x] = cache[b][x]
        /\ \/ pc'[b] = "open" /\ arg'[b].model = Absent /\ cache'[b][n] = m
           \/ pc'[b] = "hung" /\ arg'[b] = arg[b] /\ cache'[b][n] = cache[b][n]
    <3>1. /\ newv'[n] = m /\ lock'[n] = b
          /\ \A x \in Names \ {n} : newv'[x] = newv[x] /\ lock'[x] = lock[x]
      BY <2>0, <2>1 DEF WriteRow, TypeOK
    <3>2. CASE CreateInstance(b, n, m) /\ arg' = [arg EXCEPT ![b] = NoArg]
      <4>1. arg'[b].model = Absent /\ \A c \in Backends \ {b} : arg'[c] = arg[c]
        BY <3>2 DEF NoArg, TypeOK
      <4>2. pc'[b] = "open" /\ \A c \in Backends \ {b} : pc'[c] = pc[c]
        BY <3>2 DEF CreateInstance, GoTo, TypeOK
      <4>3. cache' = [cache EXCEPT ![b][n] = m] /\ cache[b] \in [Names -> Rows]
        BY <3>2 DEF CreateInstance, TypeOK
      <4>4. /\ cache'[b][n] = m /\ \A x \in Names \ {n} : cache'[b][x] = cache[b][x]
            /\ \A c \in Backends \ {b} : cache'[c] = cache[c]
        BY <2>0, <4>3 DEF TypeOK
      <4> QED BY <3>1, <4>1, <4>2, <4>4
    <3>3. CASE GoTo(b, "hung") /\ UNCHANGED <<arg, cache>>
      BY <2>0, <3>1, <3>3 DEF GoTo, TypeOK
    <3> QED BY <2>1, <3>2, <3>3
  <2> HIDE DEF n, m
  <2>3. \A c \in Backends, x \in Names :
           cache'[c][x] = cache[c][x] \/ (c = b /\ x = n /\ cache'[c][x] = m)
    BY <2>2
  <2>4. RevisionsMade'
    <3>1. m \in Revised /\ Absent \in Revised
      BY Revisions DEF RevisionsMade, m
    <3>2. \A x \in Names : row'[x] \in Revised /\ newv'[x] \in Revised
      BY <2>1, <2>2, <3>1 DEF RevisionsMade
    <3>3. \A c \in Backends : arg'[c].model \in Revised /\ \A x \in Names : cache'[c][x] \in Revised
      BY <2>2, <2>3, <3>1 DEF RevisionsMade
    <3> QED BY <2>1, <3>2, <3>3 DEF RevisionsMade, Revised
  <2>5. PendingFresh'
    <3> SUFFICES ASSUME NEW c \in Backends, pc'[c] = "upsert"
                 PROVE  /\ arg[c].name \in Names /\ arg[c].model # Absent /\ arg[c].model.by = c
                        /\ ~InCatalog(arg[c].model)' /\ ~InCache(arg[c].model)' /\ arg'[c] = arg[c]
      BY DEF PendingFresh, InCatalog, InCache
    <3>1. c # b /\ pc[c] = "upsert" /\ arg'[c] = arg[c]
      BY <2>2
    <3>2. arg[c].model # m
      BY <2>0, <3>1 DEF PendingFresh
    <3> QED BY <2>1, <2>2, <2>3, <3>1, <3>2 DEF PendingFresh, InCatalog, InCache
  <2>6. WrittenFresh'
    <3> SUFFICES ASSUME NEW c \in Backends, NEW x \in Names, lock'[x] = c, newv'[x] # Absent
                 PROVE  WrittenIsOwn(c, x)'
      BY DEF WrittenFresh
    <3>1. CASE x = n
      <4>1. c = b /\ newv'[x] = m
        BY <2>2, <3>1
      <4>2. m \notin undone' /\ \A y \in Names : row'[y] # m /\ (newv'[y] = m => y = n)
        BY <2>0, <2>1, <2>2 DEF InCatalog
      <4>3. \A d \in Backends, y \in Names : cache'[d][y] = m => d = b /\ y = n
        BY <2>0, <2>3 DEF InCache
      <4> QED BY <2>0, <3>1, <4>1, <4>2, <4>3 DEF WrittenIsOwn
    <3>2. CASE x # n
      <4>1. lock[x] = c /\ newv'[x] = newv[x] /\ newv[x] # m
        BY <2>0, <2>2, <3>2 DEF InCatalog
      <4>2. WrittenIsOwn(c, x)
        BY <3>2, <4>1 DEF WrittenFresh
      <4>3. \A y \in Names : lock'[y] # NoBackend /\ newv'[y] = newv[x] => y = x
        BY <2>2, <4>1, <4>2 DEF WrittenIsOwn
      <4>4. \A d \in Backends, y \in Names : cache'[d][y] = newv[x] => d = c /\ y = x
        BY <2>3, <4>1, <4>2 DEF WrittenIsOwn
      <4> QED BY <2>1, <4>1, <4>2, <4>3, <4>4 DEF WrittenIsOwn
    <3> QED BY <3>1, <3>2
  <2>7. CommittedStand' /\ RemovedForgotten'
    BY <2>1, <2>2 DEF CommittedStand, RemovedForgotten
  <2>8. CachesExplained'
    <3> SUFFICES ASSUME NEW c \in Backends, NEW x \in Names, pc'[c] # "hung"
                 PROVE  Explained(c, x)'
      BY DEF CachesExplained, Explained
    <3>1. pc[c] # "hung" /\ Explained(c, x)
      BY <2>0, <2>2 DEF CachesExplained
    <3>2. CASE c = b /\ x = n
      BY <2>2, <3>2 DEF Explained, View
    <3>3. CASE ~(c = b /\ x = n)
      <4>1. cache'[c][x] = cache[c][x] /\ (lock'[x] = c => lock[x] = c)
        BY <2>2, <2>3, <3>3
      <4>2. View(c, x)' = View(c, x)
        BY <2>0, <2>1, <2>2, <3>3, ModelRegistryAssumption DEF View, MayWrite, n
      <4> QED BY <2>1, <3>1, <4>1, <4>2 DEF Explained
    <3> QED BY <3>2, <3>3
  <2> QED BY <2>4, <2>5, <2>6, <2>7, <2>8
<1> QED BY <1>1, <1>2

(* remove_model forgets the instance first, and then deletes the row.      *)
LEMMA StartRemoveKeepsCaches ==
  ASSUME TypeOK, TypeOK', CacheInv, NEW b \in Backends, NEW n \in Names, StartRemove(b, n)
  PROVE  CacheInv'
<1> USE DEF CacheInv
<1>0. /\ UNCHANGED <<row, newv, lock, writer, undone>>
      /\ calls' = calls + 1 /\ arg'[b] = [name |-> n, model |-> Absent] /\ pc'[b] = "delete"
      /\ \A c \in Backends \ {b} : pc'[c] = pc[c] /\ arg'[c] = arg[c] /\ cache'[c] = cache[c]
      /\ pc[b] \in {"idle", "open"} /\ cache'[b][n] = Absent
      /\ \A x \in Names \ {n} : cache'[b][x] = cache[b][x]
  BY DEF StartRemove, Forget, Call, GoTo, TypeOK, catalogVars
<1>1. Revised \subseteq Revised' /\ Absent \in Revised
  BY <1>0, Revisions
<1>2. \A c \in Backends, x \in Names : cache'[c][x] = cache[c][x] \/ cache'[c][x] = Absent
  BY <1>0
<1>3. RevisionsMade'
  <2>1. \A c \in Backends : arg'[c].model \in Revised' /\ \A x \in Names : cache'[c][x] \in Revised'
    BY <1>0, <1>1, <1>2 DEF RevisionsMade
  <2> QED BY <1>0, <1>1, <2>1 DEF RevisionsMade
<1>4. PendingFresh'
  BY <1>0, <1>2 DEF PendingFresh, InCatalog, InCache
<1>5. WrittenFresh'
  BY <1>0, <1>2 DEF WrittenFresh, WrittenIsOwn
<1>6. CommittedStand' /\ RemovedForgotten'
  BY <1>0 DEF CommittedStand, RemovedForgotten
<1>7. CachesExplained'
  <2> SUFFICES ASSUME NEW c \in Backends, NEW x \in Names, pc'[c] # "hung", cache'[c][x] # Absent
               PROVE  Explained(c, x)'
    BY DEF CachesExplained, Explained
  <2>1. pc[c] # "hung" /\ Explained(c, x) /\ cache'[c][x] = cache[c][x]
    BY <1>0, <1>2 DEF CachesExplained
  <2> QED BY <1>0, <2>1 DEF Explained, View
<1> QED BY <1>3, <1>4, <1>5, <1>6, <1>7

LEMMA DeleteRowKeepsCaches ==
  ASSUME TypeOK, TypeOK', CacheInv, NEW b \in Backends, DeleteRow(b)
  PROVE  CacheInv'
<1> USE DEF CacheInv
<1> DEFINE n == arg[b].name
<1>0. /\ UNCHANGED <<row, writer, undone, cache, calls>> /\ n \in Names
      /\ arg'[b].model = Absent /\ pc'[b] = "open" /\ cache[b][n] = Absent
      /\ \A c \in Backends \ {b} : pc'[c] = pc[c] /\ arg'[c] = arg[c]
      /\ pc[b] = "delete" /\ MayWrite(b, n) /\ b # NoBackend
  <2>1. /\ pc[b] = "delete" /\ MayWrite(b, n) /\ UNCHANGED <<row, writer, undone, cache, calls>>
        /\ arg' = [arg EXCEPT ![b] = NoArg] /\ GoTo(b, "open")
    BY DEF DeleteRow
  <2>2. NoArg.model = Absent
    BY DEF NoArg
  <2>3. n \in Names /\ cache[b][n] = Absent
    BY <2>1 DEF RemovedForgotten
  <2> QED BY <2>1, <2>2, <2>3, ModelRegistryAssumption DEF GoTo, TypeOK
<1>1. \/ UNCHANGED <<newv, lock>>
      \/ /\ newv'[n] = Absent /\ lock'[n] = b
         /\ \A x \in Names \ {n} : newv'[x] = newv[x] /\ lock'[x] = lock[x]
  BY <1>0 DEF DeleteRow, WriteRow, TypeOK
<1> HIDE DEF n
<1>2. RevisionsMade'
  <2>1. \A x \in Names : newv'[x] \in Revised
    BY <1>1, Revisions DEF RevisionsMade
  <2>2. \A c \in Backends : arg'[c].model \in Revised
    BY <1>0, Revisions DEF RevisionsMade
  <2> QED BY <1>0, <2>1, <2>2 DEF RevisionsMade, Revised
<1>3. PendingFresh'
  BY <1>0, <1>1 DEF PendingFresh, InCatalog, InCache
<1>4. WrittenFresh'
  <2> SUFFICES ASSUME NEW c \in Backends, NEW x \in Names, lock'[x] = c, newv'[x] # Absent
               PROVE  WrittenIsOwn(c, x)'
    BY DEF WrittenFresh
  <2>1. newv'[x] = newv[x] /\ lock'[x] = lock[x]
    BY <1>1
  <2>2. WrittenIsOwn(c, x)
    BY <2>1 DEF WrittenFresh
  <2>3. \A y \in Names : lock'[y] # NoBackend /\ newv'[y] = newv[x] => y = x
    BY <1>1, <2>1, <2>2 DEF WrittenIsOwn
  <2> QED BY <1>0, <2>1, <2>2, <2>3 DEF WrittenIsOwn
<1>5. CommittedStand' /\ RemovedForgotten'
  BY <1>0 DEF CommittedStand, RemovedForgotten
<1>6. CachesExplained'
  <2> SUFFICES ASSUME NEW c \in Backends, NEW x \in Names, pc'[c] # "hung", cache[c][x] # Absent
               PROVE  Explained(c, x)'
    BY <1>0 DEF CachesExplained, Explained
  <2>1. pc[c] # "hung" /\ Explained(c, x) /\ ~(c = b /\ x = n)
    BY <1>0 DEF CachesExplained
  <2>2. View(c, x)' = View(c, x) /\ (lock'[x] = c => lock[x] = c)
    BY <1>0, <1>1, <2>1, ModelRegistryAssumption DEF View, MayWrite
  <2> QED BY <1>0, <2>1, <2>2 DEF Explained
<1> QED BY <1>2, <1>3, <1>4, <1>5, <1>6

(* A lookup that finds nothing cached takes what its statement sees.       *)
LEMMA LoadKeepsCaches ==
  ASSUME TypeOK, TypeOK', CacheInv, NEW b \in Backends, NEW n \in Names, AskLoaded(b, n),
         pc[b] \in {"idle", "open"}, calls' = calls + 1
  PROVE  CacheInv'
<1> USE DEF CacheInv
<1> DEFINE m == View(b, n)
<1>0. /\ UNCHANGED <<row, newv, lock, writer, undone, arg>> /\ b # NoBackend
      /\ pc'[b] = "open" /\ cache'[b][n] = m /\ m # Absent
      /\ \A c \in Backends \ {b} : pc'[c] = pc[c] /\ cache'[c] = cache[c]
      /\ \A x \in Names \ {n} : cache'[b][x] = cache[b][x]
  BY ModelRegistryAssumption DEF AskLoaded, Loadable, CreateInstance, GoTo, TypeOK, catalogVars
<1>1. \A c \in Backends, x \in Names :
         cache'[c][x] = cache[c][x] \/ (c = b /\ x = n /\ cache'[c][x] = m)
  BY <1>0
<1>2. m = row[n] \/ (m = newv[n] /\ lock[n] = b)
  BY DEF View
<1> HIDE DEF m
<1>3. RevisionsMade'
  <2>1. Revised \subseteq Revised'
    BY Revisions
  <2>2. \A c \in Backends, x \in Names : cache'[c][x] \in Revised
    BY <1>1, <1>2 DEF RevisionsMade
  <2> QED BY <1>0, <2>1, <2>2 DEF RevisionsMade
<1>4. PendingFresh'
  BY <1>0, <1>1, <1>2 DEF PendingFresh, InCatalog, InCache
<1>5. WrittenFresh'
  <2> SUFFICES ASSUME NEW c \in Backends, NEW x \in Names, lock[x] = c, newv[x] # Absent
               PROVE  WrittenIsOwn(c, x)'
    BY <1>0 DEF WrittenFresh
  <2>1. WrittenIsOwn(c, x)
    BY DEF WrittenFresh
  <2>2. m = newv[x] => c = b /\ x = n
    BY <1>0, <1>2, <2>1 DEF WrittenIsOwn
  <2>3. \A d \in Backends, y \in Names : cache'[d][y] = newv[x] => d = c /\ y = x
    BY <1>1, <2>1, <2>2 DEF WrittenIsOwn
  <2> QED BY <1>0, <2>1, <2>3 DEF WrittenIsOwn
<1>6. CommittedStand' /\ RemovedForgotten'
  BY <1>0 DEF CommittedStand, RemovedForgotten
<1>7. CachesExplained'
  <2> SUFFICES ASSUME NEW c \in Backends, NEW x \in Names, pc'[c] # "hung"
               PROVE  Explained(c, x)'
    BY DEF CachesExplained, Explained
  <2>1. CASE c = b /\ x = n
    BY <1>0, <2>1 DEF Explained, View, m
  <2>2. CASE ~(c = b /\ x = n)
    <3>1. cache'[c][x] = cache[c][x] /\ pc[c] # "hung" /\ Explained(c, x)
      BY <1>0, <1>1, <2>2 DEF CachesExplained
    <3> QED BY <1>0, <3>1 DEF Explained, View
  <2> QED BY <2>1, <2>2
<1> QED BY <1>3, <1>4, <1>5, <1>6, <1>7

LEMMA NextKeepsCaches ==
  ASSUME TypeOK, CacheInv, [Next]_vars
  PROVE  CacheInv'
<1>0. TypeOK' /\ calls \in Nat
  BY NextType, Revisions
<1>1. CASE Crash \/ \E b \in Backends : AddThrows(b)
  BY <1>0, <1>1, UndoKeepsCaches DEF Crash, AddThrows, Call, Restart
<1>2. ASSUME NEW b \in Backends, Rollback(b) \/ DeadlockAbort(b)
      PROVE  CacheInv'
  BY <1>0, <1>2, UndoKeepsCaches DEF DeadlockAbort, Rollback
<1>3. ASSUME NEW b \in Backends, CallHangs(b) \/ \E k \in Keys \cup {NoKey} : SetKey(b, k)
      PROVE  CacheInv'
  BY <1>0, <1>3, QuietKeepsCaches DEF CallHangs, Hang, SetKey, Call, GoTo, TypeOK, catalogVars
<1>4. ASSUME NEW b \in Backends, NEW n \in Names, NEW op, Ask(b, n, op)
      PROVE  CacheInv'
  <2>1. pc[b] \in {"idle", "open"} /\ calls' = calls + 1
    BY <1>4 DEF Ask, Call
  <2>2. CASE AskCached(b, n, op)
    BY <1>0, <2>1, <2>2, QuietKeepsCaches DEF AskCached, GoTo, TypeOK, catalogVars
  <2>3. CASE AskLoaded(b, n)
    BY <1>0, <2>1, <2>3, LoadKeepsCaches
  <2>4. CASE AskRefused(b, n, op)
    BY <1>0, <2>1, <2>4, UndoKeepsCaches DEF AskRefused
  <2> QED BY <1>4, <2>2, <2>3, <2>4 DEF Ask
<1>5. CASE UNCHANGED vars
  BY <1>0, <1>5, QuietKeepsCaches DEF vars
<1> QED BY <1>0, <1>1, <1>2, <1>3, <1>4, <1>5, StartAddKeepsCaches, UpsertKeepsCaches,
           StartRemoveKeepsCaches, DeleteRowKeepsCaches, CommitKeepsCaches DEF Next, Step

LEMMA InitCaches == Init => CacheInv
<1> SUFFICES ASSUME Init PROVE CacheInv
  OBVIOUS
<1>1. TypeOK
  BY InitType
<1>2. Absent \in Revised
  BY <1>1, Revisions
<1>3. RevisionsMade
  BY <1>2 DEF Init, RevisionsMade, NoArg
<1> QED BY <1>3, ModelRegistryAssumption
        DEF Init, CacheInv, PendingFresh, WrittenFresh, CommittedStand, RemovedForgotten,
            CachesExplained, Explained

(* What a backend serves from its cache although the catalog it sees says  *)
(* otherwise was replaced by another backend's commit, or made by a        *)
(* transaction of its own that was rolled back (ModelManager::get_model).  *)
THEOREM CachesGoStaleOnlyThroughOthers == Spec => []StaleOnlyThroughOthersOrRollback
<1>1. Init => TypeOK /\ CacheInv
  BY InitType, InitCaches
<1>2. (TypeOK /\ CacheInv) /\ [Next]_vars => (TypeOK /\ CacheInv)'
  BY NextType, NextKeepsCaches
<1>3. TypeOK /\ CacheInv => StaleOnlyThroughOthersOrRollback
  BY DEF CacheInv, CachesExplained, Explained, StaleOnlyThroughOthersOrRollback
<1> QED BY <1>1, <1>2, <1>3, PTL DEF Spec
=============================================================================
