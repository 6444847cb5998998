--------------------------- MODULE ModelRegistry ---------------------------
(***************************************************************************)
(* The model instances of pg_llm: the catalog table pg_llm_models, shared  *)
(* and transactional, under the ModelManager of each backend, a cache that *)
(* is neither.                                                             *)
(*                                                                         *)
(* add_model writes the catalog and then builds the instance in memory,    *)
(* remove_model forgets the instance and then deletes the row, every other *)
(* function gets a model by name: from the cache, or built from the row    *)
(* the snapshot of its statement shows.  The cache is guarded by a mutex   *)
(* of the process; an ERROR raised with elog jumps over the destructor     *)
(* that would unlock it.                                                   *)
(***************************************************************************)
EXTENDS Integers, FiniteSets

CONSTANTS
  Backends,     \* server processes
  Names,        \* instance names
  NoBackend,    \* "nobody holds this row lock"
  Keys,         \* values of pg_llm.master_key
  NoKey,        \* pg_llm.master_key unset; an unsealed row
  Quality,      \* subset of {"good", "bad"}: whether initialize accepts it
  Ops,          \* the calls clients make in this instance
  MaxCalls      \* bound on the calls of a behaviour

ASSUME ModelRegistryAssumption ==
  /\ NoBackend \notin Backends
  /\ NoKey \notin Keys
  /\ Quality \subseteq {"good", "bad"}
  /\ Ops \subseteq {"add", "remove", "chat", "stream", "set"}
  /\ MaxCalls \in Nat

VARIABLES
  row,        \* committed row of each instance
  newv,       \* row written by the holder of the row lock
  lock,       \* transaction that wrote the row, uncommitted
  cache,      \* model_instances_ of each backend
  orphaned,   \* backends whose mutex_ was never unlocked
  key,        \* pg_llm.master_key of each backend
  pc,         \* where each backend is
  arg,        \* the name and row of the call in progress
  writer,     \* history: who committed the last write of each row
  undone,     \* history: rows whose transaction was rolled back
  calls       \* calls made so far (bound)

catalogVars == <<row, newv, lock, writer, undone>>
vars == <<row, newv, lock, cache, orphaned, key, pc, arg, writer, undone, calls>>

(* rev tells one call of add_model from another; a sealed row was          *)
(* encrypted under the master key of its author, and legible says whether  *)
(* SecretCodec can give the payload back whole.                            *)
Model == [rev : 1..MaxCalls, by : Backends, quality : {"good", "bad"},
          key : Keys \cup {NoKey}, legible : BOOLEAN]
Absent == [rev |-> 0]
Rows == Model \cup {Absent}
NoArg == [name |-> "", model |-> Absent]
Args == [name : Names \cup {""}, model : Rows]

(* "hung" is a call that waits for the mutex its own backend holds.        *)
TypeOK ==
  /\ row \in [Names -> Rows]
  /\ newv \in [Names -> Rows]
  /\ lock \in [Names -> Backends \cup {NoBackend}]
  /\ cache \in [Backends -> [Names -> Rows]]
  /\ orphaned \subseteq Backends
  /\ key \in [Backends -> Keys \cup {NoKey}]
  /\ pc \in [Backends -> {"idle", "open", "upsert", "delete", "hung"}]
  /\ arg \in [Backends -> Args]
  /\ writer \in [Names -> Backends \cup {NoBackend}]
  /\ undone \subseteq Model
  /\ calls \in 0..MaxCalls

Init ==
  /\ row = [n \in Names |-> Absent]
  /\ newv = [n \in Names |-> Absent]
  /\ lock = [n \in Names |-> NoBackend]
  /\ cache = [b \in Backends |-> [n \in Names |-> Absent]]
  /\ orphaned = {}
  /\ key \in [Backends -> Keys \cup {NoKey}]
  /\ pc = [b \in Backends |-> "idle"]
  /\ arg = [b \in Backends |-> NoArg]
  /\ writer = [n \in Names |-> NoBackend]
  /\ undone = {}
  /\ calls = 0

-----------------------------------------------------------------------------
(* Transactions.                                                           *)

View(b, n) == IF lock[n] = b THEN newv[n] ELSE row[n]
MayWrite(b, n) == lock[n] \in {NoBackend, b}

GoTo(b, place) == pc' = [pc EXCEPT ![b] = place]

(* What the transactions of B lose when they are rolled back.              *)
Undo(B) ==
  /\ newv' = [n \in Names |-> IF lock[n] \in B THEN row[n] ELSE newv[n]]
  /\ lock' = [n \in Names |-> IF lock[n] \in B THEN NoBackend ELSE lock[n]]
  /\ undone' = undone \cup ({newv[n] : n \in {x \in Names : lock[x] \in B}} \ {Absent})
  /\ pc' = [b \in Backends |-> IF b \in B THEN "idle" ELSE pc[b]]
  /\ arg' = [b \in Backends |-> IF b \in B THEN NoArg ELSE arg[b]]
  /\ UNCHANGED <<row, writer>>

(* ModelManager is not told.                                               *)
Rollback(b) ==
  /\ pc[b] \notin {"idle", "hung"}
  /\ Undo({b})
  /\ UNCHANGED <<cache, orphaned, key, calls>>

Commit(b) ==
  /\ pc[b] = "open"
  /\ row' = [n \in Names |-> View(b, n)]
  /\ writer' = [n \in Names |-> IF lock[n] = b THEN b ELSE writer[n]]
  /\ lock' = [n \in Names |-> IF lock[n] = b THEN NoBackend ELSE lock[n]]
  /\ GoTo(b, "idle")
  /\ UNCHANGED <<newv, cache, orphaned, key, arg, undone, calls>>

(* A backend dies and the postmaster restarts all of them: clients connect *)
(* again, with whatever master key they then have.                         *)
Restart ==
  /\ Undo(Backends)
  /\ cache' = [b \in Backends |-> [n \in Names |-> Absent]]
  /\ orphaned' = {}
  /\ key' \in [Backends -> Keys \cup {NoKey}]

Crash == Restart /\ (\E b \in Backends : pc[b] # "idle") /\ UNCHANGED calls

-----------------------------------------------------------------------------
(* ModelManager.                                                           *)

Call(b, op) ==
  /\ pc[b] \in {"idle", "open"}
  /\ op \in Ops
  /\ calls < MaxCalls
  /\ calls' = calls + 1

CreateUnchecked(b, n, m) ==
  /\ cache' = [cache EXCEPT ![b][n] = m]
  /\ GoTo(b, "open")
  /\ UNCHANGED orphaned
(* create_model_instance, for a configuration that initialize accepts.     *)
CreateInstance(b, n, m) ==
  /\ m.quality = "good"
  /\ cache' = [cache EXCEPT ![b][n] = m]
  /\ GoTo(b, "open")
  /\ UNCHANGED orphaned

(* ... and for one it refuses: PG_LLM_LOG_FATAL under the lock_guard.      *)
CreateFails(b, m) ==
  /\ m.quality = "bad"
  /\ orphaned' = orphaned \cup {b}
  /\ Undo({b})
  /\ UNCHANGED cache

(* The secrets of the row can be decrypted in this backend.                *)
Opens(b, m) == m.key = NoKey \/ (m.legible /\ m.key = key[b])

(* get_model can build the instance from the row the statement sees.       *)
Loadable(b, n) == View(b, n) # Absent /\ Opens(b, View(b, n))

(* lock_guard on a mutex that was left locked.                             *)
Hang(b) ==
  /\ b \in orphaned
  /\ GoTo(b, "hung")
  /\ UNCHANGED <<catalogVars, cache, orphaned, key>>

-----------------------------------------------------------------------------
(* pg_llm_add_model                                                        *)

RevisionFromZero(b, k, quality, legible) ==
  [rev |-> calls, by |-> b, quality |-> quality, key |-> k,
   legible |-> k = NoKey \/ legible]
NewModel(b, k, quality, legible) ==
  [rev |-> calls + 1, by |-> b, quality |-> quality, key |-> k,
   legible |-> k = NoKey \/ legible]

StartAdd(b, n, sealed, quality, legible) ==
  /\ Call(b, "add")
  /\ sealed => key[b] # NoKey
  /\ arg' = [arg EXCEPT ![b] =
       [name |-> n,
        model |-> NewModel(b, IF sealed THEN key[b] ELSE NoKey, quality, legible)]]
  /\ GoTo(b, "upsert")
  /\ UNCHANGED <<catalogVars, cache, orphaned, key>>

(* pg_llm_parse_json throws on a configuration that is no JSON, derive_key *)
(* when there is no master key; nothing catches, and the server goes down. *)
AddThrows(b) == Call(b, "add") /\ Restart

WriteRow(b, n, m) ==
  /\ newv' = [newv EXCEPT ![n] = m]
  /\ lock' = [lock EXCEPT ![n] = b]

(* INSERT ... ON CONFLICT DO UPDATE, then register_model and               *)
(* create_model_instance.                                                  *)
Upsert(b) ==
  LET n == arg[b].name
      m == arg[b].model
  IN
  /\ pc[b] = "upsert"
  /\ MayWrite(b, n)
  /\ \/ /\ b \notin orphaned
        /\ WriteRow(b, n, m)
        /\ CreateInstance(b, n, m)
        /\ arg' = [arg EXCEPT ![b] = NoArg]
        /\ UNCHANGED <<row, writer, undone>>
     \/ b \notin orphaned /\ CreateFails(b, m)
     \/ /\ b \in orphaned
        /\ WriteRow(b, n, m)
        /\ GoTo(b, "hung")
        /\ UNCHANGED <<row, writer, undone, arg, cache, orphaned>>
  /\ UNCHANGED <<key, calls>>

(* pg_llm_remove_model: the instance, then the row.                        *)
KeepCached(b, n) == UNCHANGED cache
Forget(b, n) == cache' = [cache EXCEPT ![b][n] = Absent]

StartRemove(b, n) ==
  /\ Call(b, "remove")
  /\ b \notin orphaned
  /\ Forget(b, n)
  /\ arg' = [arg EXCEPT ![b] = [name |-> n, model |-> Absent]]
  /\ GoTo(b, "delete")
  /\ UNCHANGED <<catalogVars, orphaned, key>>

DeleteRow(b) ==
  LET n == arg[b].name IN
  /\ pc[b] = "delete"
  /\ MayWrite(b, n)
  /\ IF View(b, n) = Absent THEN UNCHANGED <<newv, lock>> ELSE WriteRow(b, n, Absent)
  /\ arg' = [arg EXCEPT ![b] = NoArg]
  /\ GoTo(b, "open")
  /\ UNCHANGED <<row, writer, undone, cache, orphaned, key, calls>>

-----------------------------------------------------------------------------
(* The functions that get a model by name.                                 *)

(* chat and parallel_chat read the row again for the fallback policy: a    *)
(* name without a row is an error there, whatever the cache holds.         *)
ReadsRow(op) == op = "chat"

AskCached(b, n, op) ==
  /\ cache[b][n] # Absent
  /\ ReadsRow(op) => View(b, n) # Absent
  /\ GoTo(b, "open")
  /\ UNCHANGED <<catalogVars, cache, orphaned, key, arg>>

AskLoaded(b, n) ==
  /\ cache[b][n] = Absent
  /\ Loadable(b, n)
  /\ CreateInstance(b, n, View(b, n))
  /\ UNCHANGED <<catalogVars, key, arg>>

(* "Model instance not found or could not be loaded".                      *)
AskRefused(b, n, op) ==
  /\ IF cache[b][n] = Absent
     THEN ~Loadable(b, n)
     ELSE ReadsRow(op) /\ View(b, n) = Absent
  /\ Undo({b})
  /\ UNCHANGED <<cache, orphaned, key>>

Ask(b, n, op) ==
  /\ Call(b, op)
  /\ b \notin orphaned
  /\ AskCached(b, n, op) \/ AskLoaded(b, n) \/ AskRefused(b, n, op)

(* The next call that needs the manager after CreateFails.                 *)
CallHangs(b) == (\E op \in {"remove", "chat", "stream"} : Call(b, op)) /\ Hang(b) /\ UNCHANGED arg

(* SET pg_llm.master_key.                                                  *)
SetKey(b, k) ==
  /\ Call(b, "set")
  /\ pc[b] = "idle" /\ k # key[b]
  /\ key' = [key EXCEPT ![b] = k]
  /\ UNCHANGED <<catalogVars, cache, orphaned, pc, arg>>

-----------------------------------------------------------------------------
(* Lock waits.                                                             *)

Waits(b) == pc[b] \in {"upsert", "delete"} /\ ~MayWrite(b, arg[b].name)
WaitCycle(C) ==
  C # {} /\ \A b \in C : Waits(b) /\ lock[arg[b].name] \in C
DeadlockAbort(b) == (\E C \in SUBSET Backends : b \in C /\ WaitCycle(C)) /\ Rollback(b)

Step(b) == Upsert(b) \/ DeleteRow(b)

Next ==
  \/ Crash
  \/ \E b \in Backends :
       \/ \E n \in Names, sealed \in BOOLEAN, quality \in Quality, legible \in BOOLEAN :
            StartAdd(b, n, sealed, quality, legible)
       \/ AddThrows(b)
       \/ \E n \in Names : StartRemove(b, n)
       \/ \E n \in Names, op \in {"chat", "stream"} : Ask(b, n, op)
       \/ CallHangs(b)
       \/ \E k \in Keys \cup {NoKey} : SetKey(b, k)
       \/ Step(b)
       \/ Commit(b)
       \/ Rollback(b)
       \/ DeadlockAbort(b)

Spec == Init /\ [][Next]_vars

(* A statement goes on when its row is free, a client ends its             *)
(* transaction, a deadlock is noticed.                                     *)
FairSpec == Spec /\ \A b \in Backends : /\ WF_vars(Step(b))
                                        /\ WF_vars(Commit(b))
                                        /\ WF_vars(DeadlockAbort(b))

-----------------------------------------------------------------------------
(* What the registry owes its callers.                                     *)

(* No committed row is one that initialize refuses, although               *)
(* pg_llm_add_model validates nothing before it writes the catalog: the    *)
(* ERROR of a failed initialize takes the row with it, and a backend that  *)
(* hangs on the mutex after writing a row never commits it.  Not that the  *)
(* row can be loaded: its secrets may not open, for want of the key or as  *)
(* SecretCodec could not give them back.                                   *)
CommittedRowsInitialize == \A n \in Names : row[n] # Absent => row[n].quality = "good"

(* A backend's cache may disagree with the catalog it sees, but only if    *)
(* another backend committed the row since, or the instance came from a    *)
(* transaction of its own that was rolled back.  What it has itself added  *)
(* or removed and committed it serves so, and it never serves what another *)
(* transaction has not committed.                                          *)
StaleOnlyThroughOthersOrRollback ==
  \A b \in Backends, n \in Names :
    LET m == cache[b][n] IN
    pc[b] # "hung" /\ m # Absent /\ m # View(b, n) =>
      \/ m.by = b /\ m \in undone
      \/ m \notin undone /\ lock[n] # b /\ writer[n] # b

(* Every call of a model function returns: a lock wait ends, and the mutex *)
(* is free when it is taken.                                               *)
EveryCallReturns ==
  \A b \in Backends : (pc[b] \in {"upsert", "delete", "hung"}) ~> (pc[b] \in {"idle", "open"})
=============================================================================
