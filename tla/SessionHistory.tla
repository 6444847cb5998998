--------------------------- MODULE SessionHistory ---------------------------
(***************************************************************************)
(* What the session functions promise, each call being one step: a session *)
(* is a bounded history of turns, a turn adds a question and its answer    *)
(* and forgets from the old end, and a dropped session has no history.     *)
(***************************************************************************)
EXTENDS MessageWindow

CONSTANTS Sessions, Caps, Ids

VARIABLES
  status,     \* "unborn", "live" or "dead"
  cap,        \* max_messages
  offered,    \* every cap the session has had
  history     \* the messages it keeps

vars == <<status, cap, offered, history>>

Init ==
  /\ status = [s \in Sessions |-> "unborn"]
  /\ cap = [s \in Sessions |-> 0]
  /\ offered = [s \in Sessions |-> {}]
  /\ history = [s \in Sessions |-> {}]

Create(s, c) ==
  /\ status[s] = "unborn"
  /\ status' = [status EXCEPT ![s] = "live"]
  /\ cap' = [cap EXCEPT ![s] = c]
  /\ offered' = [offered EXCEPT ![s] = {c}]
  /\ UNCHANGED history

(* The answer is the newest message there is; the question may be older    *)
(* than turns that overtook this one.  The turn keeps the window of a cap  *)
(* the session has had: exactly its newest messages when it had one only.  *)
Turn(s, q, a) ==
  LET H == history[s] \cup
             {[id |-> q, sid |-> s, turn |-> q, role |-> "user"],
              [id |-> a, sid |-> s, turn |-> q, role |-> "assistant"]}
  IN
  /\ status[s] = "live"
  /\ q < a
  /\ \A m \in history[s] : m.id # q /\ (m.role = "assistant" => m.id < a)
  /\ \E k \in offered[s] :
       /\ k >= 0
       /\ history'[s] \subseteq Newest(H, k)
       /\ offered[s] = {k} => history'[s] = Newest(H, k)
  /\ history' = [history EXCEPT ![s] = history'[s]]
  /\ UNCHANGED <<status, cap, offered>>

SetMax(s, c) ==
  /\ status[s] = "live"
  /\ c >= 0
  /\ cap' = [cap EXCEPT ![s] = c]
  /\ offered' = [offered EXCEPT ![s] = @ \cup {c}]
  /\ history' = [history EXCEPT ![s] = Newest(@, c)]
  /\ UNCHANGED status

(* Cleanup may drop several sessions at once.                              *)
Drop(D) ==
  /\ D # {}
  /\ \A s \in D : status[s] = "live"
  /\ status' = [s \in Sessions |-> IF s \in D THEN "dead" ELSE status[s]]
  /\ history' = [s \in Sessions |-> IF s \in D THEN {} ELSE history[s]]
  /\ UNCHANGED <<cap, offered>>

Next ==
  \/ \E s \in Sessions, c \in Caps : Create(s, c) \/ SetMax(s, c)
  \/ \E s \in Sessions, q, a \in Ids : Turn(s, q, a)
  \/ \E D \in SUBSET Sessions : Drop(D)

Spec == Init /\ [][Next]_vars
=============================================================================
