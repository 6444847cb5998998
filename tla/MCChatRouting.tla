--------------------------- MODULE MCChatRouting ---------------------------
(* Small instances of ChatRouting for TLC.                                 *)
EXTENDS ChatRouting, TLC

CONSTANTS a, b, c

(* Levels 0..3 stand for 0.0, below and above the usual threshold, and the *)
(* 0.9 of a failed exchange between them.                                  *)
Mock(level, threshold, fallback) ==
  [row |-> TRUE, loads |-> TRUE, kind |-> "mock", confidence |-> level,
   threshold |-> threshold, fallback |-> fallback]
Endpoint(threshold, fallback) == [Mock(0, threshold, fallback) EXCEPT !.kind = "endpoint"]
Keyless == [Endpoint(3, a) EXCEPT !.kind = "keyless"]
Unloadable(r) == [Endpoint(0, NoInstance) EXCEPT !.loads = FALSE, !.row = r]
CachedOnly(m) == [m EXCEPT !.row = FALSE]

Three(x, y, z) == (a :> x) @@ (b :> y) @@ (c :> z)

Gucs(threshold, fallback) ==
  [threshold |-> threshold, fallback |-> fallback, audit |-> TRUE, trace |-> TRUE]
Chosen(threshold, fallback) == [threshold |-> threshold, fallback |-> fallback]

Ask(e, list, o) == [event |-> e, names |-> list, options |-> o]
Clients(catalogs, settings, requests, count, caps, turns) ==
  [catalog : catalogs, gucs : settings, requests : {requests}, count : {count},
   max_messages : caps, visits : {turns}]

(* One request, with every candidate, threshold and fallback.              *)
Selections ==
  Clients({Three(Endpoint(2, c), Endpoint(0, NoInstance), Mock(1, 3, NoInstance)),
        Three(Endpoint(2, b), Unloadable(TRUE), Mock(1, 0, b)),
        Three(CachedOnly(Mock(1, 0, b)), Keyless, Unloadable(FALSE))},
       {Gucs(1, NoInstance), Gucs(2, a)},
       LET chosen == {NoOptions, Chosen(3, Unset), Chosen(Unset, NoInstance), Chosen(2, b)} IN
       {Ask(Parallel, list, o) : list \in {<<a, b, c>>, <<b, c>>, <<a, a, b>>}, o \in chosen}
         \cup {Ask("chat", <<n>>, o) : n \in Instances, o \in chosen},
       1, {2}, 0)

(* Two requests of every kind, in one transaction or two.                  *)
Records ==
  Clients({Three(Mock(1, 0, NoInstance), Mock(3, 0, c), Mock(1, 0, NoInstance)),
        Three(Mock(1, 0, NoInstance), Mock(3, 0, c), Unloadable(TRUE))},
       {Gucs(2, c), [Gucs(2, c) EXCEPT !.audit = FALSE], [Gucs(2, c) EXCEPT !.trace = FALSE]},
       {Ask(Parallel, list, NoOptions) : list \in {<<a>>, <<a, b>>, <<>>}}
         \cup {Ask(e, <<n>>, NoOptions) : e \in Single, n \in {a, c}}
         \cup {Ask(e, <<b>>, Chosen(Malformed, Unset)) : e \in {"chat", "chat_stream"}},
       2, {3}, 0)

(* Before and after a restart.                                             *)
Restarts ==
  Clients({Three(Endpoint(0, NoInstance), CachedOnly(Mock(3, 0, NoInstance)), Mock(3, 0, NoInstance))},
       {Gucs(2, NoInstance)},
       {Ask(Parallel, <<a, b>>, NoOptions), Ask("chat", <<a>>, NoOptions),
        Ask("multi_turn_chat", <<c>>, NoOptions)},
       2, {3}, 1)

(* Turns under every cap, with another client in the session.              *)
Turns ==
  Clients({Three(Mock(1, 0, NoInstance), Mock(3, 0, c), Mock(1, 0, NoInstance))},
       {Gucs(2, b)},
       {Ask(e, <<a>>, NoOptions) : e \in MultiTurn}, 3, {-1, 0, 1, 3}, 1)

Everything == Selections \cup Records \cup Restarts \cup Turns

FirstMissing ==
  Clients({Three(Unloadable(TRUE), Mock(3, 0, NoInstance), Mock(1, 0, NoInstance))}, {Gucs(2, c)},
       {Ask(Parallel, <<a, b>>, NoOptions)}, 1, {2}, 0)
=============================================================================
