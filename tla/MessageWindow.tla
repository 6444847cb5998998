--------------------------- MODULE MessageWindow ---------------------------
(* The window of a session's history that max_messages keeps.              *)
EXTENDS Integers, FiniteSets

(* How many messages a cap leaves room for.                                *)
Window(cap) == IF cap < 0 THEN 0 ELSE cap

History(M, s) == {m \in M : m.sid = s}

NewerThan(M, m) == {x \in M : x.id > m.id}

(* OFFSET n + 1 for OFFSET n.                                              *)
NewestAndOne(M, n) == {m \in M : Cardinality(NewerThan(M, m)) <= n}
(* ORDER BY id ASC for ORDER BY id DESC.                                   *)
Oldest(M, n) == {m \in M : Cardinality({x \in M : x.id < m.id}) < n}

(* The messages that "ORDER BY id DESC OFFSET n" leaves out.               *)
Newest(M, n) == {m \in M : Cardinality(NewerThan(M, m)) < n}
=============================================================================
