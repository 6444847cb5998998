--------------------------- MODULE MCSessionStore ---------------------------
(* Small instances of SessionStore for TLC.                                *)
EXTENDS SessionStore, TLC

(* Backends are interchangeable, and so are sessions: no definition names  *)
(* one.                                                                    *)
FullSymmetry == Permutations(Backends) \cup Permutations(Sessions)

(* A cap that no trim accepts, and caps that keep nothing, half a turn,    *)
(* and a turn and a half.                                                  *)
RefusedNoneAndMore == {-1, 0, 1, 3}
=============================================================================
