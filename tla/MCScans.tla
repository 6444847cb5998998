------------------------------ MODULE MCScans -------------------------------
(* A small instance of Scans for TLC.                                      *)
EXTENDS Scans, TLC

All(fn) == [fn |-> fn, limit |-> 0]
First(fn, n) == [fn |-> fn, limit |-> n]
InList(spi, calls) == [form |-> "list", spi |-> spi, calls |-> calls]
FromClause(spi, calls) == [form |-> "from", spi |-> spi, calls |-> calls]

Sessions == All("get_sessions")
OneEntry == First("get_audit_log", 1)
Stream == All("chat_stream")

Statements ==
  {InList(spi, calls) : spi \in BOOLEAN, calls \in {<<Sessions>>, <<OneEntry, Sessions>>, <<OneEntry, Stream>>}}
    \cup {FromClause(spi, calls) : spi \in BOOLEAN, calls \in {<<Sessions, OneEntry>>}}
    \cup {InList(FALSE, <<Stream>>), InList(FALSE, <<First("search_vectors", -1)>>),
          FromClause(FALSE, <<First("search_knowledge", 1)>>), FromClause(FALSE, <<First("search_vectors", 2)>>),
          FromClause(FALSE, <<Stream>>)}

(* Nothing, a text that fills its chunks and half another, and chunks that *)
(* spell something else.                                                   *)
Texts == {<<>>, <<"x", "y", "z">>}
Streamable ==
  {[mock |-> m, text |-> s, script |-> <<>>] : m \in BOOLEAN, s \in Texts}
    \cup {[mock |-> TRUE, text |-> <<"x">>, script |-> <<<<"y">>>>]}

PortalSymmetry == Permutations(Portals)
=============================================================================
