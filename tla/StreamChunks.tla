---------------------------- MODULE StreamChunks ----------------------------
(* The rows of a streamed answer: stream_chat_completion and               *)
(* build_mock_stream_response (src/models/llm_interface.cpp).  A text is a *)
(* sequence of bytes.                                                      *)
EXTENDS Integers, SequencesExt

CONSTANTS
  ChunkSize,      \* 24
  MockChunkSize   \* 16

ASSUME ChunkAssumption == ChunkSize \in Nat \ {0} /\ MockChunkSize \in Nat \ {0}

(* What a model has to say: its text and, of a mock model, mock_chunks.    *)
Reply == [mock : BOOLEAN, text : Seq(STRING), script : Seq(Seq(STRING))]

WholePieces(text, size) ==
  [i \in 1..(Len(text) \div size) |-> SubSeq(text, (i - 1) * size + 1, i * size)]
Pieces(text, size) ==
  [i \in 1..((Len(text) + size - 1) \div size) |->
     SubSeq(text, (i - 1) * size + 1, IF i * size < Len(text) THEN i * size ELSE Len(text))]

Row(i, text, final) == [seq_no |-> i, chunk |-> text, is_final |-> final]
Numbered(pieces) == [i \in DOMAIN pieces |-> Row(i, pieces[i], FALSE)]

(* The last row repeats the whole answer.                                  *)
WithFinal(rows, last, text) == Append(rows, Row(last + 1, text, TRUE))

(* An answer without text has an empty chunk, which is not counted.        *)
Streamed(text) ==
  LET pieces == Pieces(text, ChunkSize) IN
  WithFinal(IF pieces = <<>> THEN <<Row(1, <<>>, FALSE)>> ELSE Numbered(pieces), Len(pieces), text)

MockStreamed(text, script) ==
  LET pieces == IF script # <<>> THEN script ELSE Pieces(text, MockChunkSize) IN
  WithFinal(Numbered(pieces), Len(pieces), text)

Rows(reply) ==
  IF reply.mock THEN MockStreamed(reply.text, reply.script) ELSE Streamed(reply.text)

(* mock_chunks need not spell the answer.                                  *)
Spelt(reply) ==
  IF reply.mock /\ reply.script # <<>> THEN FlattenSeq(reply.script) ELSE reply.text

Joined(rows) == FlattenSeq([i \in DOMAIN rows |-> rows[i].chunk])
=============================================================================
