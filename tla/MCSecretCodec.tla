--------------------------- MODULE MCSecretCodec ---------------------------
(* A small instance of SecretCodec for TLC.                                *)
EXTENDS SecretCodec

NoAndOneByte == {<<>>, <<1>>}
=============================================================================
