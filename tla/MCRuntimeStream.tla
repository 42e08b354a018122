---------------------------- MODULE MCRuntimeStream ----------------------------
(* Two streams, two chunks on one and one on the other; a pipe and a channel  *)
(* of one, so that both fill and block.                                       *)
EXTENDS RuntimeStream

MCChunks == [s \in Streams |-> IF s = First THEN 2 ELSE 1]
=============================================================================
