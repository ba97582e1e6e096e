----------------------------- MODULE MCChunker -----------------------------
(***************************************************************************)
(* Chunker on small instances; the configurations give the constants.      *)
(***************************************************************************)
EXTENDS Chunker
=============================================================================
