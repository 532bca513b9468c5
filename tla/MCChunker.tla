----------------------------- MODULE MCChunker -----------------------------
(***************************************************************************)
(* Chunker over every text of up to MaxTokens tokens and every pair of a   *)
(* small chunk size and overlap.                                           *)
(***************************************************************************)
EXTENDS Chunker

CONSTANT MaxTokens

MCTextLengths == 0..MaxTokens
MCSizeArgs    == 0..9
MCOverlapArgs == 0..9
=============================================================================
