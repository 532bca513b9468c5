---------------------------- MODULE MCIngestion ----------------------------
(***************************************************************************)
(* Ingestion of one or two documents of one chunk each by two workers.     *)
(***************************************************************************)
EXTENDS Ingestion

CONSTANTS a, b, w1, w2

MCOneChunk == [d \in Docs |-> 1]
=============================================================================
