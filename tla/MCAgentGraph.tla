---------------------------- MODULE MCAgentGraph ----------------------------
(***************************************************************************)
(* AgentGraph over two documents, scores on both sides of the approval     *)
(* score and on it, and two turns of the same thread.                      *)
(***************************************************************************)
EXTENDS AgentGraph

CONSTANTS d1, d2

MCHitLists == {<<>>, <<d1>>, <<d1, d2>>}
=============================================================================
