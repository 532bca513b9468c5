---------------------------- MODULE MCChatStream ----------------------------
(***************************************************************************)
(* ChatStream over one document, one score on each side of the approval    *)
(* score, and two turns.                                                   *)
(***************************************************************************)
EXTENDS ChatStream

CONSTANT d1

MCHitLists == {<<>>, <<d1>>}
=============================================================================
