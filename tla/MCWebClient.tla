---------------------------- MODULE MCWebClient ----------------------------
(***************************************************************************)
(* WebClient with three submits and answers of up to two tokens.           *)
(***************************************************************************)
EXTENDS WebClient
=============================================================================
