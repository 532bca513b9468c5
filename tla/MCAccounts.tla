---------------------------- MODULE MCAccounts ----------------------------
(***************************************************************************)
(* Accounts of two people and two addresses, one of them spelt in two ways.*)
(***************************************************************************)
EXTENDS Accounts

CONSTANTS ann, bob, ada, Ada, eve

MCLower == [a \in Addresses |-> IF a = Ada THEN ada ELSE a]
=============================================================================
