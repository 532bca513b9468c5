----------------------------- MODULE MCTenancy -----------------------------
(***************************************************************************)
(* Tenancy with two users and two workspaces; one user is in both.         *)
(***************************************************************************)
EXTENDS Tenancy

CONSTANTS ann, bob, red, blue, c1

MCFirstRoles ==
  [w \in Workspaces |-> [u \in Users |-> IF w = red /\ u = ann THEN "owner"
                                         ELSE IF u = bob THEN "member" ELSE None]]
=============================================================================
