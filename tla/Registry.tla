------------------------------ MODULE Registry ------------------------------
(***************************************************************************)
(* What the accounts promise, without requests, spellings and tokens: an   *)
(* address has one account, of the person who registered it and for good;  *)
(* and an account serves its owner only, while it is active, and for no    *)
(* longer than Life after the password was last given.                     *)
(***************************************************************************)
EXTENDS Naturals

CONSTANTS Persons, Addresses, Life, None

VARIABLES
  accounts,  \* [address, owner, proved, active], proved when the password was last given
  now,       \* the clock
  served     \* who was served last, and as which account

vars == <<accounts, now, served>>

Nobody == [to |-> None, as |-> None]

Init == accounts = {} /\ now = 0 /\ served = Nobody

Register(p, a) ==
  /\ \A x \in accounts : x.address # a
  /\ accounts' = accounts \cup {[address |-> a, owner |-> p, proved |-> now, active |-> TRUE]}
  /\ served' = Nobody
  /\ UNCHANGED now

Replace(x, y) == accounts' = (accounts \ {x}) \cup {y}

Prove(x) ==
  /\ x.active
  /\ Replace(x, [x EXCEPT !.proved = now])
  /\ served' = Nobody
  /\ UNCHANGED now

SetActive(x, b) ==
  /\ Replace(x, [x EXCEPT !.active = b])
  /\ served' = Nobody
  /\ UNCHANGED now

Serve(x) ==
  /\ x.active /\ now < x.proved + Life
  /\ served' = [to |-> x.owner, as |-> x.address]
  /\ UNCHANGED <<accounts, now>>

Refuse == served' = Nobody /\ UNCHANGED <<accounts, now>>

Tick == now' = now + 1 /\ served' = Nobody /\ UNCHANGED accounts

Next ==
  \/ \E p \in Persons, a \in Addresses : Register(p, a)
  \/ \E x \in accounts : Prove(x) \/ Serve(x) \/ \E b \in BOOLEAN : SetActive(x, b)
  \/ Refuse \/ Tick

Spec == Init /\ [][Next]_vars
=============================================================================
