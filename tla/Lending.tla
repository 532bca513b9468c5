------------------------------ MODULE Lending ------------------------------
(***************************************************************************)
(* What a pool promises its clients, without threads, stages and sessions: *)
(* no more items are out than there are; a client holds one at most, and   *)
(* none while it rests or once it has gone; it is denied one only while    *)
(* all are out to others, asks for none after that, and whoever has come   *)
(* goes in the end.                                                        *)
(***************************************************************************)
EXTENDS Naturals, FiniteSets

CONSTANTS Clients, Items

VARIABLES
  phase,    \* "absent", "present", "resting" or "gone"
  holding,  \* clients that hold an item
  denied    \* clients that were denied one

vars == <<phase, holding, denied>>

Init ==
  /\ phase = [c \in Clients |-> "absent"]
  /\ holding = {} /\ denied = {}

Become(c, p) == phase' = [phase EXCEPT ![c] = p]

Come(c) ==
  /\ phase[c] = "absent"
  /\ Become(c, "present")
  /\ UNCHANGED <<holding, denied>>

Wants(c) == phase[c] = "present" /\ c \notin holding \cup denied

Take(c) ==
  /\ Wants(c) /\ Cardinality(holding) < Items
  /\ holding' = holding \cup {c}
  /\ UNCHANGED <<phase, denied>>

Deny(c) ==
  /\ Wants(c) /\ Cardinality(holding) = Items
  /\ denied' = denied \cup {c}
  /\ UNCHANGED <<phase, holding>>

GiveBack(c) ==
  /\ holding' = holding \ {c}
  /\ UNCHANGED <<phase, denied>>

Rest(c) ==
  /\ phase[c] = "present"
  /\ Become(c, "resting")
  /\ holding' = holding \ {c}
  /\ UNCHANGED denied

Resume(c) ==
  /\ phase[c] = "resting"
  /\ Become(c, "present")
  /\ UNCHANGED <<holding, denied>>

Leave(c) ==
  /\ phase[c] \in {"present", "resting"}
  /\ Become(c, "gone")
  /\ holding' = holding \ {c}
  /\ UNCHANGED denied

Next ==
  \E c \in Clients :
    Come(c) \/ Take(c) \/ Deny(c) \/ GiveBack(c) \/ Rest(c) \/ Resume(c) \/ Leave(c)

Spec == Init /\ [][Next]_vars /\ \A c \in Clients : WF_vars(Leave(c))
=============================================================================
