---------------------------- MODULE DocumentLife ----------------------------
(***************************************************************************)
(* What the status of an uploaded document promises whoever polls it,      *)
(* without queues, workers and chunks: an accepted document is given a     *)
(* fixed number of attempts; it is PROCESSING during each, FAILED between  *)
(* them and after the last, and READY for good once one succeeds; what is  *)
(* left of them is made use of, unless attempts may get lost at all.       *)
(***************************************************************************)
EXTENDS Naturals

CONSTANTS
  Docs,
  Attempts,  \* attempts a document is given
  MayLose    \* whether attempts may get lost

VARIABLES
  status,    \* "absent", "PENDING", "PROCESSING", "READY" or "FAILED"
  accepted,  \* documents that were given their attempts
  chances    \* attempts a document has left, the one under way included

vars == <<status, accepted, chances>>

Init ==
  /\ status = [d \in Docs |-> "absent"]
  /\ accepted = {}
  /\ chances = [d \in Docs |-> 0]

Become(d, s) == status' = [status EXCEPT ![d] = s]

Create(d) ==
  /\ status[d] = "absent"
  /\ Become(d, "PENDING")
  /\ UNCHANGED <<accepted, chances>>

Accept(d) ==
  /\ status[d] = "PENDING" /\ d \notin accepted
  /\ accepted' = accepted \cup {d}
  /\ chances' = [chances EXCEPT ![d] = Attempts]
  /\ UNCHANGED status

Start(d) ==
  /\ status[d] \in {"PENDING", "FAILED"} /\ chances[d] > 0
  /\ Become(d, "PROCESSING")
  /\ UNCHANGED <<accepted, chances>>

Succeed(d) ==
  /\ status[d] = "PROCESSING" /\ chances[d] > 0
  /\ Become(d, "READY")
  /\ chances' = [chances EXCEPT ![d] = 0]
  /\ UNCHANGED accepted

Miss(d) ==
  /\ status[d] = "PROCESSING" /\ chances[d] > 0
  /\ Become(d, "FAILED")
  /\ chances' = [chances EXCEPT ![d] = @ - 1]
  /\ UNCHANGED accepted

Lose(d) ==
  /\ MayLose /\ chances[d] > 0
  /\ chances' = [chances EXCEPT ![d] = 0]
  /\ UNCHANGED <<status, accepted>>

Attempt(d) == Start(d) \/ Succeed(d) \/ Miss(d) \/ Lose(d)

Next == \E d \in Docs : Create(d) \/ Accept(d) \/ Attempt(d)

Spec == Init /\ [][Next]_vars /\ \A d \in Docs : WF_vars(Attempt(d))
=============================================================================
