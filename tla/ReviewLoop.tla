----------------------------- MODULE ReviewLoop -----------------------------
(***************************************************************************)
(* What the agent graph promises, without its agents: a task is drafted    *)
(* and reviewed for at most Rounds rounds; an approved draft ships at      *)
(* once, a rejected one only when the rounds are spent; any step may abort *)
(* the task, and a task that was begun ends.                               *)
(***************************************************************************)
EXTENDS Naturals

CONSTANT Rounds   \* a positive number

VARIABLES
  phase,     \* "idle", "drafting", "reviewing", "shipped" or "aborted"
  round,     \* reviews this task has had
  approved   \* whether the last of them approved the draft

vars == <<phase, round, approved>>

Init == phase = "idle" /\ round = 0 /\ approved = FALSE

Begin ==
  /\ phase \in {"idle", "shipped", "aborted"}
  /\ phase' = "drafting"
  /\ round' = 0
  /\ approved' = FALSE

Submit ==
  /\ phase = "drafting"
  /\ phase' = "reviewing"
  /\ UNCHANGED <<round, approved>>

Approve ==
  /\ phase = "reviewing"
  /\ phase' = "shipped"
  /\ round' = round + 1
  /\ approved' = TRUE

Reject ==
  /\ phase = "reviewing"
  /\ round' = round + 1
  /\ phase' = IF round' < Rounds THEN "drafting" ELSE "shipped"
  /\ approved' = FALSE

Abort ==
  /\ phase \in {"drafting", "reviewing"}
  /\ phase' = "aborted"
  /\ UNCHANGED <<round, approved>>

Work == Submit \/ Approve \/ Reject \/ Abort

Next == Begin \/ Work

Spec == Init /\ [][Next]_vars /\ WF_vars(Work)
=============================================================================
