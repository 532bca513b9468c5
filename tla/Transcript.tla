----------------------------- MODULE Transcript -----------------------------
(***************************************************************************)
(* What a conversation promises, without graph, queue and frames: a        *)
(* question is written down first; its answer is shown once, then written  *)
(* down right below it, as it was shown, unless the database refuses; the  *)
(* reader is told the end after that, or is told of an error and nothing   *)
(* else; the reader may leave any time, and every turn is closed.          *)
(***************************************************************************)
EXTENDS Naturals, Sequences

VARIABLES
  turn,     \* questions so far
  rows,     \* what is written down: [turn, role, no], no the draft or 0
  open,     \* whether a turn is under way
  told,     \* the draft the reader was shown in this turn, or 0
  refused,  \* whether the database has refused something of this turn
  ending    \* what the reader was told of its end: "none", "done", "error"

vars == <<turn, rows, open, told, refused, ending>>

Init ==
  /\ turn = 0 /\ rows = <<>> /\ open = FALSE
  /\ told = 0 /\ refused = FALSE /\ ending = "none"

Question  == [turn |-> turn, role |-> "user", no |-> 0]
Answer(n) == [turn |-> turn, role |-> "assistant", no |-> n]
Last(row) == rows # <<>> /\ rows[Len(rows)] = row

Ask ==
  /\ ~open
  /\ turn' = turn + 1
  /\ rows' = Append(rows, Question')
  /\ open' = TRUE /\ told' = 0 /\ refused' = FALSE /\ ending' = "none"

Tell ==
  /\ open /\ told = 0 /\ Last(Question)
  /\ told' \in Nat \ {0}
  /\ UNCHANGED <<turn, rows, open, refused, ending>>

Store ==
  /\ open /\ told # 0 /\ ~refused /\ Last(Question)
  /\ rows' = Append(rows, Answer(told))
  /\ UNCHANGED <<turn, open, told, refused, ending>>

Refuse ==
  /\ open /\ ~refused
  /\ refused' = TRUE
  /\ UNCHANGED <<turn, rows, open, told, ending>>

End ==
  /\ open
  /\ told # 0 /\ ~refused => Last(Answer(told))
  /\ ending' = "done"

Fail ==
  /\ open /\ told = 0 /\ Last(Question)
  /\ ending' = "error"

Leave == open /\ UNCHANGED ending

Close ==
  /\ End \/ Fail \/ Leave
  /\ open' = FALSE
  /\ UNCHANGED <<turn, rows, told, refused>>

Next == Ask \/ Tell \/ Store \/ Refuse \/ Close

Spec == Init /\ [][Next]_vars /\ WF_vars(Close)
=============================================================================
