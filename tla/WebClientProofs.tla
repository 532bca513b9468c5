-------------------------- MODULE WebClientProofs --------------------------
(***************************************************************************)
(* The invariants of WebClient hold for any number of submits and tokens.  *)
(* For AnswerUnderQuestion one has to know where the question of a submit  *)
(* that is alone stands: it, or its answer, ends the page while the submit *)
(* is under way, and nobody else is; afterwards either nobody is, or some  *)
(* later question has been put below the answer.                           *)
(***************************************************************************)
EXTENDS WebClient, TLAPS

Busy == {"creating", "sending", "reading"}

Asked(n, i)    == i \in 1..Len(messages) /\ messages[i] = Bubble("user", n, 0)
Answered(n, i) == Asked(n, i) /\ i + 1 \in 1..Len(messages)
                    /\ messages[i + 1] = Bubble("assistant", n, answer[n])

AtTheEnd(n) ==
  IF answer[n] = 0 THEN Asked(n, Len(messages))
  ELSE \E i \in Nat : Answered(n, i) /\ i + 1 = Len(messages)
Settled(n) ==
  \E i \in Nat : Answered(n, i) /\ (i + 1 < Len(messages) \/ UnderWay = {})

Standing ==
  \A n \in alone :
    /\ stage[n] \in Busy => UnderWay = {n} /\ AtTheEnd(n)
    /\ stage[n] = "done" /\ answer[n] > 0 => Settled(n)

Fresh == \A n \in Submits :
  IF stage[n] = "draft" THEN n \notin alone /\ answer[n] = 0 ELSE Len(messages) > 0

Unanswered == \A n \in Submits :
  stage[n] \in {"draft", "creating"} => creation[n] = "none"

IInv == TypeOK /\ Fresh /\ Unanswered /\ OwnConversation /\ Standing

Page == [role : {"user", "assistant"}, of : Submits, size : 0..MaxBlocks]

USE ClientAssumption DEF ClientAssumption, Submits
-----------------------------------------------------------------------------
\* An empty page.
LEMMA InitIInv == Init => IInv
<1> SUFFICES ASSUME Init PROVE IInv
  OBVIOUS
<1>1. << >> \in Seq(Page)
  OBVIOUS
<1>2. TypeOK
  <2>1. 0 \in 0..MaxBlocks
    OBVIOUS
  <2>2. messages \in Seq(Page)
    BY <1>1 DEF Init
  <2> QED BY <2>1, <2>2 DEF Init, TypeOK, Page, undefined
<1> QED BY <1>2 DEF Init, IInv, Fresh, Unanswered, OwnConversation, Standing

\* A question or an answer is added at the end of the page, or an answer at
\* its end is replaced by one; nothing above changes.
LEMMA Grows ==
  ASSUME TypeOK, NEW n \in Submits, NEW size \in 0..MaxBlocks, Len(messages) > 0
  PROVE  /\ Shown(n, size) \in Seq(Page) /\ Len(Shown(n, size)) >= Len(messages)
         /\ LET new == Shown(n, size) IN
            IF messages[Len(messages)].role = "assistant"
            THEN /\ Len(new) = Len(messages)
                 /\ new[Len(messages)] = Bubble("assistant", n, size)
                 /\ \A i \in 1..Len(messages) - 1 : new[i] = messages[i]
            ELSE /\ Len(new) = Len(messages) + 1
                 /\ new[Len(messages) + 1] = Bubble("assistant", n, size)
                 /\ \A i \in 1..Len(messages) : new[i] = messages[i]
<1>1. messages \in Seq(Page) /\ Bubble("assistant", n, size) \in Page
  BY DEF TypeOK, Page, Bubble
<1> HIDE DEF Page
<1> QED BY <1>1 DEF Shown, Last

\* Types, and that each message goes where its own conversation is.
LEMMA StepTypes ==
  ASSUME IInv, NEW n \in Submits, Submit(n) \/ Create(n) \/ Open(n) \/ Read(n) \/ Finally(n)
  PROVE  (TypeOK /\ Fresh /\ Unanswered /\ OwnConversation)'
<1> USE DEF IInv
<1>0. messages \in Seq(Page) /\ Len(messages) \in Nat
  BY DEF TypeOK, Page
<1>1. CASE Submit(n)
  <2>1. messages' \in Seq(Page) /\ Len(messages') > 0
    <3>1. Bubble("user", n, 0) \in Page
      BY DEF Bubble, Page
    <3> QED BY <1>0, <1>1, <3>1 DEF Submit
  <2>2. TypeOK'
    <3>1. alone' \subseteq Submits
      BY <1>1 DEF Submit, TypeOK
    <3>2. stage' \in [Submits -> {"draft", "creating", "sending", "reading", "done"}]
      BY <1>1 DEF Submit, TypeOK
    <3>3. \A m \in Submits : sentTo'[m] = undefined <=> stage'[m] \in {"draft", "creating"}
      BY <1>1 DEF Submit, TypeOK
    <3> QED BY <1>1, <2>1, <3>1, <3>2, <3>3 DEF Submit, TypeOK, Page
  <2>3. Fresh'
    BY <1>1, <2>1 DEF Submit, TypeOK, Fresh, UnderWay
  <2>4. (Unanswered /\ OwnConversation)'
    BY <1>1 DEF Submit, TypeOK, Unanswered, OwnConversation
  <2> QED BY <2>2, <2>3, <2>4
<1>2. CASE Create(n)
  <2>1. UNCHANGED <<answer, messages, matching, activeAgent, alone>> /\ stage[n] = "creating"
        /\ stage' = [stage EXCEPT ![n] = "sending"]
    BY <1>2 DEF Create, badge
  <2>2. PICK to \in Submits \cup {Placeholder}, made \in {"none", "id", "refusal"} :
          /\ sentTo' = [sentTo EXCEPT ![n] = to]
          /\ creation' = [creation EXCEPT ![n] = made]
          /\ made = "id" => to = n
          /\ made = "refusal" => to = Placeholder
          /\ conversationRef' \in Submits \cup {undefined}
    <3>1. creation[n] = "none" /\ creation = [creation EXCEPT ![n] = "none"]
      BY <2>1 DEF Unanswered, TypeOK
    <3>2. CASE \E id \in {n, undefined} :
                 /\ conversationRef' = id
                 /\ sentTo' = [sentTo EXCEPT ![n] = Target(Address(id))]
                 /\ creation' = [creation EXCEPT ![n] = IF id = n THEN "id" ELSE "refusal"]
      <4>1. n # undefined
        BY DEF undefined
      <4> QED BY <3>2, <4>1 DEF Address, Target
    <3>3. CASE /\ sentTo' = [sentTo EXCEPT ![n] = Target(conversationRef)]
               /\ UNCHANGED <<conversationRef, creation>>
      BY <3>1, <3>3 DEF Target, TypeOK
    <3> QED BY <1>2, <3>2, <3>3 DEF Create
  <2>3. TypeOK'
    BY <2>1, <2>2 DEF TypeOK, undefined, Placeholder
  <2>4. (Fresh /\ Unanswered)'
    BY <2>1, <2>2 DEF TypeOK, Fresh, Unanswered
  <2>5. OwnConversation'
    BY <2>1, <2>2 DEF TypeOK, OwnConversation
  <2> QED BY <2>3, <2>4, <2>5
<1>3. CASE Open(n) \/ Finally(n)
  <2>1. /\ UNCHANGED <<conversationRef, sentTo, answer, messages, creation, alone>>
        /\ stage[n] \in Busy \ {"creating"}
        /\ stage' = [stage EXCEPT ![n] = "reading"] \/ stage' = [stage EXCEPT ![n] = "done"]
        /\ matching' \in BOOLEAN /\ activeAgent' \in BOOLEAN
    BY <1>3 DEF Open, Finally, badge, Busy, TypeOK
  <2>2. TypeOK'
    BY <2>1 DEF TypeOK, Busy
  <2>3. (Fresh /\ Unanswered /\ OwnConversation)'
    BY <2>1 DEF Fresh, Unanswered, OwnConversation, TypeOK, Busy
  <2> QED BY <2>2, <2>3
<1>4. CASE Read(n)
  <2>1. /\ UNCHANGED <<stage, conversationRef, sentTo, matching, creation, alone>>
        /\ stage[n] = "reading" /\ Len(messages) > 0 /\ activeAgent' \in BOOLEAN
        /\ \/ answer[n] + 1 \in 0..MaxBlocks /\ answer' = [answer EXCEPT ![n] = @ + 1]
              /\ messages' = Shown(n, answer[n] + 1)
           \/ UNCHANGED <<answer, messages>>
    <3>1. UNCHANGED <<stage, conversationRef, sentTo, matching, creation, alone>> /\ stage[n] = "reading"
      BY <1>4 DEF Read
    <3>2. Len(messages) > 0
      BY <3>1 DEF Fresh
    <3>3. activeAgent' \in BOOLEAN
      BY <1>4 DEF Read, TypeOK
    <3>4. answer[n] \in 0..MaxBlocks
      BY DEF TypeOK
    <3>5. \/ answer[n] + 1 \in 0..MaxBlocks /\ answer' = [answer EXCEPT ![n] = @ + 1]
             /\ messages' = Shown(n, answer[n] + 1)
          \/ UNCHANGED <<answer, messages>>
      BY <1>4, <3>4 DEF Read
    <3> QED BY <3>1, <3>2, <3>3, <3>5
  <2>2. messages' \in Seq(Page) /\ Len(messages') > 0
    <3>1. CASE UNCHANGED messages
      BY <1>0, <2>1, <3>1
    <3>2. CASE messages' = Shown(n, answer[n] + 1) /\ answer[n] + 1 \in 0..MaxBlocks
      <4>1. messages' \in Seq(Page) /\ Len(messages') >= Len(messages)
        BY <2>1, <3>2, Grows
      <4> QED BY <1>0, <2>1, <4>1
    <3> QED BY <2>1, <3>1, <3>2
  <2>3. TypeOK'
    BY <2>1, <2>2 DEF TypeOK, Page
  <2>4. (Fresh /\ Unanswered /\ OwnConversation)'
    BY <2>1, <2>2 DEF Fresh, Unanswered, OwnConversation, TypeOK
  <2> QED BY <2>3, <2>4
<1> QED BY <1>1, <1>2, <1>3, <1>4

\* An answer that stands above the end of the page stays where it is.
LEMMA Kept ==
  ASSUME TypeOK, TypeOK', NEW m \in Submits, NEW i \in Nat, Answered(m, i), answer'[m] = answer[m],
         NEW k \in Nat, i + 1 <= k, k <= Len(messages), k <= Len(messages'),
         \A j \in 1..k : messages'[j] = messages[j]
  PROVE  Answered(m, i)'
<1>1. /\ Len(messages) \in Nat /\ Len(messages') \in Nat
      /\ Len(messages') >= i + 1 /\ i \in 1..k /\ i + 1 \in 1..k
  <2>1. messages \in Seq(Page) /\ messages' \in Seq(Page)
    BY DEF TypeOK, Page
  <2>2. Len(messages) \in Nat /\ Len(messages') \in Nat
    BY <2>1
  <2>3. i >= 1
    BY <2>2 DEF Answered, Asked
  <2> QED BY <2>2, <2>3
<1>2. messages'[i] = messages[i] /\ messages'[i + 1] = messages[i + 1]
  BY <1>1
<1>3. i \in 1..Len(messages') /\ i + 1 \in 1..Len(messages')
  BY <1>1
<1> QED BY <1>1, <1>2, <1>3 DEF Answered, Asked

\* No step of a submit disturbs the answers that stand above its own.
LEMMA StepStanding ==
  ASSUME IInv, TypeOK', NEW n \in Submits,
         Submit(n) \/ Create(n) \/ Open(n) \/ Read(n) \/ Finally(n)
  PROVE  Standing'
<1>1. TypeOK /\ Fresh /\ Standing /\ Len(messages) \in Nat /\ Len(messages') \in Nat
  BY DEF IInv, TypeOK
<1>2. UnderWay = {m \in Submits : stage[m] \in Busy}
  BY DEF UnderWay, Busy
<1>3. CASE Submit(n)
  <2>1. /\ stage[n] = "draft" /\ stage' = [stage EXCEPT ![n] = "creating"] /\ answer' = answer
        /\ messages' = Append(messages, Bubble("user", n, 0))
        /\ alone' = (alone \ UnderWay) \cup IF UnderWay = {} THEN {n} ELSE {}
    BY <1>3 DEF Submit
  <2>2. /\ Len(messages') = Len(messages) + 1 /\ messages'[Len(messages) + 1] = Bubble("user", n, 0)
        /\ \A j \in 1..Len(messages) : messages'[j] = messages[j]
    BY <1>1, <2>1 DEF TypeOK
  <2>3. UnderWay' = UnderWay \cup {n}
    BY <1>1, <2>1 DEF UnderWay, TypeOK
  <2>4. ASSUME n \in alone' PROVE UnderWay' = {n} /\ AtTheEnd(n)'
    <3>1. UnderWay = {} /\ answer'[n] = 0
      BY <1>1, <2>1, <2>4 DEF Fresh
    <3>2. Asked(n, Len(messages))'
      BY <1>1, <2>2 DEF Asked
    <3> QED BY <2>3, <3>1, <3>2 DEF AtTheEnd
  <2>5. ASSUME NEW m \in alone', m # n
        PROVE  stage'[m] \notin Busy /\ (stage'[m] = "done" /\ answer'[m] > 0 => Settled(m)')
    <3>1. m \in alone /\ m \in Submits /\ m \notin UnderWay /\ stage'[m] = stage[m]
      BY <1>1, <2>1, <2>5 DEF TypeOK
    <3>2. stage[m] \notin Busy
      BY <1>2, <3>1
    <3>3. ASSUME stage[m] = "done", answer[m] > 0 PROVE Settled(m)'
      <4>1. PICK i \in Nat : Answered(m, i)
        BY <1>1, <3>1, <3>3 DEF Standing, Settled
      <4>2. i + 1 <= Len(messages)
        BY <4>1 DEF Answered
      <4>3. Answered(m, i)'
        BY <1>1, <2>1, <2>2, <3>1, <4>1, <4>2, Kept
      <4> QED BY <1>1, <2>2, <4>2, <4>3 DEF Settled
    <3> QED BY <2>1, <3>1, <3>2, <3>3
  <2>6. stage'[n] = "creating"
    BY <1>1, <2>1 DEF TypeOK
  <2> QED BY <2>4, <2>5, <2>6 DEF Standing
<1>4. CASE Create(n) \/ Open(n)
  <2>1. /\ UNCHANGED <<answer, messages, alone>> /\ stage[n] \in Busy
        /\ stage' = [stage EXCEPT ![n] = "sending"] \/ stage' = [stage EXCEPT ![n] = "reading"]
    BY <1>4 DEF Create, Open, Busy
  <2>2. \A m \in Submits : /\ stage'[m] \in Busy <=> stage[m] \in Busy
                           /\ stage'[m] = "done" <=> stage[m] = "done"
    BY <1>1, <2>1 DEF TypeOK, Busy
  <2>3. UnderWay' = UnderWay
    BY <1>2, <2>2 DEF UnderWay, Busy
  <2>4. \A m \in alone : m \in Submits /\ AtTheEnd(m)' = AtTheEnd(m) /\ Settled(m)' = Settled(m)
    BY <1>1, <2>1, <2>3 DEF AtTheEnd, Settled, Answered, Asked, TypeOK
  <2> QED BY <1>1, <2>1, <2>2, <2>3, <2>4 DEF Standing
<1>5. CASE Finally(n)
  <2>1. /\ UNCHANGED <<answer, messages, alone>> /\ stage[n] \in Busy
        /\ stage' = [stage EXCEPT ![n] = "done"]
    BY <1>5 DEF Finally, Busy
  <2>2. n \in UnderWay /\ UnderWay' = UnderWay \ {n}
    BY <1>1, <1>2, <2>1 DEF UnderWay, TypeOK
  <2>3. ASSUME NEW m \in alone, m # n
        PROVE  stage'[m] \notin Busy /\ (stage'[m] = "done" /\ answer'[m] > 0 => Settled(m)')
    <3>1. m \in Submits /\ stage'[m] = stage[m]
      BY <1>1, <2>1, <2>3 DEF TypeOK
    <3>2. stage[m] \notin Busy
      BY <1>1, <2>2, <2>3 DEF Standing
    <3>3. ASSUME stage[m] = "done", answer[m] > 0 PROVE Settled(m)'
      <4>1. PICK i \in Nat : Answered(m, i) /\ i + 1 < Len(messages)
        BY <1>1, <2>2, <3>3 DEF Standing, Settled
      <4> QED BY <2>1, <4>1 DEF Settled, Answered, Asked
    <3> QED BY <2>1, <3>1, <3>2, <3>3
  <2>4. ASSUME n \in alone, answer[n] > 0 PROVE Settled(n)'
    <3>1. UnderWay = {n} /\ AtTheEnd(n) /\ answer[n] # 0
      BY <1>1, <2>1, <2>4 DEF Standing, TypeOK
    <3>2. PICK i \in Nat : Answered(n, i)
      BY <3>1 DEF AtTheEnd
    <3>3. UnderWay' = {}
      BY <2>2, <3>1
    <3> QED BY <2>1, <3>2, <3>3 DEF Settled, Answered, Asked
  <2>5. stage'[n] = "done"
    BY <1>1, <2>1 DEF TypeOK
  <2> QED BY <2>1, <2>3, <2>4, <2>5 DEF Standing, Busy
<1>6. CASE Read(n)
  <2>1. UNCHANGED <<stage, alone>> /\ n \in UnderWay /\ UnderWay' = UnderWay
        /\ Len(messages) > 0 /\ answer[n] \in 0..MaxBlocks
    BY <1>1, <1>6 DEF Read, UnderWay, Fresh, TypeOK
  <2>2. CASE UNCHANGED <<answer, messages>>
    <3>1. \A m \in alone : AtTheEnd(m)' = AtTheEnd(m) /\ Settled(m)' = Settled(m)
      BY <2>1, <2>2 DEF AtTheEnd, Settled, Answered, Asked
    <3> QED BY <1>1, <2>1, <2>2, <3>1 DEF Standing
  <2>3. CASE /\ answer[n] + 1 \in 0..MaxBlocks /\ answer' = [answer EXCEPT ![n] = @ + 1]
             /\ messages' = Shown(n, answer[n] + 1)
    <3>0. PICK L \in Nat \ {0} : L = Len(messages)
      BY <1>1, <2>1
    <3>1. answer'[n] = answer[n] + 1 /\ \A m \in Submits : m # n => answer'[m] = answer[m]
      BY <1>1, <2>3 DEF TypeOK
    <3>2. IF messages[L].role = "assistant"
          THEN /\ Len(messages') = L /\ messages'[L] = Bubble("assistant", n, answer[n] + 1)
               /\ \A i \in 1..L - 1 : messages'[i] = messages[i]
          ELSE /\ Len(messages') = L + 1 /\ messages'[L + 1] = Bubble("assistant", n, answer[n] + 1)
               /\ \A i \in 1..L : messages'[i] = messages[i]
      BY <1>1, <2>1, <2>3, <3>0, Grows
    <3>3. ASSUME n \in alone PROVE UnderWay' = {n} /\ AtTheEnd(n)'
      <4>1. UnderWay = {n} /\ AtTheEnd(n)
        BY <1>1, <1>2, <2>1, <3>3 DEF Standing
      <4>2. CASE answer[n] = 0
        <5>1. messages[L] = Bubble("user", n, 0) /\ L \in 1..L
          BY <3>0, <4>1, <4>2 DEF AtTheEnd, Asked
        <5>2. messages[L].role # "assistant"
          BY <5>1 DEF Bubble
        <5>3. Answered(n, L)' /\ L + 1 = Len(messages')
          BY <1>1, <3>1, <3>2, <4>2, <5>1, <5>2 DEF Answered, Asked
        <5>4. answer'[n] # 0
          BY <3>1, <4>2
        <5> QED BY <2>1, <4>1, <5>3, <5>4 DEF AtTheEnd
      <4>3. CASE answer[n] # 0
        <5>1. PICK i \in Nat : Answered(n, i) /\ i + 1 = L
          BY <3>0, <4>1, <4>3 DEF AtTheEnd
        <5>2. messages[L].role = "assistant"
          BY <5>1 DEF Answered, Bubble
        <5>3. Answered(n, i)' /\ i + 1 = Len(messages')
          BY <1>1, <3>1, <3>2, <5>1, <5>2 DEF Answered, Asked
        <5>4. answer'[n] # 0
          BY <2>1, <3>1
        <5> QED BY <2>1, <4>1, <5>3, <5>4 DEF AtTheEnd
      <4> QED BY <4>2, <4>3
    <3>4. ASSUME NEW m \in alone, m # n
          PROVE  stage'[m] \notin Busy /\ (stage'[m] = "done" /\ answer'[m] > 0 => Settled(m)')
      <4>1. m \in Submits /\ stage'[m] = stage[m] /\ answer'[m] = answer[m]
        BY <1>1, <2>1, <3>1, <3>4 DEF TypeOK
      <4>2. stage[m] \notin Busy
        BY <1>1, <2>1, <3>4 DEF Standing
      <4>3. ASSUME stage[m] = "done", answer[m] > 0 PROVE Settled(m)'
        <5>1. PICK i \in Nat : Answered(m, i) /\ i + 1 < L
          BY <1>1, <2>1, <3>0, <4>3 DEF Standing, Settled
        <5>2. PICK k \in Nat : k = L - 1
          OBVIOUS
        <5>3. /\ i + 1 <= k /\ k <= Len(messages) /\ k <= Len(messages')
              /\ \A j \in 1..k : messages'[j] = messages[j]
          BY <3>0, <3>2, <5>1, <5>2
        <5>4. Answered(m, i)'
          BY <1>1, <4>1, <5>1, <5>3, Kept
        <5>5. i + 1 < Len(messages')
          BY <3>2, <5>1
        <5> QED BY <5>4, <5>5 DEF Settled
      <4> QED BY <4>1, <4>2, <4>3
    <3>5. stage'[n] # "done"
      BY <1>2, <2>1 DEF Busy
    <3> QED BY <2>1, <3>3, <3>4, <3>5 DEF Standing
  <2> QED BY <1>6, <2>1, <2>2, <2>3 DEF Read
<1> QED BY <1>3, <1>4, <1>5, <1>6

\* The invariant holds in every reachable state.
THEOREM Inductive == Spec => []IInv
<1>1. IInv /\ [Next]_vars => IInv'
  <2> SUFFICES ASSUME IInv, [Next]_vars PROVE IInv'
    OBVIOUS
  <2>1. CASE Next
    BY <2>1, StepTypes, StepStanding DEF Next, IInv
  <2>2. CASE UNCHANGED vars
    BY <2>2 DEF vars, badge, IInv, TypeOK, Fresh, Unanswered, OwnConversation, Standing,
                AtTheEnd, Settled, Answered, Asked, UnderWay
  <2> QED BY <2>1, <2>2
<1> QED BY InitIInv, <1>1, PTL DEF Spec

\* The state of the page and of each run keeps its type.
THEOREM TypeCorrect == Spec => []TypeOK
  BY Inductive, PTL DEF IInv

\* A message goes into the conversation made for it, or into none.
THEOREM Own == Spec => []OwnConversation
  BY Inductive, PTL DEF IInv

\* An answer received alone stays whole under its question.
THEOREM UnderQuestion == Spec => []AnswerUnderQuestion
<1>1. IInv => AnswerUnderQuestion
  <2> SUFFICES ASSUME IInv, NEW n \in alone, stage[n] = "done", answer[n] > 0
               PROVE  \E i \in 1..Len(messages) - 1 :
                        /\ messages[i] = Bubble("user", n, 0)
                        /\ messages[i + 1] = Bubble("assistant", n, answer[n])
    BY DEF AnswerUnderQuestion
  <2>1. PICK i \in Nat : Answered(n, i)
    BY DEF IInv, Standing, Settled
  <2>2. i \in 1..Len(messages) - 1
    BY <2>1 DEF Answered, Asked, IInv, TypeOK
  <2> QED BY <2>1, <2>2 DEF Answered, Asked
<1> QED BY <1>1, Inductive, PTL
=============================================================================
