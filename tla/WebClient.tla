----------------------------- MODULE WebClient -----------------------------
(***************************************************************************)
(* The chat window (frontend/components/ChatWindow.tsx).  Nothing stops a  *)
(* second submit while the first is under way, so several runs of onSubmit *)
(* share the list of messages and conversationRef; they interleave at      *)
(* their awaits.  The server is any that answers at API_URL.               *)
(***************************************************************************)
EXTENDS Integers, Sequences

CONSTANTS
  MaxSubmits,  \* bound: messages a user submits
  MaxBlocks    \* bound: tokens a server sends in one answer

ASSUME ClientAssumption == MaxSubmits \in Nat /\ MaxBlocks \in Nat

Submits == 1..MaxSubmits

\* A conversation has the number of the submit that created it.  undefined is
\* what a reply without an id leaves in the reference; null is alike.
undefined   == 0
Placeholder == -1    \* the conversation "0" of the URL

VARIABLES
  stage,            \* progress of each run of onSubmit
  conversationRef,  \* shared by all of them
  sentTo,           \* the conversation each message was sent to
  answer,           \* tokens of each answer so far
  messages,         \* the bubbles on the page
  matching,         \* whether the badge is shown,
  activeAgent,      \* and whether it names an agent
  \* History:
  creation,         \* what the server answered to each creation
  alone             \* submits that no other was under way with

badge == <<matching, activeAgent>>
vars  == <<stage, conversationRef, sentTo, answer, messages, badge, creation, alone>>

UnderWay == {n \in Submits : stage[n] \in {"creating", "sending", "reading"}}

Bubble(role, n, size) == [role |-> role, of |-> n, size |-> size]
-----------------------------------------------------------------------------
Init ==
  /\ stage = [n \in Submits |-> "draft"]
  /\ conversationRef = undefined
  /\ sentTo = [n \in Submits |-> undefined]
  /\ answer = [n \in Submits |-> 0]
  /\ messages = <<>>
  /\ matching = FALSE /\ activeAgent = FALSE
  /\ creation = [n \in Submits |-> "none"] /\ alone = {}

\* onSubmit up to its first await: the question is shown at once.
Submit(n) ==
  /\ stage[n] = "draft"
  /\ \A m \in 1..n-1 : stage[m] # "draft"
  /\ stage' = [stage EXCEPT ![n] = "creating"]
  /\ messages' = Append(messages, Bubble("user", n, 0))
  /\ matching' = TRUE
  /\ alone' = (alone \ UnderWay) \cup IF UnderWay = {} THEN {n} ELSE {}
  /\ UNCHANGED <<conversationRef, sentTo, answer, activeAgent, creation>>

\* Mutant of Address: the conversation is a state, as of the last rendering.
AddressAsRendered(id) == conversationRef
\* conversationRef.current, when it has just been set to id
Address(id) == id

\* Mutant of Target: without ?? "0".
TargetUnchecked(id) == id
Target(id) == IF id = undefined THEN Placeholder ELSE id

\* The answer to POST /conversations, with an id or (a refusal) without one,
\* or none at all, which leaves the reference as it is.  The message is sent
\* before the next await.
Create(n) ==
  /\ stage[n] = "creating"
  /\ stage' = [stage EXCEPT ![n] = "sending"]
  /\ \/ \E id \in {n, undefined} :
          /\ conversationRef' = id
          /\ sentTo' = [sentTo EXCEPT ![n] = Target(Address(id))]
          /\ creation' = [creation EXCEPT ![n] = IF id = n THEN "id" ELSE "refusal"]
     \/ /\ sentTo' = [sentTo EXCEPT ![n] = Target(conversationRef)]
        /\ UNCHANGED <<conversationRef, creation>>
  /\ UNCHANGED <<answer, messages, badge, alone>>

Open(n) ==
  /\ stage[n] = "sending"
  /\ stage' = [stage EXCEPT ![n] = "reading"]
  /\ UNCHANGED <<conversationRef, sentTo, answer, messages, badge, creation, alone>>

Last == messages[Len(messages)]

\* Mutant of Shown: the last answer on the page is replaced, wherever it is.
ShownInLastAnswer(n, size) ==
  IF \E i \in 1..Len(messages) : messages[i].role = "assistant"
  THEN LET i == CHOOSE i \in 1..Len(messages) :
                  /\ messages[i].role = "assistant"
                  /\ \A j \in i+1..Len(messages) : messages[j].role # "assistant"
       IN  [messages EXCEPT ![i] = Bubble("assistant", n, size)]
  ELSE Append(messages, Bubble("assistant", n, size))
\* The answer replaces the last bubble if that is an answer, and follows it
\* if it is a question.
Shown(n, size) ==
  IF Last.role = "assistant"
  THEN [messages EXCEPT ![Len(messages)] = Bubble("assistant", n, size)]
  ELSE Append(messages, Bubble("assistant", n, size))

\* One block of the stream: a token, an agent, or one that is skipped - it
\* has another type, or is a piece of a frame cut between two reads.
Read(n) ==
  /\ stage[n] = "reading"
  /\ \/ /\ answer[n] < MaxBlocks
        /\ answer' = [answer EXCEPT ![n] = @ + 1]
        /\ messages' = Shown(n, answer[n] + 1)
        /\ UNCHANGED activeAgent
     \/ activeAgent' = TRUE /\ UNCHANGED <<answer, messages>>
     \/ UNCHANGED <<answer, messages, activeAgent>>
  /\ UNCHANGED <<stage, conversationRef, sentTo, matching, creation, alone>>

\* The stream is over, has no body, or raises: the fetch, a read, or the
\* parsing of a frame cut after "data: ".  The badge goes, whoever else needs it.
Finally(n) ==
  /\ stage[n] \in {"sending", "reading"}
  /\ stage' = [stage EXCEPT ![n] = "done"]
  /\ matching' = FALSE /\ activeAgent' = FALSE
  /\ UNCHANGED <<conversationRef, sentTo, answer, messages, creation, alone>>

Next == \E n \in Submits : Submit(n) \/ Create(n) \/ Open(n) \/ Read(n) \/ Finally(n)

Spec == Init /\ [][Next]_vars
-----------------------------------------------------------------------------
TypeOK ==
  /\ stage \in [Submits -> {"draft", "creating", "sending", "reading", "done"}]
  /\ conversationRef \in Submits \cup {undefined}
  /\ sentTo \in [Submits -> Submits \cup {undefined, Placeholder}]
  /\ \A n \in Submits : sentTo[n] = undefined <=> stage[n] \in {"draft", "creating"}
  /\ answer \in [Submits -> 0..MaxBlocks]
  /\ messages \in Seq([role : {"user", "assistant"}, of : Submits, size : 0..MaxBlocks])
  /\ matching \in BOOLEAN /\ activeAgent \in BOOLEAN
  /\ creation \in [Submits -> {"none", "id", "refusal"}] /\ alone \subseteq Submits

\* However submits overlap, a message goes into the conversation made for it,
\* or into none when that was refused; only one whose creation was not answered
\* at all may join the conversation of another (ChatWindow.tsx:42-49).
OwnConversation ==
  \A n \in Submits :
    /\ creation[n] = "id" => sentTo[n] = n
    /\ creation[n] = "refusal" => sentTo[n] = Placeholder

\* What a submit received while no other was under way stays on the page, as
\* far as it came, right under its question, whatever is submitted later
\* (ChatWindow.tsx:66-74).
AnswerUnderQuestion ==
  \A n \in alone : stage[n] = "done" /\ answer[n] > 0 =>
    \E i \in 1..Len(messages) - 1 :
      /\ messages[i] = Bubble("user", n, 0)
      /\ messages[i + 1] = Bubble("assistant", n, answer[n])
=============================================================================
