--------------------------- MODULE TenancyProofs ---------------------------
(***************************************************************************)
(* The invariants of Tenancy hold for any users, workspaces and changes.   *)
(* What has to be added is, for each place a request may be at, which of   *)
(* the checks it has passed, and that each check it passed was true then.  *)
(***************************************************************************)
EXTENDS Tenancy, TLAPS

Filed == {"upload", "list", "download"}  \* their scope is the membership

\* What is known of user u's request r.
Told(u) ==
  LET r == request[u] IN
  /\ r.touched \subseteq {r.workspace}
  /\ r.touched # {} => Needs(r.endpoint) \subseteq seen[u]
  /\ r.stage # "done" => r.conversation \in Conversations /\ Facts(u) \subseteq seen[u]
  /\ r.stage = "workspace" => r.endpoint \in Chats
  /\ r.stage \in {"workspace", "member", "body", "streaming"} => "active" \in seen[u]
  /\ r.stage \in {"member", "body", "streaming"} /\ r.endpoint \in Chats => "open" \in seen[u]
  /\ r.stage \in {"body", "streaming"} => "member" \in seen[u]
  /\ r.stage = "body" => r.scope = IF r.endpoint \in Filed
                                   THEN [workspace |-> r.workspace, user |-> u]
                                   ELSE r.workspace
  /\ r.stage = "streaming" => home[r.conversation] = r.workspace

Owned == \A c \in Conversations : home[c] # None => creator[c] \in Users

IInv == TypeOK /\ Owned /\ \A u \in Users : Told(u)

USE TenancyAssumption DEF TenancyAssumption
-----------------------------------------------------------------------------
\* Nobody has asked for anything.
LEMMA InitIInv == Init => IInv
<1> SUFFICES ASSUME Init PROVE IInv
  OBVIOUS
<1>1. Idle \in Request /\ Idle.stage = "done" /\ Idle.touched = {}
  BY DEF Idle, Request, Endpoints, Chats
<1>2. TypeOK
  BY <1>1 DEF Init, TypeOK
<1>3. \A u \in Users : Told(u)
  BY <1>1 DEF Init, Told
<1> QED BY <1>2, <1>3 DEF Init, Owned, IInv

\* A step of one request that changes nobody's rights: the others know what
\* they knew, since a conversation keeps its workspace.
LEMMA OneRequest ==
  ASSUME IInv, TypeOK', Owned', NEW u \in Users,
         UNCHANGED <<active, open, role, seen>>,
         \A v \in Users \ {u} : request'[v] = request[v],
         \A c \in Conversations : home[c] # None => home'[c] = home[c],
         Told(u)'
  PROVE  IInv'
<1>1. ASSUME NEW v \in Users, v # u PROVE Told(v)'
  <2>1. request'[v] = request[v] /\ request[v] \in Request /\ Told(v)
    BY <1>1 DEF IInv, TypeOK
  <2>2. Facts(v)' = Facts(v)
    BY <2>1 DEF Facts
  <2>3. request[v].stage = "streaming" => home'[request[v].conversation] = request[v].workspace
    BY <2>1 DEF Told, Request
  <2> QED BY <2>1, <2>2, <2>3 DEF Told
<1> QED BY <1>1 DEF IInv

\* A request that is answered, with rows of the workspace in its path or none.
Answered(u) ==
  \E status \in Nat, rows \in SUBSET {request[u].workspace} :
    /\ Reply(u, status, rows)
    /\ rows # {} => Needs(request[u].endpoint) \subseteq seen[u]

\* An answer touches nothing the request is not entitled to.
LEMMA AnsweredIInv ==
  ASSUME IInv, NEW u \in Users, Answered(u),
         UNCHANGED <<access, seen, home, creator, documents>>,
         bills' \subseteq [workspace : Workspaces, user : Users, conversation : Conversations]
  PROVE  IInv'
<1>1. request[u] \in Request /\ Told(u) /\ request \in [Users -> Request]
  BY DEF IInv, TypeOK
<1>2. PICK status \in Nat, rows \in SUBSET {request[u].workspace} :
        Reply(u, status, rows) /\ (rows # {} => Needs(request[u].endpoint) \subseteq seen[u])
  BY DEF Answered
<1>3. /\ request'[u] = [request[u] EXCEPT !.stage = "done", !.status = status,
                                          !.touched = @ \cup rows]
      /\ \A v \in Users \ {u} : request'[v] = request[v]
      /\ DOMAIN request' = Users /\ request' = [v \in Users |-> request'[v]]
  BY <1>1, <1>2 DEF Reply
<1>4. request'[u] \in Request
  <2>1. request[u].workspace \in Workspaces /\ request[u].touched \in SUBSET Workspaces
    BY <1>1 DEF Request
  <2>2. request[u].touched \cup rows \in SUBSET Workspaces
    BY <2>1
  <2>3. \A t \in SUBSET Workspaces :
          [request[u] EXCEPT !.stage = "done", !.status = status, !.touched = t] \in Request
    BY <1>1 DEF Request
  <2> QED BY <1>3, <2>2, <2>3
<1>5. request' \in [Users -> Request]
  BY <1>1, <1>3, <1>4
<1>6. TypeOK' /\ Owned'
  BY <1>5 DEF IInv, TypeOK, access, Owned
<1>7. Told(u)'
  BY <1>1, <1>2, <1>3 DEF Told, access, Request
<1> QED BY <1>3, <1>6, <1>7, OneRequest DEF access, IInv

\* A request that passes a check, once what it then knows is shown.
Passed(u) ==
  \E stage \in {"workspace", "member", "body"}, scope \in Workspaces \cup Memberships \cup {None} :
    Pass(u, stage, scope)

\* A passed check changes nothing but the request that made it.
LEMMA PassedIInv ==
  ASSUME IInv, NEW u \in Users, Passed(u), UNCHANGED <<access, tables, seen>>, Told(u)'
  PROVE  IInv'
<1>1. request[u] \in Request /\ request \in [Users -> Request]
  BY DEF IInv, TypeOK
<1>2. PICK stage \in {"workspace", "member", "body"},
           scope \in Workspaces \cup Memberships \cup {None} : Pass(u, stage, scope)
  BY DEF Passed
<1>3. /\ request'[u] = [request[u] EXCEPT !.stage = stage, !.scope = scope]
      /\ \A v \in Users \ {u} : request'[v] = request[v]
      /\ DOMAIN request' = Users /\ request' = [v \in Users |-> request'[v]]
  BY <1>1, <1>2 DEF Pass
<1>4. request'[u] \in Request
  BY <1>1, <1>3 DEF Request
<1>5. request' \in [Users -> Request]
  BY <1>1, <1>3, <1>4
<1>6. TypeOK' /\ Owned'
  BY <1>5 DEF IInv, TypeOK, access, tables, Owned
<1> QED BY <1>3, <1>6, OneRequest DEF access, tables, IInv

\* What a refusal and an answer of no rows have in common.
LEMMA Refused ==
  ASSUME NEW u \in Users, NEW status \in Nat, Reply(u, status, {})
  PROVE  Answered(u)
  BY DEF Answered

\* Each check was true at the moment it was made.
LEMMA ChecksIInv ==
  ASSUME IInv, NEW u \in Users, Authenticate(u) \/ OpenWorkspace(u) \/ Membership(u)
  PROVE  IInv'
<1> DEFINE r == request[u]
<1>1. r \in Request /\ Told(u) /\ request \in [Users -> Request] /\ bills' = bills
      /\ UNCHANGED <<access, tables, seen>>
  BY DEF IInv, TypeOK, Authenticate, OpenWorkspace, Membership, tables
<1>2. bills' \subseteq [workspace : Workspaces, user : Users, conversation : Conversations]
  BY <1>1 DEF IInv, TypeOK
<1>3. CASE Answered(u)
  BY <1>1, <1>2, <1>3, AnsweredIInv DEF tables
<1>4. Facts(u) \subseteq seen[u] \/ r.stage = "done"
  BY <1>1 DEF Told
<1>5. CASE Authenticate(u)
  <2>1. CASE u \in active
    <3>1. Pass(u, IF r.endpoint \in Chats THEN "workspace" ELSE "member", None) /\ r.stage = "auth"
      BY <1>5, <2>1 DEF Authenticate
    <3>2. /\ request'[u] = [r EXCEPT !.stage = IF r.endpoint \in Chats THEN "workspace"
                                              ELSE "member", !.scope = None]
          /\ Passed(u)
      BY <1>1, <3>1 DEF Pass, Passed
    <3>3. "active" \in seen[u]
      BY <1>4, <2>1, <3>1 DEF Facts
    <3>4. Told(u)'
      BY <1>1, <3>1, <3>2, <3>3 DEF Told, access, tables, Facts, Request
    <3> QED BY <1>1, <3>2, <3>4, PassedIInv
  <2> QED BY <1>3, <1>5, <2>1, Refused DEF Authenticate, Refusal
<1>6. CASE OpenWorkspace(u)
  <2>1. CASE r.workspace \in open
    <3>1. Pass(u, "member", None) /\ r.stage = "workspace"
      BY <1>6, <2>1 DEF OpenWorkspace
    <3>2. request'[u] = [r EXCEPT !.stage = "member", !.scope = None] /\ Passed(u)
      BY <1>1, <3>1 DEF Pass, Passed
    <3>3. "open" \in seen[u]
      BY <1>4, <2>1, <3>1 DEF Facts
    <3>4. Told(u)'
      BY <1>1, <3>1, <3>2, <3>3 DEF Told, access, tables, Facts, Request
    <3> QED BY <1>1, <3>2, <3>4, PassedIInv
  <2> QED BY <1>3, <1>6, <2>1, Refused DEF OpenWorkspace, Refusal
<1>7. CASE Membership(u)
  <2>1. CASE Holds(u, r.workspace, RolesFor(r.endpoint))
    <3> DEFINE scope == IF r.endpoint \in Filed THEN [workspace |-> r.workspace, user |-> u]
                        ELSE r.workspace
    <3>1. Pass(u, "body", scope) /\ r.stage = "member"
      BY <1>7, <2>1 DEF Membership, Filed
    <3>2. scope \in Workspaces \cup Memberships
      BY <1>1 DEF Request, Memberships
    <3>3. request'[u] = [r EXCEPT !.stage = "body", !.scope = scope] /\ Passed(u)
      BY <1>1, <3>1, <3>2 DEF Pass, Passed
    <3>4. "member" \in seen[u]
      BY <1>4, <2>1, <3>1 DEF Facts, Holds
    <3>5. Told(u)'
      BY <1>1, <3>1, <3>3, <3>4 DEF Told, access, tables, Facts, Request
    <3> QED BY <1>1, <3>3, <3>5, PassedIInv
  <2> QED BY <1>3, <1>7, <2>1, Refused DEF Membership, Refusal
<1> QED BY <1>5, <1>6, <1>7

\* At the endpoint all the checks have been passed.
LEMMA Entitled ==
  ASSUME IInv, NEW u \in Users, request[u].stage \in {"body", "streaming"}
  PROVE  Needs(request[u].endpoint) \subseteq seen[u]
  BY DEF IInv, Told, Needs

\* The endpoints that only read.
LEMMA ReadsIInv ==
  ASSUME IInv, NEW u \in Users,
         ReadConversation(u) \/ ListDocuments(u) \/ DownloadDocument(u) \/ UsageSummary(u)
  PROVE  IInv'
<1> DEFINE r == request[u]
<1>1. /\ r \in Request /\ Told(u) /\ UNCHANGED <<access, tables, seen>> /\ r.stage = "body"
      /\ bills' \subseteq [workspace : Workspaces, user : Users, conversation : Conversations]
      /\ Needs(r.endpoint) \subseteq seen[u]
  BY Entitled DEF IInv, TypeOK, ReadConversation, ListDocuments, DownloadDocument, UsageSummary,
                  At, tables
<1>2. r.scope = r.workspace \/ (r.endpoint \in Filed /\ r.scope \notin documents)
  <2>1. r.endpoint \in Filed => r.scope \in Memberships
    BY <1>1 DEF Told, Request, Memberships
  <2> QED BY <1>1, <2>1 DEF Told, IInv, TypeOK
<1>3. Answered(u)
  <2>1. CASE ReadConversation(u)
    <3>1. r.scope = r.workspace
      BY <1>1, <2>1 DEF Told, ReadConversation, At, Filed
    <3> QED BY <1>1, <2>1, <3>1 DEF ReadConversation, Inside, Answered, Refusal
  <2>2. CASE ListDocuments(u)
    <3>1. documents \cap {r.scope} \in SUBSET {r.workspace}
      BY <1>2
    <3> QED BY <1>1, <2>2, <3>1 DEF ListDocuments, Answered
  <2>3. CASE DownloadDocument(u)
    BY <1>1, <1>2, <2>3 DEF DownloadDocument, Answered, Refusal
  <2>4. CASE UsageSummary(u)
    <3>1. {b.workspace : b \in UsageOf(r.workspace)} \in SUBSET {r.workspace}
      BY DEF UsageOf
    <3> QED BY <1>1, <2>4, <3>1 DEF UsageSummary, Answered
  <2> QED BY <2>1, <2>2, <2>3, <2>4
<1> QED BY <1>1, <1>3, AnsweredIInv DEF tables

\* A document is refused for its foreign key: a membership is no workspace.
LEMMA UploadIInv ==
  ASSUME IInv, NEW u \in Users, UploadDocument(u)
  PROVE  IInv'
<1>1. /\ request[u] \in Request /\ Told(u) /\ request[u].stage = "body"
      /\ request[u].endpoint = "upload"
  BY DEF IInv, TypeOK, UploadDocument, At
<1>2. request[u].scope \in Memberships
  BY <1>1 DEF Told, Filed, Request, Memberships
<1>3. UNCHANGED <<access, tables, seen>> /\ Reply(u, 500, {})
  BY <1>2 DEF UploadDocument, Unhandled, tables
<1> QED BY <1>3, Refused, AnsweredIInv DEF tables, IInv, TypeOK

\* A conversation gets its workspace once, from the scope the checks gave.
LEMMA CreateIInv ==
  ASSUME IInv, NEW u \in Users, CreateConversation(u)
  PROVE  IInv'
<1> DEFINE r == request[u]
<1>1. /\ r \in Request /\ Told(u) /\ r.stage = "body" /\ r.endpoint = "create"
      /\ Needs(r.endpoint) \subseteq seen[u] /\ r.scope = r.workspace /\ r.workspace \in Workspaces
      /\ request \in [Users -> Request]
  <2>1. r \in Request /\ Told(u) /\ r.stage = "body" /\ r.endpoint = "create"
    BY DEF IInv, TypeOK, CreateConversation, At
  <2> QED BY <2>1, Entitled DEF Told, Filed, Request, IInv, TypeOK
<1>2. PICK c \in Conversations : /\ home[c] = None
                                 /\ home' = [home EXCEPT ![c] = r.scope]
                                 /\ creator' = [creator EXCEPT ![c] = u]
  BY DEF CreateConversation
<1>3. /\ UNCHANGED <<access, documents, bills, seen>>
      /\ home' \in [Conversations -> Workspaces \cup {None}]
      /\ creator' \in [Conversations -> Users \cup {None}]
      /\ \A d \in Conversations : home[d] # None => home'[d] = home[d]
  BY <1>1, <1>2 DEF CreateConversation, IInv, TypeOK
<1>4. Owned'
  BY <1>2, <1>3 DEF IInv, Owned, TypeOK
<1>5. /\ request'[u] = [r EXCEPT !.stage = "done", !.status = 201, !.touched = @ \cup {r.workspace}]
      /\ \A v \in Users \ {u} : request'[v] = request[v]
      /\ DOMAIN request' = Users /\ request' = [v \in Users |-> request'[v]]
  BY <1>1 DEF CreateConversation, Reply
<1>6. request'[u] \in Request
  <2>1. r.touched \cup {r.workspace} \in SUBSET Workspaces
    BY <1>1 DEF Request
  <2>2. \A t \in SUBSET Workspaces :
          [r EXCEPT !.stage = "done", !.status = 201, !.touched = t] \in Request
    BY <1>1 DEF Request
  <2> QED BY <1>5, <2>1, <2>2
<1>7. TypeOK'
  <2>1. request' \in [Users -> Request]
    BY <1>1, <1>5, <1>6
  <2> QED BY <1>3, <2>1 DEF IInv, TypeOK, access
<1>8. Told(u)'
  BY <1>1, <1>3, <1>5 DEF Told, access, Request
<1> QED BY <1>3, <1>4, <1>5, <1>7, <1>8, OneRequest DEF access

\* A stream begins in a conversation of its workspace, and its usage row goes
\* to the workspace of that conversation.
LEMMA StreamIInv ==
  ASSUME IInv, NEW u \in Users, Stream(u) \/ EndStream(u)
  PROVE  IInv'
<1> DEFINE r == request[u]
           c == r.conversation
<1>1. /\ r \in Request /\ Told(u) /\ request \in [Users -> Request]
      /\ r.stage \in {"body", "streaming"} /\ c \in Conversations
      /\ Needs(r.endpoint) \subseteq seen[u] /\ r.workspace \in Workspaces
  <2>1. r \in Request /\ Told(u) /\ r.stage \in {"body", "streaming"}
    BY DEF IInv, TypeOK, Stream, EndStream, At
  <2> QED BY <2>1, Entitled DEF Told, Request, IInv, TypeOK
<1>2. CASE Stream(u) /\ Inside(c, r.scope)
  <2>1. r.stage = "body" /\ home[c] = r.workspace /\ UNCHANGED <<access, tables, seen>>
    BY <1>1, <1>2 DEF Stream, At, Told, Filed, Inside
  <2>2. /\ request'[u] = [r EXCEPT !.stage = "streaming", !.status = 200, !.touched = {r.workspace}]
        /\ \A v \in Users \ {u} : request'[v] = request[v]
        /\ DOMAIN request' = Users /\ request' = [v \in Users |-> request'[v]]
    <3>1. request' = [request EXCEPT ![u].stage = "streaming", ![u].status = 200,
                                     ![u].touched = {home[c]}]
      BY <1>2 DEF Stream
    <3> QED BY <1>1, <2>1, <3>1
  <2>3. request'[u] \in Request
    <3>1. {r.workspace} \in SUBSET Workspaces
      BY <1>1
    <3>2. \A t \in SUBSET Workspaces :
            [r EXCEPT !.stage = "streaming", !.status = 200, !.touched = t] \in Request
      BY <1>1 DEF Request
    <3> QED BY <2>2, <3>1, <3>2
  <2>4. request' \in [Users -> Request]
    BY <1>1, <2>2, <2>3
  <2>5. TypeOK' /\ Owned'
    BY <2>1, <2>4 DEF IInv, TypeOK, access, tables, Owned
  <2>6. Told(u)'
    BY <1>1, <2>1, <2>2 DEF Told, access, tables, Facts, Request
  <2> QED BY <2>1, <2>2, <2>5, <2>6, OneRequest DEF access, tables
<1>3. CASE Stream(u) /\ ~Inside(c, r.scope)
  <2>1. UNCHANGED <<access, tables, seen>> /\ Reply(u, 404, {})
    BY <1>3 DEF Stream, Refusal
  <2> QED BY <2>1, Refused, AnsweredIInv DEF tables, IInv, TypeOK
<1>4. CASE EndStream(u)
  <2>1. r.stage = "streaming" /\ home[c] = r.workspace /\ UNCHANGED <<access, home, creator, documents, seen>>
    BY <1>1, <1>4 DEF EndStream, Told
  <2>2. creator[c] \in Users
    BY <1>1, <2>1 DEF IInv, Owned
  <2>3. /\ Answered(u)
        /\ bills' \subseteq [workspace : Workspaces, user : Users, conversation : Conversations]
    BY <1>1, <1>4, <2>1, <2>2 DEF EndStream, UsageRecord, Answered, IInv, TypeOK
  <2> QED BY <2>1, <2>3, AnsweredIInv
<1> QED BY <1>2, <1>3, <1>4

\* A request that comes in knows what is true at that moment.
LEMMA SendIInv ==
  ASSUME IInv, NEW u \in Users, NEW e \in Endpoints, NEW w \in Workspaces,
         NEW c \in Conversations, Send(u, e, w, c)
  PROVE  IInv'
<1>1. /\ request \in [Users -> Request] /\ seen \in [Users -> SUBSET {"active", "open", "member"}]
      /\ UNCHANGED <<access, tables>>
  BY DEF IInv, TypeOK, Send
<1>2. /\ request'[u].stage = "auth" /\ request'[u].conversation = c /\ request'[u].touched = {}
      /\ request'[u] \in Request /\ \A v \in Users \ {u} : request'[v] = request[v]
      /\ DOMAIN request' = Users /\ request' = [v \in Users |-> request'[v]]
  BY <1>1 DEF Send, Idle, Request, Endpoints, Chats
<1>3. Facts(u)' \subseteq {"active", "open", "member"}
  BY DEF Facts
<1>4. /\ seen'[u] = Facts(u)' /\ \A v \in Users \ {u} : seen'[v] = seen[v]
      /\ seen' \in [Users -> SUBSET {"active", "open", "member"}]
  BY <1>1, <1>3 DEF Send
<1>5. TypeOK' /\ Owned'
  <2>1. request' \in [Users -> Request]
    BY <1>1, <1>2
  <2> QED BY <1>1, <1>4, <2>1 DEF IInv, TypeOK, access, tables, Owned
<1>6. ASSUME NEW v \in Users PROVE Told(v)'
  <2>1. CASE v = u
    BY <1>2, <1>4, <2>1 DEF Told
  <2>2. CASE v # u
    <3>1. request'[v] = request[v] /\ seen'[v] = seen[v] /\ Told(v) /\ home' = home
      BY <1>1, <1>2, <1>4, <2>2 DEF IInv, tables
    <3>2. Facts(v)' = Facts(v)
      BY <1>1, <3>1 DEF Facts, access
    <3> QED BY <3>1, <3>2 DEF Told
  <2> QED BY <2>1, <2>2
<1> QED BY <1>5, <1>6 DEF IInv

\* Whatever operators change, every request has seen it.
LEMMA AdministerIInv == IInv /\ Administer => IInv'
<1> SUFFICES ASSUME IInv, Administer PROVE IInv'
  OBVIOUS
<1>1. /\ UNCHANGED <<tables, request>> /\ changes' \in 0..MaxChanges
      /\ active' \subseteq Users /\ open' \subseteq Workspaces
      /\ role' \in [Workspaces -> [Users -> Roles \cup {None}]]
  <2>1. UNCHANGED <<tables, request>> /\ changes' \in 0..MaxChanges
    BY DEF Administer, IInv, TypeOK
  <2>2. active' \subseteq Users /\ open' \subseteq Workspaces
    BY DEF Administer, IInv, TypeOK
  <2>3. role' \in [Workspaces -> [Users -> Roles \cup {None}]]
    <3>1. ASSUME NEW w \in Workspaces, NEW u \in Users, NEW new \in Roles \cup {None},
                 role' = [role EXCEPT ![w][u] = new]
          PROVE  role' \in [Workspaces -> [Users -> Roles \cup {None}]]
      <4>1. role \in [Workspaces -> [Users -> Roles \cup {None}]]
        BY DEF IInv, TypeOK
      <4>2. [role[w] EXCEPT ![u] = new] \in [Users -> Roles \cup {None}]
        BY <4>1
      <4> QED BY <3>1, <4>1, <4>2
    <3> QED BY <3>1 DEF Administer, IInv, TypeOK
  <2> QED BY <2>1, <2>2, <2>3
<1>2. \A u \in Users : Facts(u)' \subseteq {"active", "open", "member"}
  BY DEF Facts
<1>3. /\ seen' \in [Users -> SUBSET {"active", "open", "member"}]
      /\ \A u \in Users : seen[u] \subseteq seen'[u] /\ Facts(u)' \subseteq seen'[u]
  BY <1>2 DEF Administer, IInv, TypeOK
<1>4. TypeOK' /\ Owned'
  BY <1>1, <1>3 DEF IInv, TypeOK, tables, Owned
<1>5. ASSUME NEW u \in Users PROVE Told(u)'
  BY <1>1, <1>3 DEF IInv, Told, tables
<1> QED BY <1>4, <1>5 DEF IInv

\* The invariant holds in every reachable state.
THEOREM Inductive == Spec => []IInv
<1>1. IInv /\ [Next]_vars => IInv'
  <2> SUFFICES ASSUME IInv, [Next]_vars PROVE IInv'
    OBVIOUS
  <2>1. ASSUME NEW u \in Users, Serve(u) PROVE IInv'
    BY <2>1, ChecksIInv, ReadsIInv, UploadIInv, CreateIInv, StreamIInv DEF Serve
  <2>2. CASE UNCHANGED vars
    BY <2>2 DEF vars, access, tables, IInv, TypeOK, Owned, Told, Facts
  <2> QED BY <2>1, <2>2, SendIInv, AdministerIInv DEF Next
<1> QED BY InitIInv, <1>1, PTL DEF Spec

\* Rows and requests have their types: no document is filed under a membership.
THEOREM TypeCorrect == Spec => []TypeOK
  BY Inductive, PTL DEF IInv

\* No request touches a row of a workspace other than the one in its path.
THEOREM Scoped == Spec => []InsideNamedWorkspace
<1>1. IInv => InsideNamedWorkspace
  BY DEF IInv, Told, InsideNamedWorkspace
<1> QED BY <1>1, Inductive, PTL

\* No row is touched for somebody who never had the rights for it.
THEOREM Rights == Spec => []ServedWereEntitled
<1>1. IInv => ServedWereEntitled
  BY DEF IInv, Told, ServedWereEntitled
<1> QED BY <1>1, Inductive, PTL
=============================================================================
