------------------------------ MODULE Tenancy ------------------------------
(***************************************************************************)
(* The endpoints below /workspaces/{workspace_id}: conversations,          *)
(* documents and usage (api/v1), and the checks in front of them           *)
(* (api/deps.py), over the tables of db/models.py.  Each check is a query  *)
(* of its own, and so is the endpoint's; memberships, roles and the        *)
(* is_active flags may change between any two of them.  A stream passes    *)
(* the checks at its start and writes its usage row at its end.            *)
(***************************************************************************)
EXTENDS Integers, Errors

CONSTANTS
  Users,          \* each has one request under way at a time
  Workspaces,
  Conversations,  \* ids of conversations that may be created
  None,           \* no role, no workspace, nobody
  FirstRoles,     \* the memberships at the start
  MaxChanges      \* bound: changes of flags and memberships

Roles == {"owner", "admin", "member", "viewer"}

\* The rows of workspace_members; their ids are not those of workspaces.
Memberships == [workspace : Workspaces, user : Users]

ASSUME TenancyAssumption ==
  /\ Workspaces # {}
  /\ None \notin Workspaces \cup Users \cup Roles
  /\ Memberships \cap Workspaces = {}
  /\ FirstRoles \in [Workspaces -> [Users -> Roles \cup {None}]]
  /\ MaxChanges \in Nat

VARIABLES
  active,     \* users whose is_active is set
  open,       \* workspaces whose is_active is set
  role,       \* WorkspaceMember.role, None without a row
  home,       \* Conversation.workspace_id, None without a row
  creator,    \* Conversation.created_by
  documents,  \* values of Document.workspace_id in the table
  bills,      \* rows of usage_records
  request,    \* the request of each user: endpoint, path and progress
  changes,    \* changes so far
  seen        \* history: what has been true at some time of the request

tables == <<home, creator, documents, bills>>
access == <<active, open, role, changes>>
vars   == <<access, tables, request, seen>>

Chats     == {"create", "read", "stream"}
Endpoints == Chats \cup {"upload", "list", "download", "summary"}

-----------------------------------------------------------------------------
\* The roles each endpoint asks for.
RolesFor(endpoint) ==
  CASE endpoint \in {"upload", "list"} -> {"owner", "admin", "member"}
    [] endpoint = "download"           -> {"viewer", "member", "admin"}
    [] OTHER                           -> Roles

Needs(endpoint) == {"active", "member"} \cup IF endpoint \in Chats THEN {"open"} ELSE {}

\* What is true of user u's request now.
Facts(u) ==
  LET r == request[u] IN
  (IF u \in active THEN {"active"} ELSE {})
    \cup (IF r.workspace \in open THEN {"open"} ELSE {})
    \cup (IF role[r.workspace][u] \in RolesFor(r.endpoint) THEN {"member"} ELSE {})
-----------------------------------------------------------------------------
Idle == [stage |-> "done", endpoint |-> "read", workspace |-> CHOOSE w \in Workspaces : TRUE,
         conversation |-> None, scope |-> None, status |-> 0, touched |-> {}]

Init ==
  /\ active = Users /\ open = Workspaces /\ role = FirstRoles /\ changes = 0
  /\ home = [c \in Conversations |-> None] /\ creator = [c \in Conversations |-> None]
  /\ documents = {} /\ bills = {}
  /\ request = [u \in Users |-> Idle]
  /\ seen = [u \in Users |-> {}]

\* A request comes in, for any endpoint, workspace and conversation.
Send(u, e, w, c) ==
  /\ request[u].stage = "done"
  /\ request' = [request EXCEPT ![u] = [Idle EXCEPT !.stage = "auth", !.endpoint = e,
                                        !.workspace = w, !.conversation = c]]
  /\ UNCHANGED <<access, tables>>
  /\ seen' = [seen EXCEPT ![u] = Facts(u)']

Pass(u, stage, scope) ==
  request' = [request EXCEPT ![u].stage = stage, ![u].scope = scope]
Reply(u, status, touched) ==
  request' = [request EXCEPT ![u].stage = "done", ![u].status = status,
                             ![u].touched = @ \cup touched]

\* get_current_user, with a good token: the account must be active.
Authenticate(u) ==
  /\ request[u].stage = "auth"
  /\ IF u \notin active
     THEN Reply(u, Refusal.AuthorizationError, {})
     ELSE Pass(u, IF request[u].endpoint \in Chats THEN "workspace" ELSE "member", None)
  /\ UNCHANGED <<access, tables, seen>>

\* get_workspace, its first query: the workspace must be active.
OpenWorkspace(u) ==
  /\ request[u].stage = "workspace"
  /\ IF request[u].workspace \notin open
     THEN Reply(u, Refusal.PermissionDeniedError, {})
     ELSE Pass(u, "member", None)
  /\ UNCHANGED <<access, tables, seen>>

\* Mutant of Holds: any member of the workspace will do.
HoldsAnybody(u, w, roles) == \E v \in Users : role[w][v] \in roles
\* Whether user u has a membership in w, with one of the roles.
Holds(u, w, roles) == role[w][u] \in roles

\* get_workspace, require_role and usage_summary: the membership.  What they
\* hand on to the endpoint is the workspace, or the membership itself.
Membership(u) ==
  LET r == request[u] IN
  /\ r.stage = "member"
  /\ IF ~Holds(u, r.workspace, RolesFor(r.endpoint))
     THEN Reply(u, Refusal.PermissionDeniedError, {})
     ELSE Pass(u, "body", IF r.endpoint \in {"upload", "list", "download"}
                          THEN [workspace |-> r.workspace, user |-> u]
                          ELSE r.workspace)
  /\ UNCHANGED <<access, tables, seen>>

At(u, endpoint) == request[u].stage = "body" /\ request[u].endpoint = endpoint

CreateConversation(u) ==
  /\ At(u, "create")
  /\ \E c \in Conversations :
       /\ home[c] = None
       /\ home' = [home EXCEPT ![c] = request[u].scope]
       /\ creator' = [creator EXCEPT ![c] = u]
  /\ Reply(u, 201, {request[u].scope})
  /\ UNCHANGED <<access, documents, bills, seen>>

\* Mutant of Inside: a conversation is looked up by its id alone.
InsideAny(c, scope) == home[c] # None
\* conv is not None and conv.workspace_id == workspace.id
Inside(c, scope) == home[c] # None /\ home[c] = scope

\* get_conversation and list_messages
ReadConversation(u) ==
  LET r == request[u] IN
  /\ At(u, "read")
  /\ IF Inside(r.conversation, r.scope)
     THEN Reply(u, 200, {home[r.conversation]})
     ELSE Reply(u, Refusal.NotFoundError, {})
  /\ UNCHANGED <<access, tables, seen>>

\* stream_message: the message is committed and the stream begins ...
Stream(u) ==
  LET r == request[u] IN
  /\ At(u, "stream")
  /\ IF Inside(r.conversation, r.scope)
     THEN request' = [request EXCEPT ![u].stage = "streaming", ![u].status = 200,
                                     ![u].touched = {home[r.conversation]}]
     ELSE Reply(u, Refusal.NotFoundError, {})
  /\ UNCHANGED <<access, tables, seen>>

\* The usage row of a turn in conversation c.
UsageRecord(c) == [workspace |-> home[c], user |-> creator[c], conversation |-> c]

\* ... and at its end the usage row takes its workspace and its user from the
\* conversation, without another check; or the stream fails and leaves none.
EndStream(u) ==
  LET c == request[u].conversation IN
  /\ request[u].stage = "streaming"
  /\ \/ /\ bills' = bills \cup {UsageRecord(c)}
        /\ Reply(u, 200, {home[c]})
     \/ Reply(u, 200, {}) /\ UNCHANGED bills
  /\ UNCHANGED <<access, home, creator, documents, seen>>

\* Mutant of UploadDocument: the table takes any id for a workspace's.
UploadAnyId(u) ==
  LET id == request[u].scope IN
  /\ At(u, "upload")
  /\ documents' = documents \cup {id}
  /\ Reply(u, 202, {})
  /\ UNCHANGED <<access, home, creator, bills, seen>>
\* The row refers to a workspace by foreign key.
UploadDocument(u) ==
  LET id == request[u].scope IN
  /\ At(u, "upload")
  /\ IF id \in Workspaces
     THEN documents' = documents \cup {id} /\ Reply(u, 202, {id})
     ELSE UNCHANGED documents /\ Reply(u, Unhandled, {})
  /\ UNCHANGED <<access, home, creator, bills, seen>>

ListDocuments(u) ==
  /\ At(u, "list")
  /\ Reply(u, 200, documents \cap {request[u].scope})
  /\ UNCHANGED <<access, tables, seen>>

\* Of a document by its id, whichever workspace it is in.
DownloadDocument(u) ==
  /\ At(u, "download")
  /\ IF request[u].scope \in documents
     THEN Reply(u, 200, {request[u].scope})
     ELSE Reply(u, Refusal.NotFoundError, {})
  /\ UNCHANGED <<access, tables, seen>>

UsageOf(w) == {b \in bills : b.workspace = w}
UsageSummary(u) ==
  /\ At(u, "summary")
  /\ Reply(u, 200, {b.workspace : b \in UsageOf(request[u].workspace)})
  /\ UNCHANGED <<access, tables, seen>>

\* Operators change flags, memberships and roles; no endpoint does.
Administer ==
  /\ changes < MaxChanges
  /\ changes' = changes + 1
  /\ \/ \E u \in Users :
          /\ active' = IF u \in active THEN active \ {u} ELSE active \cup {u}
          /\ UNCHANGED <<open, role>>
     \/ \E w \in Workspaces :
          /\ open' = IF w \in open THEN open \ {w} ELSE open \cup {w}
          /\ UNCHANGED <<active, role>>
     \/ \E w \in Workspaces, u \in Users, new \in Roles \cup {None} :
          /\ new # role[w][u]
          /\ role' = [role EXCEPT ![w][u] = new]
          /\ UNCHANGED <<active, open>>
  /\ UNCHANGED <<tables, request>>
  /\ seen' = [u \in Users |-> seen[u] \cup Facts(u)']

Serve(u) ==
  \/ Authenticate(u) \/ OpenWorkspace(u) \/ Membership(u)
  \/ CreateConversation(u) \/ ReadConversation(u) \/ Stream(u) \/ EndStream(u)
  \/ UploadDocument(u) \/ ListDocuments(u) \/ DownloadDocument(u) \/ UsageSummary(u)

Next ==
  \/ \E u \in Users :
       \/ \E e \in Endpoints, w \in Workspaces, c \in Conversations : Send(u, e, w, c)
       \/ Serve(u)
  \/ Administer

Spec == Init /\ [][Next]_vars
-----------------------------------------------------------------------------
Request ==
  [stage : {"auth", "workspace", "member", "body", "streaming", "done"},
   endpoint : Endpoints, workspace : Workspaces, conversation : Conversations \cup {None},
   scope : Workspaces \cup Memberships \cup {None}, status : Nat,
   touched : SUBSET Workspaces]

TypeOK ==
  /\ active \subseteq Users /\ open \subseteq Workspaces
  /\ role \in [Workspaces -> [Users -> Roles \cup {None}]]
  /\ home \in [Conversations -> Workspaces \cup {None}]
  /\ creator \in [Conversations -> Users \cup {None}]
  /\ documents \subseteq Workspaces
  /\ bills \subseteq [workspace : Workspaces, user : Users, conversation : Conversations]
  /\ request \in [Users -> Request]
  /\ changes \in 0..MaxChanges
  /\ seen \in [Users -> SUBSET {"active", "open", "member"}]

\* A request reads and writes rows of the workspace in its path only, its
\* stream's usage row included ("row scope workspace_id in every query",
\* docs/12-security.md:48).
InsideNamedWorkspace ==
  \A u \in Users : request[u].touched \subseteq {request[u].workspace}

\* Rows were read or written only for someone who, at some time since the
\* request came in, had an active account, a membership with a role the
\* endpoint asks for and, for a conversation, an active workspace.
ServedWereEntitled ==
  \A u \in Users : request[u].touched # {} => Needs(request[u].endpoint) \subseteq seen[u]
-----------------------------------------------------------------------------
\* docs/10-rest-api.md:31, "upload -> 202 | member": an upload that passed its
\* checks is accepted.
UploadAccepted ==
  \A u \in Users :
    request[u].endpoint = "upload" /\ request[u].stage = "done" =>
      request[u].status \in {202, Refusal.AuthorizationError, Refusal.PermissionDeniedError}
=============================================================================
