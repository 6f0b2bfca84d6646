------------------------------ MODULE Membership ------------------------------
(***************************************************************************)
(* Workspaces, their members and what they contain: the authorization       *)
(* policy (server/auth/authorization.py), the repository boundary that      *)
(* applies it (server/auth/scoped.py) and the document registry             *)
(* (server/workspaces.py).  A request is authorized, and looks at the       *)
(* workspace, in transactions of their own before the one that writes.      *)
(***************************************************************************)
EXTENDS Naturals, FiniteSets

CONSTANTS
    Members,        \* users with an account
    Workspaces,     \* ids, in the order of use
    Requests,       \* requests in flight after their authorization
    Files,          \* fingerprints of documents
    MaxDocuments,   \* WORKSPACE_MAX_DOCUMENTS
    ForeignKeys     \* sessions reference workspaces (PostgreSQL), or not (SQLite)

ASSUME MembershipAssumption ==
    MaxDocuments \in Nat /\ ForeignKeys \in BOOLEAN

VARIABLES
    active,     \* users.status is ACTIVE
    workspace,  \* table workspaces: its row, or why there is none; legacy: made
                \* before there were accounts
    role,       \* table workspace_memberships
    documents,  \* table workspace_documents
    sessions,   \* table sessions: the creators of a workspace's sessions
    request     \* an authorized request, before it writes

membershipVars == <<active, workspace, role, documents, sessions, request>>

Roles == {"OWNER", "EDITOR", "VIEWER"}

NoRequest == [pc |-> "idle"]

RequestState ==
    {NoRequest} \union
    [pc : {"session", "document", "indexed", "remove", "delete", "emptied"}, by : Members, ws : Workspaces,
     file : Files]

MembershipTypeOK ==
    /\ active \in SUBSET Members
    /\ workspace \in [Workspaces -> {"none", "legacy", "open", "deleted"}]
    /\ role \in [Workspaces -> [Members -> Roles \union {"none"}]]
    /\ documents \in [Workspaces -> SUBSET Files]
    /\ sessions \in [Workspaces -> SUBSET (Members \union {"nobody"})]
    /\ request \in [Requests -> RequestState]

NoRoles == [u \in Members |-> "none"]

MembershipInit ==
    /\ active = Members
    /\ workspace \in [Workspaces -> {"none", "legacy"}]
    /\ role = [w \in Workspaces |-> NoRoles]
    /\ documents = [w \in Workspaces |-> {}]
    /\ sessions \in [Workspaces -> {{}, {"nobody"}}]
    /\ \A w \in Workspaces : workspace[w] = "none" => sessions[w] = {}
    /\ request = [r \in Requests |-> NoRequest]

Exists(w) == workspace[w] \in {"legacy", "open"}

-----------------------------------------------------------------------------
(* The policy: AuthorizationService.role, ROLE_MATRIX and allowed.          *)

ReadActions ==
    {"workspace.read", "document.read", "dataset.read", "artifact.read", "memory.read",
     "external.read", "session.create", "session.read", "task.read", "task.create",
     "task.execute", "task.cancel"}

EditorActions ==
    ReadActions \union {"document.create", "document.delete", "dataset.create",
                        "dataset.delete", "memory.write", "analysis.execute"}

OwnerActions ==
    EditorActions \union {"workspace.update", "workspace.delete",
                          "workspace.members.manage", "external.write"}

RoleMatrix == [OWNER |-> OwnerActions, EDITOR |-> EditorActions, VIEWER |-> ReadActions]

RoleOf(u, w) == IF u \in active THEN role[w][u] ELSE "none"

IsAllowed(u, r, action, creator) ==
    /\ r \in Roles /\ action \in RoleMatrix[r]
    /\ action = "session.read" => creator = u
    /\ action = "task.read" /\ r = "VIEWER" => creator = u
    /\ action \in {"task.execute", "task.cancel"} /\ r # "OWNER" => creator = u

Authorizes(u, action, w, creator) == IsAllowed(u, RoleOf(u, w), action, creator)

-----------------------------------------------------------------------------
(* Workspaces and members; the writes of each are one transaction.          *)

CreateWorkspace(u, w) ==
    /\ u \in active /\ workspace[w] = "none"
    /\ workspace' = [workspace EXCEPT ![w] = "open"]
    /\ role' = [role EXCEPT ![w] = [NoRoles EXCEPT ![u] = "OWNER"]]
    /\ UNCHANGED <<active, documents, sessions, request>>

\* The operator's command, given when no legacy task is active: every workspace
\* of nobody, with its sessions, is u's.
AssignLegacy(u) ==
    LET ids == {w \in Workspaces : workspace[w] = "legacy" /\ role[w] = NoRoles}
    IN  /\ ids # {}
        /\ workspace' = [w \in Workspaces |-> IF w \in ids THEN "open" ELSE workspace[w]]
        /\ role' = [w \in Workspaces |-> IF w \in ids THEN [NoRoles EXCEPT ![u] = "OWNER"]
                                         ELSE role[w]]
        /\ sessions' = [w \in Workspaces |->
                          IF w \in ids /\ "nobody" \in sessions[w]
                          THEN (sessions[w] \ {"nobody"}) \union {u} ELSE sessions[w]]
        /\ UNCHANGED <<active, documents, request>>

Owners(w) == {u \in Members : role[w][u] = "OWNER"}

KeepsAnOwnerOnRemoval(w, u, to) ==    \* mutant: only a removal is counted
    role[w][u] = "OWNER" /\ to = "none" => Cardinality(Owners(w)) > 1

KeepsAnOwner(w, u, to) ==
    role[w][u] = "OWNER" /\ to # "OWNER" => Cardinality(Owners(w)) > 1

\* add, role change (to a role) and removal (to "none") of a member.
ChangeMember(by, w, u, to) ==
    /\ RoleOf(by, w) = "OWNER"
    /\ KeepsAnOwner(w, u, to)
    /\ to = "none" => role[w][u] # "none"
    /\ role' = [role EXCEPT ![w][u] = to]
    /\ UNCHANGED <<active, workspace, documents, sessions, request>>

SetActive(u) ==
    /\ active' \in {active \union {u}, active \ {u}}
    /\ UNCHANGED <<workspace, role, documents, sessions, request>>

-----------------------------------------------------------------------------
(* Requests: authorized, then carried out.                                  *)

ActionOf(kind) ==
    CASE kind = "session" -> "session.create" [] kind = "document" -> "document.create"
      [] kind = "remove"  -> "document.delete" [] OTHER -> "workspace.delete"

\* authorize, and workspaces.get for all but a deletion.
Begin(r, kind, u, w, f) ==
    /\ request[r] = NoRequest
    /\ Authorizes(u, ActionOf(kind), w, u)
    /\ kind # "delete" => Exists(w)
    /\ request' = [request EXCEPT ![r] = [pc |-> kind, by |-> u, ws |-> w, file |-> f]]
    /\ UNCHANGED <<active, workspace, role, documents, sessions>>

\* A refusal or a missing row is answered, and the request is over.
Answer(r) == request' = [request EXCEPT ![r] = NoRequest]

\* A foreign key, where there is one, refuses a session whose workspace is gone.
CreateSession(r) ==
    /\ request[r].pc = "session"
    /\ Answer(r)
    /\ LET u == request[r].by
           w == request[r].ws
       IN  sessions' = IF ForeignKeys /\ ~Exists(w) THEN sessions
                       ELSE [sessions EXCEPT ![w] = @ \union {u}]
    /\ UNCHANGED <<active, workspace, role, documents>>

Registers(w, f) ==
    /\ Exists(w)
    /\ f \notin documents[w] /\ Cardinality(documents[w]) < MaxDocuments

\* The PDF has been indexed; the boundary authorizes its registration anew.
AuthorizeAgain(r) ==
    /\ request[r].pc = "document"
    /\ IF Authorizes(request[r].by, "document.create", request[r].ws, request[r].by)
       THEN request' = [request EXCEPT ![r].pc = "indexed"]
       ELSE Answer(r)
    /\ UNCHANGED <<active, workspace, role, documents, sessions>>

\* register looks for the workspace in its transaction, keeps an existing record
\* and refuses one above the limit.
RegisterDocument(r) ==
    /\ request[r].pc = "indexed"
    /\ Answer(r)
    /\ LET w == request[r].ws
           f == request[r].file
       IN  documents' = IF Registers(w, f) THEN [documents EXCEPT ![w] = @ \union {f}]
                        ELSE documents
    /\ UNCHANGED <<active, workspace, role, sessions>>

DeleteDocument(r) ==
    /\ request[r].pc = "remove"
    /\ Answer(r)
    /\ documents' = [documents EXCEPT ![request[r].ws] = @ \ {request[r].file}]
    /\ UNCHANGED <<active, workspace, role, sessions>>

\* The search for retained resources comes before BEGIN IMMEDIATE.
CheckEmpty(r) ==
    /\ request[r].pc = "delete"
    /\ IF sessions[request[r].ws] = {}
       THEN request' = [request EXCEPT ![r].pc = "emptied"]
       ELSE Answer(r)
    /\ UNCHANGED <<active, workspace, role, documents, sessions>>

\* Members, documents, then the workspace; a foreign key undoes all three.
DeleteWorkspace(r) ==
    /\ request[r].pc = "emptied"
    /\ Answer(r)
    /\ LET w == request[r].ws
       IN  IF ForeignKeys /\ sessions[w] # {}
           THEN UNCHANGED <<workspace, role, documents>>
           ELSE /\ workspace' = [workspace EXCEPT ![w] = "deleted"]
                /\ role' = [role EXCEPT ![w] = NoRoles]
                /\ documents' = [documents EXCEPT ![w] = {}]
    /\ UNCHANGED <<active, sessions>>

MembershipNext ==
    \/ \E u \in Members : AssignLegacy(u) \/ SetActive(u)
    \/ \E u \in Members, w \in Workspaces :
          \/ CreateWorkspace(u, w)
          \/ \E by \in Members, to \in Roles \union {"none"} : ChangeMember(by, w, u, to)
          \/ \E r \in Requests, kind \in {"session", "document", "remove", "delete"},
                f \in Files : Begin(r, kind, u, w, f)
    \/ \E r \in Requests :
          \/ CreateSession(r) \/ AuthorizeAgain(r) \/ RegisterDocument(r)
          \/ DeleteDocument(r) \/ CheckEmpty(r) \/ DeleteWorkspace(r)

MembershipSpec == MembershipInit /\ [][MembershipNext]_membershipVars

-----------------------------------------------------------------------------
(* Properties.                                                              *)

\* A workspace that has been owned keeps a member who is its OWNER, through
\* additions, demotions, removals and deletions (authorization.py change_member).
OwnersRemain == \A w \in Workspaces : workspace[w] = "open" => Owners(w) # {}

\* A document belongs to a workspace that exists, within its limit, though the
\* workspace may go while the document is being indexed (workspaces.py register).
DocumentsHaveWorkspaces ==
    \A w \in Workspaces :
        documents[w] # {} => /\ Exists(w)
                             /\ Cardinality(documents[w]) <= MaxDocuments

\* What requests that were authorized before the rows changed leave behind:
\* nobody is locked out of a workspace and no document outlives one.
MembershipSound == OwnersRemain /\ DocumentsHaveWorkspaces
=============================================================================
