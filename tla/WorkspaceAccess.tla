--------------------------- MODULE WorkspaceAccess ---------------------------
(***************************************************************************)
(* Who may do what in a workspace: memberships and their roles             *)
(* (apps/api/routes/workspaces.py, packages/security/rbac.py), the checks  *)
(* every route makes first (apps/api/dependencies.py), row-level security, *)
(* the deletion of documents and the search for evidence                   *)
(* (packages/rag/repository.py).                                           *)
(*                                                                         *)
(* A request is one transaction at READ COMMITTED.  Its reads take no      *)
(* locks, so the roles it acts on may change before its write; the write   *)
(* locks its row until the commit and is one step with it.  A refused      *)
(* request changes nothing.  A slot of Request handles one request after   *)
(* the other.                                                              *)
(***************************************************************************)
EXTENDS Integers, FiniteSets

CONSTANTS
    Request,      \* the requests that can be handled at a time
    User,         \* registered users
    Workspace,    \* workspaces, by their unique slug
    Document,     \* documents
    Home,         \* Home[d]: the workspace of document d
    Founding,     \* the memberships that exist already
    MaxMember,    \* bound: membership rows, removed ones included
    MaxVersion,   \* bound: versions per document
    None

Role == {"owner", "admin", "agent", "viewer"}
Membership == [id : 1 .. MaxMember, workspace : Workspace, user : User, role : Role]

\* One membership per user and workspace, one owner per workspace.
Regular(ms) ==
    /\ \A m, n \in ms : m.id = n.id \/ (m.workspace = n.workspace /\ m.user = n.user) => m = n
    /\ \A m, n \in ms : m.role = "owner" /\ n.role = "owner" /\ m.workspace = n.workspace
                             => m = n
    /\ \A m \in ms : \E n \in ms : n.workspace = m.workspace /\ n.role = "owner"

ASSUME AccessAssumption ==
    /\ MaxMember \in Nat
    /\ MaxVersion \in Nat
    /\ Home \in [Document -> Workspace]
    /\ Founding \subseteq Membership /\ IsFiniteSet(Founding)
    /\ Regular(Founding)
    /\ \A m \in Founding : m.id <= Cardinality(Founding)
    /\ Cardinality(Founding) <= MaxMember
    /\ None \notin Role \cup Membership

VARIABLES
    workspaces,   \* the workspaces that were created
    members,      \* the membership rows
    rows,         \* how many membership rows were ever inserted
    active,       \* active[d]: the version d serves, 0 for none
    deleted,      \* deleted[d]: deleted_at is set
    chunks,       \* the <<document, version>> whose chunks are indexed
    pc,           \* pc[r]: where the handler of r is
    op,           \* op[r]: its route, actor (principal) and workspace
    acting,       \* acting[r]: the role the actor was found to have
    target,       \* target[r]: the membership row that was loaded
    evidence,     \* evidence[r]: the <<document, version>> a search has found
    standing,     \* observer: the actor's membership of that workspace when r was admitted
    shown         \* observer: the versions that were served since then

memberVars == <<workspaces, members, rows>>
documentVars == <<active, deleted, chunks>>
handlerVars == <<pc, op, acting, target, evidence>>
observerVars == <<standing, shown>>
accessVars == <<memberVars, documentVars, handlerVars, observerVars>>

Managers == {"owner", "admin"}

\* The roles a route admits: WorkspaceManagerAccess and AnyWorkspaceAccess.
Kind == {"add", "change", "remove", "erase", "search"}
Admitted(kind) == IF kind = "search" THEN Role ELSE Managers
Stage == {"idle", "granted", "loaded", "searching", "answered"}
NoOp == [kind |-> None, actor |-> None, workspace |-> None]

Serving == {c \in Document \X (1 .. MaxVersion) : active[c[1]] = c[2]}
Busy(r) == pc[r] # "idle"

AccessInit ==
    /\ workspaces = {m.workspace : m \in Founding}
    /\ members = Founding
    /\ rows = Cardinality(Founding)
    /\ active = [d \in Document |-> 0]
    /\ deleted = [d \in Document |-> FALSE]
    /\ chunks = {}
    /\ pc = [r \in Request |-> "idle"]
    /\ op = [r \in Request |-> NoOp]
    /\ acting = [r \in Request |-> None]
    /\ target = [r \in Request |-> None]
    /\ evidence = [r \in Request |-> {}]
    /\ standing = [r \in Request |-> {}]
    /\ shown = [r \in Request |-> {}]

---------------------------------------------------------------------------
(* Decisions. *)

\* can_manage_role.
CanManageMutant(actor, role) ==   \* admins manage everybody but admins
    actor = "owner" \/ (actor = "admin" /\ role # "admin")
CanManage(actor, role) ==
    /\ role # "owner"
    /\ actor = "owner" \/ (actor = "admin" /\ role \in {"agent", "viewer"})

\* What row-level security shows of the memberships to the tenant context <<u, w>>.
Visible(u, w) == {m \in members : m.workspace = w \/ m.user = u}

\* The memberships the routes ask for: the actor's own, and those he may act on.
OwnMutant(u, w) == {m \in Visible(u, w) : m.user = u}   \* in any workspace
Own(u, w) == {m \in Visible(u, w) : m.workspace = w /\ m.user = u}

Targets(u, w) == {m \in Visible(u, w) : m.workspace = w /\ m.user # u}

\* What a search in the workspace of r may return: _active_scope.
ScopeMutant(r) ==   \* every indexed version
    {c \in chunks : Home[c[1]] = op[r].workspace /\ ~deleted[c[1]]}
Scope(r) ==
    {c \in chunks : Home[c[1]] = op[r].workspace /\ ~deleted[c[1]] /\ active[c[1]] = c[2]}

---------------------------------------------------------------------------
(* The steps of a request. *)

Goto(r, stage) == pc' = [pc EXCEPT ![r] = stage]

\* The request is over: its transaction committed or rolled back.
Finish(r) ==
    /\ Goto(r, "idle")
    /\ op' = [op EXCEPT ![r] = NoOp]
    /\ acting' = [acting EXCEPT ![r] = None]
    /\ target' = [target EXCEPT ![r] = None]
    /\ evidence' = [evidence EXCEPT ![r] = {}]
    /\ standing' = [standing EXCEPT ![r] = {}]
    /\ shown' = [shown EXCEPT ![r] = {}]

\* get_current_principal and require_workspace_roles.
Admit(r, k, u, w) ==
    /\ pc[r] = "idle"
    /\ \E m \in Own(u, w) :
          /\ m.role \in Admitted(k)
          /\ acting' = [acting EXCEPT ![r] = m.role]
    /\ Goto(r, "granted")
    /\ op' = [op EXCEPT ![r] = [kind |-> k, actor |-> u, workspace |-> w]]
    /\ standing' = [standing EXCEPT ![r] = {m \in members : m.workspace = w /\ m.user = u}]
    /\ shown' = [shown EXCEPT ![r] = Serving]
    /\ UNCHANGED <<memberVars, documentVars, target, evidence>>

\* create_workspace, and register for a new user, in a slot of their own.
Create(r, u, w) ==
    /\ pc[r] = "idle"
    /\ w \notin workspaces
    /\ rows < MaxMember
    /\ workspaces' = workspaces \cup {w}
    /\ rows' = rows + 1
    /\ members' = members \cup {[id |-> rows + 1, workspace |-> w, user |-> u,
                                 role |-> "owner"]}
    /\ UNCHANGED <<documentVars, handlerVars, observerVars>>

\* add_member; the schema refuses the role OWNER before.  The actor may have been removed
\* meanwhile, and may then even add himself.
AddMemberMutant(r, u, role) ==   \* no unique constraint
    /\ pc[r] = "granted"
    /\ op[r].kind = "add"
    /\ CanManage(acting[r], role)
    /\ rows < MaxMember
    /\ rows' = rows + 1
    /\ members' = members \cup {[id |-> rows + 1, workspace |-> op[r].workspace,
                                 user |-> u, role |-> role]}
    /\ Finish(r)
    /\ UNCHANGED <<workspaces, documentVars>>
AddMember(r, u, role) ==
    /\ pc[r] = "granted"
    /\ op[r].kind = "add"
    /\ CanManage(acting[r], role)
    /\ ~ \E m \in members : m.workspace = op[r].workspace /\ m.user = u
    /\ rows < MaxMember
    /\ rows' = rows + 1
    /\ members' = members \cup {[id |-> rows + 1, workspace |-> op[r].workspace,
                                 user |-> u, role |-> role]}
    /\ Finish(r)
    /\ UNCHANGED <<workspaces, documentVars>>

\* load_target_membership, and the checks of the role it has at this moment.
LoadTarget(r, m) ==
    /\ pc[r] = "granted"
    /\ op[r].kind \in {"change", "remove"}
    /\ m \in Targets(op[r].actor, op[r].workspace)
    /\ CanManage(acting[r], m.role)
    /\ target' = [target EXCEPT ![r] = m]
    /\ Goto(r, "loaded")
    /\ UNCHANGED <<memberVars, documentVars, op, acting, evidence, observerVars>>

\* update_member.  The statement names the row by its id and sets the role, whatever it
\* is by now; a row that is gone is an error (see Refuse).  Without a change there is no
\* statement.
ChangeRole(r, role) ==
    /\ pc[r] = "loaded"
    /\ op[r].kind = "change"
    /\ CanManage(acting[r], role)
    /\ \/ role = target[r].role /\ UNCHANGED members
       \/ /\ role # target[r].role
          /\ \E m \in members :
                /\ m.id = target[r].id
                /\ members' = (members \ {m}) \cup {[m EXCEPT !.role = role]}
    /\ Finish(r)
    /\ UNCHANGED <<workspaces, rows, documentVars>>

\* remove_member; deleting a row that is gone changes nothing.
RemoveMember(r) ==
    /\ pc[r] = "loaded"
    /\ op[r].kind = "remove"
    /\ members' = {m \in members : m.id # target[r].id}
    /\ Finish(r)
    /\ UNCHANGED <<workspaces, rows, documentVars>>

\* delete_document.
Erase(r, d) ==
    /\ pc[r] = "granted"
    /\ op[r].kind = "erase"
    /\ Home[d] = op[r].workspace
    /\ ~deleted[d]
    /\ deleted' = [deleted EXCEPT ![d] = TRUE]
    /\ active' = [active EXCEPT ![d] = 0]
    /\ Finish(r)
    /\ UNCHANGED <<memberVars, chunks>>

\* search reads the candidates of both rankings one after the other, each in the state
\* of that moment.
DenseQuery(r) ==
    /\ pc[r] = "granted"
    /\ op[r].kind = "search"
    /\ evidence' = [evidence EXCEPT ![r] = Scope(r)]
    /\ Goto(r, "searching")
    /\ UNCHANGED <<memberVars, documentVars, op, acting, target, observerVars>>

LexicalQuery(r) ==
    /\ pc[r] = "searching"
    /\ evidence' = [evidence EXCEPT ![r] = @ \cup Scope(r)]
    /\ Goto(r, "answered")
    /\ UNCHANGED <<memberVars, documentVars, op, acting, target, observerVars>>

\* A forbidden role, a missing row, a conflict, an invalid query or a failure: the
\* transaction rolls back.  Also the end of an answered search.
Refuse(r) ==
    /\ Busy(r)
    /\ Finish(r)
    /\ UNCHANGED <<memberVars, documentVars>>

\* The worker activates a version (in DocumentPipeline the action Commit).
Publish(d, v) ==
    /\ ~deleted[d]
    /\ <<d, v>> \notin chunks
    /\ active' = [active EXCEPT ![d] = v]
    /\ chunks' = chunks \cup {<<d, v>>}
    /\ shown' = [r \in Request |-> IF Busy(r) THEN shown[r] \cup {<<d, v>>} ELSE shown[r]]
    /\ UNCHANGED <<memberVars, deleted, handlerVars, standing>>

AccessNext ==
    \/ \E r \in Request :
          \/ \E u \in User, w \in Workspace :
                Create(r, u, w) \/ \E k \in Kind : Admit(r, k, u, w)
          \/ \E u \in User, role \in Role \ {"owner"} : AddMember(r, u, role)
          \/ \E m \in members : LoadTarget(r, m)
          \/ \E role \in Role \ {"owner"} : ChangeRole(r, role)
          \/ RemoveMember(r)
          \/ \E d \in Document : Erase(r, d)
          \/ DenseQuery(r)
          \/ LexicalQuery(r)
          \/ Refuse(r)
    \/ \E d \in Document, v \in 1 .. MaxVersion : Publish(d, v)

AccessSpec == AccessInit /\ [][AccessNext]_accessVars

---------------------------------------------------------------------------
(* Correctness. *)

\* Types, and the constraints of the membership table.
AccessTypeOK ==
    /\ workspaces \subseteq Workspace
    /\ members \subseteq Membership
    /\ rows \in 0 .. MaxMember
    /\ \A m \in members : m.id <= rows /\ m.workspace \in workspaces
    /\ \A m, n \in members :
          m.id = n.id \/ (m.workspace = n.workspace /\ m.user = n.user) => m = n
    /\ active \in [Document -> 0 .. MaxVersion]
    /\ deleted \in [Document -> BOOLEAN]
    /\ chunks \subseteq Document \X (1 .. MaxVersion)
    /\ pc \in [Request -> Stage]
    /\ op \in [Request -> [kind : Kind \cup {None}, actor : User \cup {None},
                           workspace : Workspace \cup {None}]]
    /\ acting \in [Request -> Role \cup {None}]
    /\ target \in [Request -> Membership \cup {None}]
    /\ evidence \in [Request -> SUBSET (Document \X (1 .. MaxVersion))]
    /\ standing \in [Request -> SUBSET Membership]
    /\ shown \in [Request -> SUBSET (Document \X (1 .. MaxVersion))]

\* Every workspace has exactly one owner at every moment, whatever changes of roles,
\* removals and additions run at the same time and however old the roles are that they
\* act on: nobody can take a workspace over or leave it without an owner.
OwnerStays ==
    \A w \in workspaces :
        \E m \in members :
            /\ m.workspace = w /\ m.role = "owner"
            /\ \A n \in members : n.workspace = w /\ n.role = "owner" => n = m

\* The hierarchy of roles (ROLE_RANK).
Rank == [viewer |-> 10, agent |-> 20, admin |-> 30, owner |-> 40]
Outranks(a, role) == a.role \in Managers /\ Rank[a.role] > Rank[role]

Ends(r) == Busy(r) /\ ~Busy(r)'
JustifiedStep ==
    /\ \A m \in members \ members' :
          \E r \in Request : \E a \in standing[r] :
              /\ Ends(r)
              /\ a.workspace = m.workspace /\ a.user # m.user
              /\ target[r].id = m.id /\ Outranks(a, target[r].role)
    /\ \A m \in members' \ members :
          m.workspace \in workspaces =>
              \E r \in Request : \E a \in standing[r] :
                  Ends(r) /\ a.workspace = m.workspace /\ Outranks(a, m.role)
    /\ \A d \in Document :
          deleted'[d] # deleted[d] =>
              \E r \in Request : \E a \in standing[r] :
                  Ends(r) /\ a.workspace = Home[d] /\ a.role \in Managers

\* A membership of a workspace changes or disappears only through a request of somebody
\* else who was a manager of that workspace when the request was admitted and outranked
\* the role the member had when the request read it; and a member gets only a role that
\* such a manager outranks.  Only a manager of its workspace deletes a document.  Roles of
\* other workspaces, or lost before the request, are of no use, however many managers
\* change each other's roles at the same time.
ChangesJustified == [][JustifiedStep]_accessVars

\* A search finds something only for a member of the workspace, and only versions of that
\* workspace that were served at some moment while it ran, however it races with
\* publications and deletions: two versions of a document only if one replaced the other.
EvidenceJustified ==
    \A r \in Request : \A c \in evidence[r] :
        c \in shown[r] /\ \E a \in standing[r] : a.workspace = Home[c[1]]
=============================================================================
