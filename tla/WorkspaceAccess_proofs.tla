------------------------ MODULE WorkspaceAccess_proofs ------------------------
(***************************************************************************)
(* Proofs about WorkspaceAccess for every set of users, workspaces,        *)
(* documents and concurrent requests.                                      *)
(***************************************************************************)
EXTENDS WorkspaceAccess, FiniteSetTheorems, TLAPS

\* What a request under way has been told.
RequestsFormed ==
    \A r \in Request :
        Busy(r) => /\ op[r] \in [kind : Kind, actor : User, workspace : Workspace]
                   /\ op[r].workspace \in workspaces
                   /\ acting[r] \in Role
                   /\ op[r].kind # "search" => acting[r] \in Managers

\* The role it acts on is the one its actor had when it was admitted.
ActorStands ==
    \A r \in Request :
        Busy(r) => \E a \in standing[r] :
            a.workspace = op[r].workspace /\ a.user = op[r].actor /\ a.role = acting[r]

\* A loaded row belongs to somebody else whom the actor may manage.  It may have changed
\* since, or be gone, but the row of its number is the same member's, and no owner's.
TargetFixed ==
    \A r \in Request :
        pc[r] = "loaded" =>
            /\ target[r] \in Membership
            /\ target[r].id <= rows
            /\ target[r].workspace = op[r].workspace
            /\ target[r].user # op[r].actor
            /\ CanManage(acting[r], target[r].role)
            /\ \A m \in members : m.id = target[r].id =>
                  /\ m.workspace = target[r].workspace
                  /\ m.user = target[r].user
                  /\ m.role # "owner"

\* A request under way knows what is served, and only a search has found something.
ServingSeen ==
    \A r \in Request :
        /\ Busy(r) => Serving \subseteq shown[r]
        /\ pc[r] \in {"searching", "answered"} => op[r].kind = "search"
        /\ evidence[r] # {} => pc[r] \in {"searching", "answered"}

AInv == /\ AccessTypeOK /\ OwnerStays
        /\ RequestsFormed /\ ActorStands /\ TargetFixed /\ ServingSeen /\ EvidenceJustified

---------------------------------------------------------------------------
(* One lemma per action. *)

\* The types of what a request keeps.
HandlerTypeOK ==
    /\ pc \in [Request -> Stage]
    /\ op \in [Request -> [kind : Kind \cup {None}, actor : User \cup {None},
                           workspace : Workspace \cup {None}]]
    /\ acting \in [Request -> Role \cup {None}]
    /\ target \in [Request -> Membership \cup {None}]
    /\ evidence \in [Request -> SUBSET (Document \X (1 .. MaxVersion))]
    /\ standing \in [Request -> SUBSET Membership]
    /\ shown \in [Request -> SUBSET (Document \X (1 .. MaxVersion))]

LEMMA FinishTyped ==
  ASSUME AccessTypeOK, NEW r \in Request, Finish(r)
  PROVE  HandlerTypeOK'
BY DEF AccessTypeOK, HandlerTypeOK, Finish, Goto, Stage, NoOp

\* A new workspace has its creator as only member.
LEMMA CreateKeeps ==
  ASSUME AInv, NEW r \in Request, NEW u \in User, NEW w \in Workspace, Create(r, u, w)
  PROVE  AInv'
<1> USE AccessAssumption
    DEF AInv, Kind, Stage, Role, NoOp, Busy, memberVars, documentVars, handlerVars,
        observerVars, Create
<1>1. AccessTypeOK'
  BY DEF AccessTypeOK, Membership
<1>2. OwnerStays'
  <2> DEFINE own == [id |-> rows + 1, workspace |-> w, user |-> u, role |-> "owner"]
  <2>1. members' = members \cup {own} /\ workspaces' = workspaces \cup {w} /\ w \notin workspaces
    OBVIOUS
  <2>2. own.workspace = w /\ own.role = "owner"
    OBVIOUS
  <2> HIDE DEF own
  <2>3. \A m \in members : m.workspace \in workspaces
    BY DEF AccessTypeOK
  <2>4. QED
    BY <2>1, <2>2, <2>3 DEF OwnerStays
<1>3. RequestsFormed'
  BY DEF AccessTypeOK, RequestsFormed
<1>4. ActorStands'
  BY DEF AccessTypeOK, ActorStands
<1>5. TargetFixed'
  BY DEF AccessTypeOK, TargetFixed, Membership
<1>6. ServingSeen'
  BY DEF AccessTypeOK, ServingSeen, Serving
<1>7. EvidenceJustified'
  BY DEF AccessTypeOK, EvidenceJustified
<1>8. QED
  BY <1>1, <1>2, <1>3, <1>4, <1>5, <1>6, <1>7

\* An admitted request acts on the role it has found.
LEMMA AdmitKeeps ==
  ASSUME AInv, NEW r \in Request, NEW k \in Kind, NEW u \in User, NEW w \in Workspace,
         Admit(r, k, u, w)
  PROVE  AInv'
<1> USE AccessAssumption
    DEF AInv, Kind, Stage, Role, NoOp, Busy, memberVars, documentVars, handlerVars,
        observerVars, Admit, Own, Visible, Admitted, Goto
<1>1. AccessTypeOK'
  BY DEF AccessTypeOK, Serving, Membership
<1>2. OwnerStays'
  BY DEF AccessTypeOK, OwnerStays
<1>3. RequestsFormed'
  BY DEF AccessTypeOK, RequestsFormed, Membership
<1>4. ActorStands'
  <2>1. PICK m \in members : m.workspace = w /\ m.user = u /\ acting'[r] = m.role
    BY DEF AccessTypeOK
  <2>2. m \in standing'[r] /\ op'[r].workspace = w /\ op'[r].actor = u
    BY <2>1 DEF AccessTypeOK
  <2>3. \A q \in Request \ {r} :
           /\ pc'[q] = pc[q] /\ op'[q] = op[q] /\ acting'[q] = acting[q]
           /\ standing'[q] = standing[q]
    BY DEF AccessTypeOK
  <2>4. QED
    BY <2>1, <2>2, <2>3 DEF ActorStands
<1>5. TargetFixed'
  BY DEF AccessTypeOK, TargetFixed
<1>6. ServingSeen'
  BY DEF AccessTypeOK, ServingSeen, Serving
<1>7. EvidenceJustified'
  BY DEF AccessTypeOK, ServingSeen, EvidenceJustified
<1>8. QED
  BY <1>1, <1>2, <1>3, <1>4, <1>5, <1>6, <1>7

\* An added member has a new row.
LEMMA AddMemberKeeps ==
  ASSUME AInv, NEW r \in Request, NEW u \in User, NEW role \in Role \ {"owner"},
         AddMember(r, u, role)
  PROVE  AInv'
<1> USE AccessAssumption
    DEF AInv, Kind, Stage, Role, NoOp, Busy, memberVars, documentVars, handlerVars,
        observerVars, AddMember, CanManage, Finish, Goto
<1>1. AccessTypeOK'
  <2> DEFINE new == [id |-> rows + 1, workspace |-> op[r].workspace, user |-> u, role |-> role]
  <2>1. HandlerTypeOK'
    BY FinishTyped
  <2>2. new \in Membership /\ rows' \in 0 .. MaxMember /\ new.id = rows'
    BY DEF AccessTypeOK, RequestsFormed, Membership
  <2>3. new.workspace \in workspaces
    BY DEF RequestsFormed
  <2>4. \A m \in members : m.id # new.id /\ ~(m.workspace = new.workspace /\ m.user = new.user)
    BY DEF AccessTypeOK
  <2>5. members' = members \cup {new}
    OBVIOUS
  <2> HIDE DEF new
  <2>6. QED
    BY <2>1, <2>2, <2>3, <2>4, <2>5 DEF AccessTypeOK, HandlerTypeOK, Membership
<1>2. OwnerStays'
  BY DEF AccessTypeOK, OwnerStays
<1>3. RequestsFormed'
  BY DEF AccessTypeOK, RequestsFormed
<1>4. ActorStands'
  BY DEF AccessTypeOK, ActorStands
<1>5. TargetFixed'
  BY DEF AccessTypeOK, TargetFixed, Membership
<1>6. ServingSeen'
  BY DEF AccessTypeOK, ServingSeen, Serving
<1>7. EvidenceJustified'
  BY DEF AccessTypeOK, EvidenceJustified
<1>8. QED
  BY <1>1, <1>2, <1>3, <1>4, <1>5, <1>6, <1>7

\* The row a request loads is not an owner's.
LEMMA LoadTargetKeeps ==
  ASSUME AInv, NEW r \in Request, NEW m \in members, LoadTarget(r, m)
  PROVE  AInv'
<1> USE AccessAssumption
    DEF AInv, Kind, Stage, Role, NoOp, Busy, memberVars, documentVars, handlerVars,
        observerVars, LoadTarget, Targets, Visible, CanManage, Goto
<1>1. AccessTypeOK'
  BY DEF AccessTypeOK
<1>2. OwnerStays'
  BY DEF AccessTypeOK, OwnerStays
<1>3. RequestsFormed'
  BY DEF AccessTypeOK, RequestsFormed
<1>4. ActorStands'
  BY DEF AccessTypeOK, ActorStands
<1>5. TargetFixed'
  BY DEF AccessTypeOK, TargetFixed
<1>6. ServingSeen'
  BY DEF AccessTypeOK, ServingSeen, Serving
<1>7. EvidenceJustified'
  BY DEF AccessTypeOK, EvidenceJustified
<1>8. QED
  BY <1>1, <1>2, <1>3, <1>4, <1>5, <1>6, <1>7

\* The row that is changed is the one that was loaded, by then perhaps with another role.
LEMMA ChangeRoleKeeps ==
  ASSUME AInv, NEW r \in Request, NEW role \in Role \ {"owner"}, ChangeRole(r, role)
  PROVE  AInv'
<1> USE AccessAssumption
    DEF AInv, Kind, Stage, Role, NoOp, Busy, memberVars, documentVars, handlerVars,
        observerVars, ChangeRole, CanManage, Finish, Goto
<1> DEFINE new(m) == [m EXCEPT !.role = role]
<1>0. \/ members' = members
      \/ \E m \in members : m.id = target[r].id /\ members' = (members \ {m}) \cup {new(m)}
  OBVIOUS
<1>1. AccessTypeOK'
  <2>1. HandlerTypeOK'
    BY FinishTyped
  <2>2. \A m \in members : /\ new(m) \in Membership
                           /\ new(m).id = m.id
                           /\ new(m).workspace = m.workspace
                           /\ new(m).user = m.user
    BY DEF AccessTypeOK, Membership
  <2> HIDE DEF new
  <2>3. QED
    BY <1>0, <2>1, <2>2 DEF AccessTypeOK, HandlerTypeOK
<1>2. OwnerStays'
  BY DEF AccessTypeOK, OwnerStays, TargetFixed, Membership
<1>3. RequestsFormed'
  BY DEF AccessTypeOK, RequestsFormed
<1>4. ActorStands'
  BY DEF AccessTypeOK, ActorStands
<1>5. TargetFixed'
  <2>1. \A m \in members' : \E n \in members :
           /\ m.id = n.id /\ m.workspace = n.workspace /\ m.user = n.user
           /\ m.role = "owner" => n.role = "owner"
    BY <1>0 DEF AccessTypeOK, Membership
  <2>2. \A q \in Request : pc'[q] = "loaded" =>
           /\ pc[q] = "loaded" /\ target'[q] = target[q] /\ op'[q] = op[q]
           /\ acting'[q] = acting[q]
    BY DEF AccessTypeOK
  <2>3. QED
    BY <2>1, <2>2 DEF TargetFixed
<1>6. ServingSeen'
  BY DEF AccessTypeOK, ServingSeen, Serving
<1>7. EvidenceJustified'
  BY DEF AccessTypeOK, EvidenceJustified
<1>8. QED
  BY <1>1, <1>2, <1>3, <1>4, <1>5, <1>6, <1>7

\* The row that is removed was never an owner's.
LEMMA RemoveMemberKeeps ==
  ASSUME AInv, NEW r \in Request, RemoveMember(r)
  PROVE  AInv'
<1> USE AccessAssumption
    DEF AInv, Kind, Stage, Role, NoOp, Busy, memberVars, documentVars, handlerVars,
        observerVars, RemoveMember, Finish, Goto
<1>1. AccessTypeOK'
  BY DEF AccessTypeOK
<1>2. OwnerStays'
  BY DEF AccessTypeOK, OwnerStays, TargetFixed
<1>3. RequestsFormed'
  BY DEF AccessTypeOK, RequestsFormed
<1>4. ActorStands'
  BY DEF AccessTypeOK, ActorStands
<1>5. TargetFixed'
  BY DEF AccessTypeOK, TargetFixed
<1>6. ServingSeen'
  BY DEF AccessTypeOK, ServingSeen, Serving
<1>7. EvidenceJustified'
  BY DEF AccessTypeOK, EvidenceJustified
<1>8. QED
  BY <1>1, <1>2, <1>3, <1>4, <1>5, <1>6, <1>7

\* A deleted document serves nothing.
LEMMA EraseKeeps ==
  ASSUME AInv, NEW r \in Request, NEW d \in Document, Erase(r, d)
  PROVE  AInv'
<1> USE AccessAssumption
    DEF AInv, Kind, Stage, Role, NoOp, Busy, memberVars, documentVars, handlerVars,
        observerVars, Erase, Finish, Goto
<1>1. AccessTypeOK'
  BY DEF AccessTypeOK
<1>2. OwnerStays'
  BY DEF AccessTypeOK, OwnerStays
<1>3. RequestsFormed'
  BY DEF AccessTypeOK, RequestsFormed
<1>4. ActorStands'
  BY DEF AccessTypeOK, ActorStands
<1>5. TargetFixed'
  BY DEF AccessTypeOK, TargetFixed
<1>6. ServingSeen'
  BY DEF AccessTypeOK, ServingSeen, Serving
<1>7. EvidenceJustified'
  BY DEF AccessTypeOK, EvidenceJustified
<1>8. QED
  BY <1>1, <1>2, <1>3, <1>4, <1>5, <1>6, <1>7

\* A search finds what is served at the moment of its first query,
LEMMA DenseQueryKeeps ==
  ASSUME AInv, NEW r \in Request, DenseQuery(r)
  PROVE  AInv'
<1> USE AccessAssumption
    DEF AInv, Kind, Stage, Role, NoOp, Busy, memberVars, documentVars, handlerVars,
        observerVars, DenseQuery, Scope, Goto
<1>1. AccessTypeOK'
  BY DEF AccessTypeOK
<1>2. OwnerStays'
  BY DEF AccessTypeOK, OwnerStays
<1>3. RequestsFormed'
  BY DEF AccessTypeOK, RequestsFormed
<1>4. ActorStands'
  BY DEF AccessTypeOK, ActorStands
<1>5. TargetFixed'
  BY DEF AccessTypeOK, TargetFixed
<1>6. ServingSeen'
  BY DEF AccessTypeOK, ServingSeen, Serving
<1>7. EvidenceJustified'
  BY DEF AccessTypeOK, ActorStands, ServingSeen, EvidenceJustified, Serving
<1>8. QED
  BY <1>1, <1>2, <1>3, <1>4, <1>5, <1>6, <1>7

\* and at the moment of its second.
LEMMA LexicalQueryKeeps ==
  ASSUME AInv, NEW r \in Request, LexicalQuery(r)
  PROVE  AInv'
<1> USE AccessAssumption
    DEF AInv, Kind, Stage, Role, NoOp, Busy, memberVars, documentVars, handlerVars,
        observerVars, LexicalQuery, Scope, Goto
<1>1. AccessTypeOK'
  BY DEF AccessTypeOK
<1>2. OwnerStays'
  BY DEF AccessTypeOK, OwnerStays
<1>3. RequestsFormed'
  BY DEF AccessTypeOK, RequestsFormed
<1>4. ActorStands'
  BY DEF AccessTypeOK, ActorStands
<1>5. TargetFixed'
  BY DEF AccessTypeOK, TargetFixed
<1>6. ServingSeen'
  BY DEF AccessTypeOK, ServingSeen, Serving
<1>7. EvidenceJustified'
  BY DEF AccessTypeOK, ActorStands, ServingSeen, EvidenceJustified, Serving
<1>8. QED
  BY <1>1, <1>2, <1>3, <1>4, <1>5, <1>6, <1>7

\* A request that is over leaves nothing behind.
LEMMA RefuseKeeps ==
  ASSUME AInv, NEW r \in Request, Refuse(r)
  PROVE  AInv'
<1> USE AccessAssumption
    DEF AInv, Kind, Stage, Role, NoOp, Busy, memberVars, documentVars, handlerVars,
        observerVars, Refuse, Finish, Goto
<1>1. AccessTypeOK'
  BY DEF AccessTypeOK
<1>2. OwnerStays'
  BY DEF AccessTypeOK, OwnerStays
<1>3. RequestsFormed'
  BY DEF AccessTypeOK, RequestsFormed
<1>4. ActorStands'
  BY DEF AccessTypeOK, ActorStands
<1>5. TargetFixed'
  BY DEF AccessTypeOK, TargetFixed
<1>6. ServingSeen'
  BY DEF AccessTypeOK, ServingSeen, Serving
<1>7. EvidenceJustified'
  BY DEF AccessTypeOK, EvidenceJustified
<1>8. QED
  BY <1>1, <1>2, <1>3, <1>4, <1>5, <1>6, <1>7

\* Requests under way see the new version from now on.
LEMMA PublishKeeps ==
  ASSUME AInv, NEW d \in Document, NEW v \in 1 .. MaxVersion, Publish(d, v)
  PROVE  AInv'
<1> USE AccessAssumption
    DEF AInv, Kind, Stage, Role, NoOp, Busy, memberVars, documentVars, handlerVars,
        observerVars, Publish
<1>1. AccessTypeOK'
  BY DEF AccessTypeOK
<1>2. OwnerStays'
  BY DEF AccessTypeOK, OwnerStays
<1>3. RequestsFormed'
  BY DEF AccessTypeOK, RequestsFormed
<1>4. ActorStands'
  BY DEF AccessTypeOK, ActorStands
<1>5. TargetFixed'
  BY DEF AccessTypeOK, TargetFixed
<1>6. ServingSeen'
  BY DEF AccessTypeOK, ServingSeen, Serving
<1>7. EvidenceJustified'
  BY DEF AccessTypeOK, EvidenceJustified
<1>8. QED
  BY <1>1, <1>2, <1>3, <1>4, <1>5, <1>6, <1>7

---------------------------------------------------------------------------

LEMMA InitAInv == AccessInit => AInv
<1> SUFFICES ASSUME AccessInit PROVE AInv
  OBVIOUS
<1> USE AccessAssumption DEF AccessInit, Regular
<1>1. \A m \in Founding : m \in Membership /\ m.id <= rows /\ m.workspace \in workspaces
  BY DEF Membership
<1>2. rows \in 0 .. MaxMember
  BY FS_CardinalityType
<1>3. AccessTypeOK
  BY <1>1, <1>2 DEF AccessTypeOK, Stage, NoOp, Kind, Role, Membership
<1>4. OwnerStays
  BY DEF OwnerStays
<1>5. RequestsFormed /\ ActorStands /\ TargetFixed /\ ServingSeen /\ EvidenceJustified
  BY DEF RequestsFormed, ActorStands, TargetFixed, ServingSeen, EvidenceJustified, Busy
<1>6. QED
  BY <1>3, <1>4, <1>5 DEF AInv

\* Every step keeps the invariant.
LEMMA StepAInv == AInv /\ [AccessNext]_accessVars => AInv'
<1> SUFFICES ASSUME AInv, [AccessNext]_accessVars PROVE AInv'
  OBVIOUS
<1>1. CASE UNCHANGED accessVars
  BY <1>1 DEF accessVars, memberVars, documentVars, handlerVars, observerVars, AInv,
     AccessTypeOK, OwnerStays, RequestsFormed, ActorStands, TargetFixed, ServingSeen,
     EvidenceJustified, Serving, Busy
<1>2. QED
  BY <1>1, CreateKeeps, AdmitKeeps, AddMemberKeeps, LoadTargetKeeps, ChangeRoleKeeps,
     RemoveMemberKeeps, EraseKeeps, DenseQueryKeeps, LexicalQueryKeeps, RefuseKeeps,
     PublishKeeps
     DEF AccessNext

THEOREM AInvCorrect == AccessSpec => []AInv
BY InitAInv, StepAInv, PTL DEF AccessSpec

\* The membership table is well-formed and every handler's variables have their types.
THEOREM AccessTypeCorrect == AccessSpec => []AccessTypeOK
BY AInvCorrect, PTL DEF AInv

\* The conflicting, late and stale requests of any number of managers leave every
\* workspace its one owner: the role they were told for their target can be out of date,
\* but no request turns an owner into another role or another role into an owner, so a
\* row that was no owner's when it was loaded is none when it is written.
THEOREM OwnerStaysCorrect == AccessSpec => []OwnerStays
BY AInvCorrect, PTL DEF AInv

\* A search returns only versions that were served while it ran, to a member only.
THEOREM EvidenceCorrect == AccessSpec => []EvidenceJustified
BY AInvCorrect, PTL DEF AInv

\* The manager for whom r acts on a loaded row.
LEMMA ActorOutranks ==
  ASSUME AInv, NEW r \in Request, pc[r] = "loaded"
  PROVE  \E a \in standing[r] :
            /\ a.workspace = target[r].workspace /\ a.user # target[r].user
            /\ a.role = acting[r] /\ Outranks(a, target[r].role)
BY DEF AInv, ActorStands, TargetFixed, Outranks, CanManage, Rank, Managers, Membership, Role, Busy

\* Memberships and documents change only at the end of a request of a manager who may do it.
THEOREM ChangesCorrect == AccessSpec => ChangesJustified
<1>1. ASSUME AInv, [AccessNext]_accessVars PROVE [JustifiedStep]_accessVars
  <2> SUFFICES ASSUME AccessNext PROVE JustifiedStep
    BY <1>1
  <2> USE <1>1 DEF JustifiedStep, Ends, Busy
  <2>1. ASSUME NEW r \in Request, NEW u \in User, NEW w \in Workspace, Create(r, u, w)
        PROVE  JustifiedStep
    BY <2>1 DEF Create, documentVars
  <2>2. ASSUME NEW r \in Request, NEW u \in User, NEW role \in Role \ {"owner"},
               AddMember(r, u, role)
        PROVE  JustifiedStep
    <3>1. \E a \in standing[r] : a.workspace = op[r].workspace /\ Outranks(a, role)
      BY <2>2 DEF AInv, ActorStands, AddMember, Outranks, CanManage, Rank, Managers, Role
    <3>2. Ends(r) /\ UNCHANGED documentVars
      BY <2>2 DEF AInv, AccessTypeOK, AddMember, Finish, Goto
    <3>3. QED
      BY <2>2, <3>1, <3>2 DEF AddMember, documentVars
  <2>3. ASSUME NEW r \in Request, NEW role \in Role \ {"owner"}, ChangeRole(r, role)
        PROVE  JustifiedStep
    <3>1. PICK a \in standing[r] :
             /\ a.workspace = target[r].workspace /\ a.user # target[r].user
             /\ a.role = acting[r] /\ Outranks(a, target[r].role)
      BY <2>3, ActorOutranks DEF ChangeRole
    <3>2. Outranks(a, role)
      BY <2>3, <3>1 DEF ChangeRole, Outranks, CanManage, Rank, Role
    <3>3. Ends(r) /\ UNCHANGED documentVars
      BY <2>3 DEF AInv, AccessTypeOK, ChangeRole, Finish, Goto
    <3>4. \A m \in members : m.id = target[r].id =>
             m.workspace = target[r].workspace /\ m.user = target[r].user
      BY <2>3 DEF AInv, TargetFixed, ChangeRole
    <3>5. \A m \in members \ members' : m.id = target[r].id
      BY <2>3 DEF ChangeRole
    <3>6. \A m \in members' \ members : m.role = role /\ m.workspace = target[r].workspace
      BY <2>3, <3>4 DEF ChangeRole, AInv, AccessTypeOK, Membership
    <3>7. QED
      BY <3>1, <3>2, <3>3, <3>4, <3>5, <3>6 DEF documentVars
  <2>4. ASSUME NEW r \in Request, RemoveMember(r)
        PROVE  JustifiedStep
    <3>1. Ends(r) /\ UNCHANGED documentVars
      BY <2>4 DEF AInv, AccessTypeOK, RemoveMember, Finish, Goto
    <3>2. \A m \in members : m.id = target[r].id =>
             m.workspace = target[r].workspace /\ m.user = target[r].user
      BY <2>4 DEF AInv, TargetFixed, RemoveMember
    <3>3. QED
      BY <2>4, <3>1, <3>2, ActorOutranks DEF RemoveMember, documentVars
  <2>5. ASSUME NEW r \in Request, NEW d \in Document, Erase(r, d)
        PROVE  JustifiedStep
    <3>1. \E a \in standing[r] : a.workspace = Home[d] /\ a.role \in Managers
      BY <2>5 DEF Erase, AInv, ActorStands, RequestsFormed
    <3>2. Ends(r) /\ members' = members
      BY <2>5 DEF AInv, AccessTypeOK, Erase, Finish, Goto, memberVars
    <3>3. \A e \in Document : deleted'[e] # deleted[e] => e = d
      BY <2>5 DEF AInv, AccessTypeOK, Erase
    <3>4. QED
      BY <3>1, <3>2, <3>3
  <2>6. CASE UNCHANGED <<memberVars, deleted>>
    BY <2>6 DEF memberVars
  <2>7. QED
    BY <2>1, <2>2, <2>3, <2>4, <2>5, <2>6
       DEF AccessNext, Admit, LoadTarget, DenseQuery, LexicalQuery, Refuse, Publish, documentVars
<1>2. QED
  BY <1>1, AInvCorrect, PTL DEF AccessSpec, ChangesJustified
=============================================================================
