------------------------ MODULE ProjectMembersProofs ------------------------
(***************************************************************************)
(* Theorems about ProjectMembers for every set of projects, users, custom  *)
(* roles and requests in flight, and all bounds.                           *)
(***************************************************************************)
EXTENDS ProjectMembers, FiniteSetTheorems, TLAPS

LEMMA KeyParts == \A k \in Keys : ProjectOf(k) \in Projects /\ UserOf(k) \in Users
BY DEF Keys, ProjectOf, UserOf

LEMMA PairParts == \A p \in Projects, u \in Users :
                     <<p, u>> \in Keys /\ ProjectOf(<<p, u>>) = p /\ UserOf(<<p, u>>) = u
BY DEF Keys, ProjectOf, UserOf

\* The row of a creator.
Founder(u) == [role |-> Admin, version |-> 1, life |-> lives + 1, era |-> era[u],
               late |-> FALSE, raced |-> FALSE]

LEMMA FounderRow ==
  ASSUME TypeOK, NEW u \in Users, lives < MaxLives
  PROVE  /\ Founder(u) \in Row
         /\ Founder(u).role = Admin /\ Founder(u).life = lives + 1
         /\ Founder(u).era = era[u]
<1>1. /\ Admin \in Roles /\ 1 \in 1..MaxVersion /\ lives + 1 \in 1..MaxLives
      /\ era[u] \in 1..MaxEra
  BY BoundAssumption DEF TypeOK, Roles
<1> QED
  BY <1>1 DEF Founder, Row

LEMMA PlacedRow ==
  ASSUME NEW q \in Requests
  PROVE  LET k == request[q].key
             c == <<ProjectOf(k), request[q].role>>
         IN  /\ Placed(q).role = request[q].role
             /\ Placed(q).life = IF member[k] = None THEN lives + 1 ELSE member[k].life
             /\ Placed(q).era = request[q].era
             /\ Placed(q).late = (clearing[UserOf(k)] = "cleared"
                                    \/ era[UserOf(k)] # request[q].era)
             /\ Placed(q).raced = (c \in counted \/ ~GetRole(c[1], c[2]))
BY DEF Placed

LEMMA RequestTypes ==
  ASSUME TypeOK, NEW q \in Requests, request[q] # None
  PROVE  /\ request[q] \in Placement
         /\ request[q].key \in Keys
         /\ request[q].role \in Roles
         /\ request[q].saw \in Version \union {None}
         /\ request[q].era \in 0..MaxEra
<1>1. request[q] \in Placement
  BY DEF TypeOK
<1> QED
  BY <1>1 DEF Placement

\* The steps that write rows.
LEMMA MemberSteps ==
  ASSUME Next
  PROVE  \/ member' = member /\ lives' = lives
         \/ \E p \in Projects, u \in Users : CreateProject(p, u)
         \/ \E q \in Requests : PlaceMember(q)
         \/ \E k \in Keys : RemoveMember(k)
         \/ \E u \in Users : ClearOrganizationMemberPlacements(u)
BY DEF Next, ArchiveProject, UnarchiveProject, DeleteProject, CreateRole, CountRole,
       SoftDeleteRole, ViewMember, CheckMember, CheckRole, AbandonPlacement, Leave,
       CheckInactive, Rejoin

-----------------------------------------------------------------------------
(* Type correctness.                                                       *)

LEMMA ProjectTypes ==
  ASSUME TypeOK, NEW p \in Projects,
         \/ ArchiveProject(p) \/ UnarchiveProject(p) \/ DeleteProject(p)
         \/ \E u \in Users : CreateProject(p, u)
  PROVE  TypeOK'
<1>1. CASE ArchiveProject(p) \/ UnarchiveProject(p) \/ DeleteProject(p)
  <2>1. /\ status' \in [Projects -> {"absent", "open", "archived", "deleted"}]
        /\ \A r \in Projects : status'[r] = "absent" => status[r] = "absent"
        /\ UNCHANGED <<role, counted, member, lives, active, era, clearing, request>>
    BY <1>1 DEF TypeOK, ArchiveProject, UnarchiveProject, DeleteProject
  <2> QED
    BY <2>1, KeyParts DEF TypeOK
<1>2. ASSUME NEW u \in Users, CreateProject(p, u)
      PROVE  TypeOK'
  <2>1. /\ status' = [status EXCEPT ![p] = "open"]
        /\ member' = [member EXCEPT ![<<p, u>>] = Founder(u)]
        /\ lives < MaxLives /\ lives' = lives + 1
        /\ UNCHANGED <<role, counted, active, era, clearing, request>>
    BY <1>2 DEF CreateProject, Founder
  <2>2. Founder(u) \in Row
    BY <2>1, FounderRow
  <2>3. member' \in [Keys -> Row \union {None}]
    BY <2>1, <2>2 DEF TypeOK
  <2>4. \A k \in Keys : status'[ProjectOf(k)] = "absent" => member'[k] = None
    <3> SUFFICES ASSUME NEW k \in Keys, status'[ProjectOf(k)] = "absent"
                 PROVE  member'[k] = None
      OBVIOUS
    <3>1. ProjectOf(k) # p /\ status[ProjectOf(k)] = "absent"
      BY <2>1, KeyParts DEF TypeOK
    <3>2. k # <<p, u>>
      BY <3>1, PairParts
    <3> QED
      BY <2>1, <3>1, <3>2 DEF TypeOK
  <2>5. status' \in [Projects -> {"absent", "open", "archived", "deleted"}]
    BY <2>1 DEF TypeOK
  <2>6. lives' \in 0..MaxLives
    BY <2>1, BoundAssumption DEF TypeOK
  <2> QED
    BY <2>1, <2>3, <2>4, <2>5, <2>6 DEF TypeOK
<1> QED
  BY <1>1, <1>2

LEMMA RoleTypes ==
  ASSUME TypeOK, NEW c \in Projects \X Custom,
         CreateRole(c) \/ CountRole(c) \/ SoftDeleteRole(c)
  PROVE  TypeOK'
<1>1. /\ role' \in [Projects \X Custom -> {"absent", "live", "deleted"}]
      /\ counted' \subseteq {d \in Projects \X Custom : role'[d] # "absent"}
  <2>1. CASE CreateRole(c)
    BY <2>1 DEF TypeOK, CreateRole
  <2>2. CASE CountRole(c)
    BY <2>2 DEF TypeOK, CountRole
  <2>3. CASE SoftDeleteRole(c)
    BY <2>3 DEF TypeOK, SoftDeleteRole
  <2> QED
    BY <2>1, <2>2, <2>3
<1>2. UNCHANGED <<status, member, lives, active, era, clearing, request>>
  BY DEF CreateRole, CountRole, SoftDeleteRole
<1> QED
  BY <1>1, <1>2 DEF TypeOK

LEMMA RequestStepTypes ==
  ASSUME TypeOK, NEW q \in Requests,
         \/ \E k \in Keys, r \in Roles : ViewMember(q, k, r)
         \/ CheckMember(q) \/ CheckRole(q) \/ AbandonPlacement(q)
  PROVE  TypeOK'
<1>1. UNCHANGED <<status, role, counted, member, lives, active, era, clearing>>
  BY DEF ViewMember, CheckMember, CheckRole, AbandonPlacement
<1>2. request' \in [Requests -> Placement \union {None}]
  <2>1. ASSUME NEW k \in Keys, NEW r \in Roles, ViewMember(q, k, r)
        PROVE  request' \in [Requests -> Placement \union {None}]
    <3>1. ListProjectMembers(k) \in Version \union {None}
      <4>1. member[k] # None => member[k] \in Row
        BY DEF TypeOK
      <4> QED
        BY <4>1 DEF ListProjectMembers, VersionOf, Version, Row
    <3>2. [pc |-> "viewed", key |-> k, role |-> r, saw |-> ListProjectMembers(k), era |-> 0]
            \in Placement
      BY <3>1, BoundAssumption DEF Placement
    <3> QED
      BY <2>1, <3>2 DEF TypeOK, ViewMember
  <2>2. CASE CheckMember(q)
    <3>1. request[q] # None
      BY <2>2 DEF CheckMember
    <3>2. era[UserOf(request[q].key)] \in 0..MaxEra
      BY <3>1, RequestTypes, KeyParts, BoundAssumption DEF TypeOK
    <3>3. [request[q] EXCEPT !.pc = "member", !.era = era[UserOf(request[q].key)]] \in Placement
      BY <3>1, <3>2, RequestTypes DEF Placement
    <3> QED
      BY <2>2, <3>3 DEF TypeOK, CheckMember
  <2>3. CASE CheckRole(q)
    <3>1. [request[q] EXCEPT !.pc = "checked"] \in Placement
      BY <2>3, RequestTypes DEF CheckRole, Placement
    <3> QED
      BY <2>3, <3>1 DEF TypeOK, CheckRole
  <2>4. CASE AbandonPlacement(q)
    BY <2>4 DEF TypeOK, AbandonPlacement
  <2> QED
    BY <2>1, <2>2, <2>3, <2>4
<1> QED
  BY <1>1, <1>2 DEF TypeOK

LEMMA PlaceTypes ==
  ASSUME TypeOK, NEW q \in Requests, PlaceMember(q)
  PROVE  TypeOK'
<1> DEFINE k == request[q].key
<1>1. /\ request[q] # None /\ Placed(q) \in Row
      /\ member' = [member EXCEPT ![k] = Placed(q)]
      /\ lives' = IF member[k] = None THEN lives + 1 ELSE lives
      /\ request' = [request EXCEPT ![q] = None]
      /\ status[ProjectOf(k)] # "absent"
      /\ UNCHANGED <<status, role, counted, active, era, clearing>>
  BY DEF PlaceMember, LockProjectForDelete, GetProject
<1>2. k \in Keys
  BY <1>1, RequestTypes
<1>3. lives' \in 0..MaxLives
  <2>1. member[k] = None => lives + 1 \in 1..MaxLives
    BY <1>1, PlacedRow DEF Row
  <2> QED
    BY <1>1, <2>1 DEF TypeOK
<1>4. member' \in [Keys -> Row \union {None}]
  BY <1>1 DEF TypeOK
<1>5. \A j \in Keys : status'[ProjectOf(j)] = "absent" => member'[j] = None
  BY <1>1, <1>2 DEF TypeOK
<1>6. request' \in [Requests -> Placement \union {None}]
  BY <1>1 DEF TypeOK
<1> QED
  BY <1>1, <1>3, <1>4, <1>5, <1>6 DEF TypeOK

LEMMA RemoveTypes ==
  ASSUME TypeOK,
         \/ \E k \in Keys : RemoveMember(k)
         \/ \E u \in Users : ClearOrganizationMemberPlacements(u)
  PROVE  TypeOK'
<1>1. ASSUME NEW k \in Keys, RemoveMember(k)
      PROVE  TypeOK'
  <2>1. /\ member' = [member EXCEPT ![k] = None]
        /\ UNCHANGED <<status, role, counted, lives, active, era, clearing, request>>
    BY <1>1 DEF RemoveMember, DeleteProjectMember
  <2>2. member' \in [Keys -> Row \union {None}]
    BY <2>1 DEF TypeOK
  <2>3. \A j \in Keys : status'[ProjectOf(j)] = "absent" => member'[j] = None
    BY <2>1 DEF TypeOK
  <2> QED
    BY <2>1, <2>2, <2>3 DEF TypeOK
<1>2. ASSUME NEW u \in Users, ClearOrganizationMemberPlacements(u)
      PROVE  TypeOK'
  <2>1. /\ member' = [k \in Keys |-> IF UserOf(k) = u THEN None ELSE member[k]]
        /\ clearing[u] = "checked" /\ clearing' = [clearing EXCEPT ![u] = "cleared"]
        /\ UNCHANGED <<status, role, counted, lives, active, era, request>>
    BY <1>2 DEF ClearOrganizationMemberPlacements, DeleteProjectMembersForOrganizationUser
  <2>2. member' \in [Keys -> Row \union {None}]
    BY <2>1 DEF TypeOK
  <2>3. \A j \in Keys : status'[ProjectOf(j)] = "absent" => member'[j] = None
    BY <2>1 DEF TypeOK
  <2>4. clearing' \in [Users -> {"no", "checked", "cleared"}]
    BY <2>1 DEF TypeOK
  <2>5. \A v \in active' : clearing'[v] = "no"
    BY <2>1 DEF TypeOK
  <2> QED
    BY <2>1, <2>2, <2>3, <2>4, <2>5 DEF TypeOK
<1> QED
  BY <1>1, <1>2

LEMMA IdentityTypes ==
  ASSUME TypeOK, NEW u \in Users, Leave(u) \/ CheckInactive(u) \/ Rejoin(u)
  PROVE  TypeOK'
<1>1. UNCHANGED <<status, role, counted, member, lives, request>>
  BY DEF Leave, CheckInactive, Rejoin
<1>2. /\ active' \subseteq Users
      /\ era' \in [Users -> 1..MaxEra]
      /\ clearing' \in [Users -> {"no", "checked", "cleared"}]
      /\ \A v \in active' : clearing'[v] = "no"
  <2>1. CASE Leave(u)
    BY <2>1 DEF TypeOK, Leave
  <2>2. CASE CheckInactive(u)
    BY <2>2 DEF TypeOK, CheckInactive
  <2>3. CASE Rejoin(u)
    <3>1. era[u] + 1 \in 1..MaxEra
      BY <2>3, BoundAssumption DEF TypeOK, Rejoin
    <3> QED
      BY <2>3, <3>1 DEF TypeOK, Rejoin
  <2> QED
    BY <2>1, <2>2, <2>3
<1> QED
  BY <1>1, <1>2 DEF TypeOK

\* Every variable keeps its type.
THEOREM TypeCorrect == Spec => []TypeOK
<1>1. Init => TypeOK
  BY BoundAssumption DEF Init, TypeOK
<1>2. TypeOK /\ [Next]_vars => TypeOK'
  <2> SUFFICES ASSUME TypeOK, [Next]_vars
               PROVE  TypeOK'
    OBVIOUS
  <2>1. CASE UNCHANGED vars
    BY <2>1 DEF vars, TypeOK
  <2>2. CASE Next
    BY <2>2, ProjectTypes, RoleTypes, RequestStepTypes, PlaceTypes, RemoveTypes, IdentityTypes
       DEF Next
  <2> QED
    BY <2>1, <2>2
<1> QED
  BY <1>1, <1>2, PTL DEF Spec

-----------------------------------------------------------------------------
(* Edits.                                                                  *)

\* Inductive: rows are numbered in the order of their insertion, and what a
\* request saw of its row is no younger than the row.
Ages ==
  /\ \A k \in Keys : member[k] # None => member[k].life <= lives
  /\ \A q \in Requests :
       request[q] # None /\ request[q].saw # None =>
         LET k == request[q].key IN
         /\ request[q].saw.life <= lives
         /\ member[k] # None => request[q].saw.life <= member[k].life

LEMMA SawTypes ==
  ASSUME TypeOK, NEW q \in Requests, request[q] # None, request[q].saw # None
  PROVE  request[q].saw \in Version /\ request[q].saw.life \in Nat
BY RequestTypes DEF Version

LEMMA RowTypes ==
  ASSUME TypeOK, NEW k \in Keys, member[k] # None
  PROVE  member[k] \in Row /\ member[k].life \in Nat /\ member[k].role \in Roles
BY DEF TypeOK, Row

\* What requests may be after a step.
LEMMA RequestSteps ==
  ASSUME TypeOK, Next, NEW q \in Requests, request'[q] # None, request'[q].saw # None
  PROVE  \/ /\ request[q] # None
            /\ request'[q].key = request[q].key /\ request'[q].saw = request[q].saw
         \/ \E k \in Keys, r \in Roles :
              /\ ViewMember(q, k, r)
              /\ request'[q].key = k /\ request'[q].saw = ListProjectMembers(k)
<1>1. CASE request' = request
  BY <1>1
<1>2. ASSUME NEW p \in Requests, NEW k \in Keys, NEW r \in Roles, ViewMember(p, k, r)
      PROVE  \/ request'[q] = request[q]
             \/ p = q /\ request'[q].key = k /\ request'[q].saw = ListProjectMembers(k)
  BY <1>2 DEF TypeOK, ViewMember
<1>3. ASSUME NEW p \in Requests, CheckMember(p) \/ CheckRole(p)
      PROVE  /\ request[q] # None
             /\ request'[q].key = request[q].key /\ request'[q].saw = request[q].saw
  <2>1. CASE p # q
    BY <1>3, <2>1 DEF TypeOK, CheckMember, CheckRole
  <2>2. CASE p = q
    <3>1. request[q] # None /\ request[q] \in Placement
      BY <1>3, <2>2, RequestTypes DEF CheckMember, CheckRole
    <3>2. CASE CheckMember(q)
      <4>1. request'[q] = [request[q] EXCEPT !.pc = "member",
                                             !.era = era[UserOf(request[q].key)]]
        BY <3>2 DEF TypeOK, CheckMember
      <4> QED
        BY <3>1, <4>1 DEF Placement
    <3>3. CASE CheckRole(q)
      <4>1. request'[q] = [request[q] EXCEPT !.pc = "checked"]
        BY <3>3 DEF TypeOK, CheckRole
      <4> QED
        BY <3>1, <4>1 DEF Placement
    <3> QED
      BY <1>3, <2>2, <3>2, <3>3
  <2> QED
    BY <2>1, <2>2
<1>4. ASSUME NEW p \in Requests, PlaceMember(p) \/ AbandonPlacement(p)
      PROVE  request'[q] = request[q]
  BY <1>4 DEF TypeOK, PlaceMember, AbandonPlacement
<1>5. \/ request' = request
      \/ \E p \in Requests :
           \/ \E k \in Keys, r \in Roles : ViewMember(p, k, r)
           \/ CheckMember(p) \/ CheckRole(p) \/ PlaceMember(p) \/ AbandonPlacement(p)
  BY DEF Next, ArchiveProject, UnarchiveProject, DeleteProject, CreateProject, CreateRole,
         CountRole, SoftDeleteRole, RemoveMember, Leave, CheckInactive,
         ClearOrganizationMemberPlacements, Rejoin
<1> QED
  BY <1>1, <1>2, <1>3, <1>4, <1>5

\* A row after a step is the row before it, a successor of it, or the youngest.
LEMMA LifeSteps ==
  ASSUME TypeOK, Next, NEW k \in Keys, member'[k] # None
  PROVE  \/ member[k] # None /\ member'[k].life = member[k].life
         \/ member'[k].life = lives + 1 /\ lives' = lives + 1
<1>1. ASSUME NEW p \in Projects, NEW u \in Users, CreateProject(p, u)
      PROVE  \/ member'[k] = member[k]
             \/ member'[k].life = lives + 1 /\ lives' = lives + 1
  <2>1. /\ member' = [member EXCEPT ![<<p, u>>] = Founder(u)]
        /\ lives < MaxLives /\ lives' = lives + 1
    BY <1>1 DEF CreateProject, Founder
  <2> QED
    BY <2>1, FounderRow DEF TypeOK
<1>2. ASSUME NEW q \in Requests, PlaceMember(q)
      PROVE  \/ member[k] # None /\ member'[k].life = member[k].life
             \/ member'[k].life = lives + 1 /\ lives' = lives + 1
  <2>1. /\ member' = [member EXCEPT ![request[q].key] = Placed(q)]
        /\ lives' = IF member[request[q].key] = None THEN lives + 1 ELSE lives
    BY <1>2 DEF PlaceMember
  <2>2. CASE k # request[q].key
    BY <2>1, <2>2 DEF TypeOK
  <2>3. CASE k = request[q].key
    <3>1. member'[k] = Placed(q)
      BY <2>1, <2>3 DEF TypeOK
    <3> QED
      BY <2>1, <2>3, <3>1, PlacedRow
  <2> QED
    BY <2>2, <2>3
<1>3. ASSUME NEW j \in Keys, RemoveMember(j)
      PROVE  member'[k] = member[k]
  BY <1>3 DEF TypeOK, RemoveMember, DeleteProjectMember
<1>4. ASSUME NEW u \in Users, ClearOrganizationMemberPlacements(u)
      PROVE  member'[k] = member[k]
  BY <1>4 DEF ClearOrganizationMemberPlacements, DeleteProjectMembersForOrganizationUser
<1> QED
  BY <1>1, <1>2, <1>3, <1>4, MemberSteps

LEMMA LivesGrow == TypeOK /\ Next => lives' \in {lives, lives + 1}
BY MemberSteps DEF CreateProject, PlaceMember, RemoveMember, ClearOrganizationMemberPlacements

LEMMA AgesStep ==
  ASSUME TypeOK, TypeOK', Ages, Next
  PROVE  Ages'
<1>1. lives \in Nat /\ lives' \in Nat /\ lives <= lives'
  BY LivesGrow DEF TypeOK
<1>2. ASSUME NEW k \in Keys, member'[k] # None
      PROVE  member'[k].life <= lives'
  BY <1>1, <1>2, LifeSteps, RowTypes DEF Ages
<1>3. ASSUME NEW q \in Requests, request'[q] # None, request'[q].saw # None
      PROVE  LET k == request'[q].key IN
             /\ request'[q].saw.life <= lives'
             /\ member'[k] # None => request'[q].saw.life <= member'[k].life
  <2>1. CASE /\ request[q] # None
             /\ request'[q].key = request[q].key /\ request'[q].saw = request[q].saw
    <3> DEFINE k == request[q].key
    <3>1. /\ k \in Keys /\ request[q].saw.life \in Nat
          /\ request[q].saw.life <= lives
          /\ member[k] # None => request[q].saw.life <= member[k].life
      BY <1>3, <2>1, SawTypes, RequestTypes DEF Ages
    <3>2. member'[k] # None => request[q].saw.life <= member'[k].life
      BY <1>1, <3>1, LifeSteps, RowTypes
    <3> QED
      BY <1>1, <2>1, <3>1, <3>2
  <2>2. ASSUME NEW k \in Keys, NEW r \in Roles, ViewMember(q, k, r),
               request'[q].key = k, request'[q].saw = ListProjectMembers(k)
        PROVE  /\ request'[q].saw.life <= lives'
               /\ member'[k] # None => request'[q].saw.life <= member'[k].life
    <3>1. member' = member /\ lives' = lives
      BY <2>2 DEF ViewMember
    <3>2. member[k] # None /\ request'[q].saw.life = member[k].life
      BY <1>3, <2>2 DEF ListProjectMembers, VersionOf
    <3> QED
      BY <1>1, <3>1, <3>2, RowTypes DEF Ages
  <2> QED
    BY <1>3, <2>1, <2>2, RequestSteps
<1> QED
  BY <1>2, <1>3 DEF Ages

\* An edit of a role replaces the row its client has seen, or one younger.
THEOREM EditsInformed == Spec => EditsAreInformed
<1>1. Init => Ages
  BY DEF Init, Ages
<1>2. TypeOK /\ TypeOK' /\ Ages /\ [Next]_vars => Ages'
  <2>1. ASSUME UNCHANGED vars, Ages
        PROVE  Ages'
    BY <2>1 DEF vars, Ages
  <2> QED
    BY <2>1, AgesStep
<1>3. ASSUME TypeOK, Ages, Next, NEW k \in Keys,
             member[k] # None, member'[k] \notin {None, member[k]}
      PROVE  /\ member'[k].life = member[k].life
             /\ \E q \in Requests :
                  /\ request[q] # None /\ request[q].key = k /\ request[q].saw # None
                  /\ \/ request[q].saw = VersionOf(member[k])
                     \/ request[q].saw.life < member[k].life
  <2>1. PICK q \in Requests : PlaceMember(q) /\ request[q].key = k
    <3>1. ASSUME NEW p \in Projects, NEW u \in Users, CreateProject(p, u)
          PROVE  FALSE
      <4>1. k = <<p, u>>
        BY <1>3, <3>1 DEF TypeOK, CreateProject
      <4>2. status[ProjectOf(k)] = "absent"
        BY <3>1, <4>1, PairParts DEF CreateProject
      <4> QED
        BY <1>3, <4>2 DEF TypeOK
    <3>2. ASSUME NEW j \in Keys, RemoveMember(j)
          PROVE  FALSE
      BY <1>3, <3>2 DEF TypeOK, RemoveMember, DeleteProjectMember
    <3>3. ASSUME NEW u \in Users, ClearOrganizationMemberPlacements(u)
          PROVE  FALSE
      BY <1>3, <3>3 DEF ClearOrganizationMemberPlacements,
                        DeleteProjectMembersForOrganizationUser
    <3>4. \A q \in Requests : PlaceMember(q) => request[q].key = k
      BY <1>3 DEF TypeOK, PlaceMember
    <3> QED
      BY <1>3, <3>1, <3>2, <3>3, <3>4, MemberSteps
  <2>2. /\ request[q] # None /\ request[q].saw # None
        /\ member[k].version = request[q].saw.version
        /\ member'[k] = Placed(q)
    BY <1>3, <2>1 DEF TypeOK, PlaceMember, UpsertProjectMember
  <2>3. member'[k].life = member[k].life
    BY <1>3, <2>1, <2>2, PlacedRow
  <2>4. request[q].saw.life <= member[k].life
    BY <1>3, <2>1, <2>2 DEF Ages
  <2>5. request[q].saw \in Version /\ member[k] \in Row
    BY <1>3, <2>2, SawTypes, RowTypes
  <2>6. request[q].saw.life \in Nat /\ member[k].life \in Nat
    BY <2>5 DEF Version, Row
  <2>7. CASE request[q].saw.life = member[k].life
    <3>1. request[q].saw = VersionOf(member[k])
      BY <2>2, <2>5, <2>7 DEF Version, VersionOf
    <3> QED
      BY <2>1, <2>2, <2>3, <3>1
  <2>8. CASE request[q].saw.life < member[k].life
    BY <2>1, <2>2, <2>3, <2>8
  <2> QED
    BY <2>4, <2>6, <2>7, <2>8
<1>4. TypeOK /\ Ages /\ [Next]_vars =>
        [\A k \in Keys :
           member[k] # None /\ member'[k] \notin {None, member[k]} =>
             /\ member'[k].life = member[k].life
             /\ \E q \in Requests :
                  /\ request[q] # None /\ request[q].key = k /\ request[q].saw # None
                  /\ \/ request[q].saw = VersionOf(member[k])
                     \/ request[q].saw.life < member[k].life]_vars
  BY <1>3
<1> QED
  BY <1>1, <1>2, <1>4, TypeCorrect, PTL DEF Spec, EditsAreInformed

-----------------------------------------------------------------------------
(* Access that outlives a membership.                                      *)

\* Inductive: it is late already when the placements of a user are cleared.
Stale ==
  \A k \in Keys : member[k] # None =>
    /\ clearing[UserOf(k)] = "cleared" => member[k].late
    /\ UserOf(k) \in active => member[k].era = era[UserOf(k)] \/ member[k].late

LEMMA StaleStep ==
  ASSUME TypeOK, Stale, Next
  PROVE  Stale'
<1>1. ASSUME NEW p \in Projects, NEW u \in Users, CreateProject(p, u)
      PROVE  Stale'
  <2>1. /\ member' = [member EXCEPT ![<<p, u>>] = Founder(u)]
        /\ u \in active /\ lives < MaxLives /\ UNCHANGED <<active, era, clearing>>
    BY <1>1 DEF CreateProject, Founder
  <2>2. clearing[u] = "no" /\ Founder(u).era = era[u]
    BY <2>1, FounderRow DEF TypeOK
  <2> SUFFICES ASSUME NEW k \in Keys, member'[k] # None
               PROVE  /\ clearing'[UserOf(k)] = "cleared" => member'[k].late
                      /\ UserOf(k) \in active' =>
                           member'[k].era = era'[UserOf(k)] \/ member'[k].late
    BY DEF Stale
  <2>3. CASE k = <<p, u>>
    <3>1. member'[k] = Founder(u) /\ UserOf(k) = u
      BY <2>1, <2>3, PairParts DEF TypeOK
    <3> QED
      BY <2>1, <2>2, <3>1
  <2>4. CASE k # <<p, u>>
    <3>1. member'[k] = member[k]
      BY <2>1, <2>4 DEF TypeOK
    <3> QED
      BY <2>1, <3>1 DEF Stale
  <2> QED
    BY <2>3, <2>4
<1>2. ASSUME NEW q \in Requests, PlaceMember(q)
      PROVE  Stale'
  <2>1. /\ member' = [member EXCEPT ![request[q].key] = Placed(q)]
        /\ UNCHANGED <<active, era, clearing>>
    BY <1>2 DEF PlaceMember
  <2> SUFFICES ASSUME NEW k \in Keys, member'[k] # None
               PROVE  /\ clearing'[UserOf(k)] = "cleared" => member'[k].late
                      /\ UserOf(k) \in active' =>
                           member'[k].era = era'[UserOf(k)] \/ member'[k].late
    BY DEF Stale
  <2>2. CASE k = request[q].key
    <3>1. member'[k] = Placed(q)
      BY <2>1, <2>2 DEF TypeOK
    <3>2. /\ Placed(q).era = request[q].era
          /\ Placed(q).late = (clearing[UserOf(k)] = "cleared" \/ era[UserOf(k)] # request[q].era)
      BY <2>2, PlacedRow
    <3> QED
      BY <2>1, <3>1, <3>2
  <2>3. CASE k # request[q].key
    <3>1. member'[k] = member[k]
      BY <2>1, <2>3 DEF TypeOK
    <3> QED
      BY <2>1, <3>1 DEF Stale
  <2> QED
    BY <2>2, <2>3
<1>3. ASSUME NEW j \in Keys, RemoveMember(j)
      PROVE  Stale'
  BY <1>3 DEF TypeOK, RemoveMember, DeleteProjectMember, Stale
<1>4. ASSUME NEW u \in Users, ClearOrganizationMemberPlacements(u)
      PROVE  Stale'
  BY <1>4, KeyParts DEF TypeOK, ClearOrganizationMemberPlacements,
                        DeleteProjectMembersForOrganizationUser, Stale
<1>5. ASSUME NEW u \in Users, Leave(u) \/ CheckInactive(u) \/ Rejoin(u)
      PROVE  Stale'
  BY <1>5, KeyParts DEF TypeOK, Leave, CheckInactive, Rejoin, Stale
<1>6. CASE UNCHANGED <<member, active, era, clearing>>
  BY <1>6 DEF Stale
<1>7. \/ \E p \in Projects, u \in Users : CreateProject(p, u)
      \/ \E q \in Requests : PlaceMember(q)
      \/ \E k \in Keys : RemoveMember(k)
      \/ \E u \in Users : ClearOrganizationMemberPlacements(u)
      \/ \E u \in Users : Leave(u) \/ CheckInactive(u) \/ Rejoin(u)
      \/ UNCHANGED <<member, active, era, clearing>>
  BY DEF Next, ArchiveProject, UnarchiveProject, DeleteProject, CreateRole, CountRole,
         SoftDeleteRole, ViewMember, CheckMember, CheckRole, AbandonPlacement
<1> QED
  BY <1>1, <1>2, <1>3, <1>4, <1>5, <1>6, <1>7

\* Access from an earlier membership is the work of a late placement.
THEOREM StaleAccessIsRaced == Spec => []StaleAccessMeansRace
<1>1. Init => Stale
  BY DEF Init, Stale
<1>2. TypeOK /\ Stale /\ [Next]_vars => Stale'
  <2>1. ASSUME UNCHANGED vars, Stale
        PROVE  Stale'
    BY <2>1 DEF vars, Stale
  <2> QED
    BY <2>1, StaleStep
<1>3. Stale => StaleAccessMeansRace
  BY DEF Stale, StaleAccessMeansRace, GetUserProjectActions
<1> QED
  BY <1>1, <1>2, <1>3, TypeCorrect, PTL DEF Spec

-----------------------------------------------------------------------------
(* Roles that are gone.                                                    *)

\* The role of row k is deleted, or may be soon.
Gone(k) == \/ <<ProjectOf(k), member[k].role>> \in counted
           \/ ~GetRole(ProjectOf(k), member[k].role)

\* Inductive: a role whose uses have been counted is held only by rows that
\* were written after the count.
Dead ==
  \A k \in Keys : member[k] # None /\ Gone(k) => member[k].raced

LEMMA CountedUnused ==
  ASSUME TypeOK, NEW c \in Projects \X Custom, CountRoleUsage(c) = 0
  PROVE  \A k \in Keys : ~(ProjectOf(k) = c[1] /\ member[k] # None /\ member[k].role = c[2])
<1> DEFINE U == {k \in Keys : /\ ProjectOf(k) = c[1]
                              /\ member[k] # None /\ member[k].role = c[2]}
<1>1. IsFiniteSet(Keys)
  BY FiniteAssumption, FS_Product DEF Keys
<1>2. IsFiniteSet(U)
  BY <1>1, FS_Subset
<1>3. Cardinality(U) = 0
  BY DEF CountRoleUsage
<1>4. U = {}
  BY <1>2, <1>3, FS_EmptySet
<1> QED
  BY <1>4

LEMMA DeadStep ==
  ASSUME TypeOK, Dead, Next
  PROVE  Dead'
<1>1. ASSUME NEW p \in Projects, NEW u \in Users, CreateProject(p, u)
      PROVE  Dead'
  <2>1. /\ member' = [member EXCEPT ![<<p, u>>] = Founder(u)]
        /\ lives < MaxLives /\ UNCHANGED <<role, counted>>
    BY <1>1 DEF CreateProject, Founder
  <2> SUFFICES ASSUME NEW k \in Keys, member'[k] # None, Gone(k)'
               PROVE  member'[k].raced
    BY DEF Dead
  <2>2. CASE k = <<p, u>>
    <3>1. member'[k].role = Admin
      BY <2>1, <2>2, FounderRow DEF TypeOK
    <3>2. <<ProjectOf(k), Admin>> \notin counted
      BY AdminAssumption DEF TypeOK
    <3> QED
      BY <2>1, <3>1, <3>2 DEF Gone, GetRole
  <2>3. CASE k # <<p, u>>
    <3>1. member'[k] = member[k]
      BY <2>1, <2>3 DEF TypeOK
    <3> QED
      BY <2>1, <3>1 DEF Dead, Gone, GetRole
  <2> QED
    BY <2>2, <2>3
<1>2. ASSUME NEW q \in Requests, PlaceMember(q)
      PROVE  Dead'
  <2>1. /\ member' = [member EXCEPT ![request[q].key] = Placed(q)]
        /\ UNCHANGED <<role, counted>>
    BY <1>2 DEF PlaceMember
  <2> SUFFICES ASSUME NEW k \in Keys, member'[k] # None, Gone(k)'
               PROVE  member'[k].raced
    BY DEF Dead
  <2>2. CASE k = request[q].key
    <3>1. member'[k] = Placed(q)
      BY <2>1, <2>2 DEF TypeOK
    <3>2. /\ Placed(q).role = request[q].role
          /\ Placed(q).raced = (\/ <<ProjectOf(k), request[q].role>> \in counted
                                \/ ~GetRole(ProjectOf(k), request[q].role))
      BY <2>2, PlacedRow
    <3>3. \/ <<ProjectOf(k), request[q].role>> \in counted
          \/ ~GetRole(ProjectOf(k), request[q].role)
      BY <2>1, <3>1, <3>2 DEF Gone, GetRole
    <3> QED
      BY <3>1, <3>2, <3>3, Zenon
  <2>3. CASE k # request[q].key
    <3>1. member'[k] = member[k]
      BY <2>1, <2>3 DEF TypeOK
    <3> QED
      BY <2>1, <3>1 DEF Dead, Gone, GetRole
  <2> QED
    BY <2>2, <2>3
<1>3. CASE UNCHANGED <<role, counted>> /\ \A k \in Keys : member'[k] \in {None, member[k]}
  BY <1>3 DEF Dead, Gone, GetRole
<1>4. ASSUME NEW c \in Projects \X Custom, CreateRole(c)
      PROVE  Dead'
  <2>1. /\ role' = [role EXCEPT ![c] = "live"] /\ UNCHANGED <<counted, member>>
    BY <1>4 DEF CreateRole
  <2>2. \A k \in Keys : member[k] # None =>
          (GetRole(ProjectOf(k), member[k].role) => GetRole(ProjectOf(k), member[k].role)')
    BY <2>1, KeyParts DEF TypeOK, GetRole
  <2> QED
    BY <2>1, <2>2 DEF Dead, Gone
<1>5. ASSUME NEW c \in Projects \X Custom, CountRole(c)
      PROVE  Dead'
  <2>1. /\ counted' = counted \union {c} /\ UNCHANGED <<role, member>>
        /\ CountRoleUsage(c) = 0
    BY <1>5 DEF CountRole
  <2>2. \A k \in Keys : member[k] # None => <<ProjectOf(k), member[k].role>> # c
    BY <2>1, CountedUnused
  <2> QED
    BY <2>1, <2>2 DEF Dead, Gone, GetRole
<1>6. ASSUME NEW c \in Projects \X Custom, SoftDeleteRole(c)
      PROVE  Dead'
  <2>1. /\ c \in counted /\ role' = [role EXCEPT ![c] = "deleted"]
        /\ counted' = counted \ {c} /\ UNCHANGED member
    BY <1>6 DEF SoftDeleteRole
  <2>2. \A k \in Keys : member[k] # None =>
          \/ <<ProjectOf(k), member[k].role>> = c
          \/ GetRole(ProjectOf(k), member[k].role) => GetRole(ProjectOf(k), member[k].role)'
    BY <2>1, KeyParts DEF TypeOK, GetRole
  <2> QED
    BY <2>1, <2>2 DEF Dead, Gone
<1>7. ASSUME NEW j \in Keys, RemoveMember(j)
      PROVE  UNCHANGED <<role, counted>> /\ \A k \in Keys : member'[k] \in {None, member[k]}
  BY <1>7 DEF TypeOK, RemoveMember, DeleteProjectMember
<1>8. ASSUME NEW u \in Users, ClearOrganizationMemberPlacements(u)
      PROVE  UNCHANGED <<role, counted>> /\ \A k \in Keys : member'[k] \in {None, member[k]}
  BY <1>8 DEF ClearOrganizationMemberPlacements, DeleteProjectMembersForOrganizationUser
<1>9. \/ \E p \in Projects, u \in Users : CreateProject(p, u)
      \/ \E q \in Requests : PlaceMember(q)
      \/ \E k \in Keys : RemoveMember(k)
      \/ \E u \in Users : ClearOrganizationMemberPlacements(u)
      \/ \E c \in Projects \X Custom : CreateRole(c) \/ CountRole(c) \/ SoftDeleteRole(c)
      \/ UNCHANGED <<role, counted, member>>
  BY DEF Next, ArchiveProject, UnarchiveProject, DeleteProject, ViewMember, CheckMember,
         CheckRole, AbandonPlacement, Leave, CheckInactive, Rejoin
<1> QED
  BY <1>1, <1>2, <1>3, <1>4, <1>5, <1>6, <1>7, <1>8, <1>9

\* A placement with a deleted role comes of the race with the deletion.
THEOREM DeadRoleIsRaced == Spec => []DeadRoleMeansRace
<1>1. Init => Dead
  BY DEF Init, Dead
<1>2. TypeOK /\ Dead /\ [Next]_vars => Dead'
  <2>1. ASSUME UNCHANGED vars, Dead
        PROVE  Dead'
    BY <2>1 DEF vars, Dead, Gone, GetRole
  <2> QED
    BY <2>1, DeadStep
<1>3. Dead => DeadRoleMeansRace
  BY DEF Dead, Gone, DeadRoleMeansRace
<1> QED
  BY <1>1, <1>2, <1>3, TypeCorrect, PTL DEF Spec
=============================================================================
