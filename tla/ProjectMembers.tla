---------------------------- MODULE ProjectMembers ---------------------------
(***************************************************************************)
(* The projects of an organization, their roles and the placement of its   *)
(* members in them (internal/service/project/service.go, role/service.go,  *)
(* handler/grpc/expense.go).  Whether somebody is a member at all is known *)
(* to identity only, in another database: a placement asks it, and then    *)
(* the roles, before the transaction that writes the row, and identity has *)
(* the rows of an earlier membership cleared before it takes him back.     *)
(*                                                                         *)
(* Grain.  A transaction that locks the project row first is one action,   *)
(* a read outside it another.  Permissions of a role, names and the audit  *)
(* events are left out.  What a client sends as expected_version is the    *)
(* version the listing showed him, or none if it showed no row.  Deletion  *)
(* of a project is refused while it has transactions or documents, which   *)
(* is DocumentUpload's matter: here it may always succeed.                 *)
(***************************************************************************)
EXTENDS Integers, FiniteSets

CONSTANTS
  Projects,
  Users,
  Admin,        \* the seeded system role every creator is placed with
  Custom,       \* bound on the roles created later in a project
  Requests,     \* bound on the placements in flight at once
  MaxLives,     \* bound on the rows ever inserted
  MaxVersion,   \* bound on the version of a row
  MaxEra,       \* bound on the memberships of one user
  None

ASSUME FiniteAssumption == IsFiniteSet(Projects) /\ IsFiniteSet(Users)
ASSUME AdminAssumption == Admin \notin Custom
ASSUME BoundAssumption == {MaxLives, MaxVersion, MaxEra} \subseteq Nat \ {0}

VARIABLES
  status,       \* of each project
  role,         \* of each custom role of each project: absent, live, deleted
  counted,      \* custom roles whose deletion has found them unused
  member,       \* the row of project_members under its primary key, or None
  lives,        \* rows ever inserted
  active,       \* identity: the users who are members now
  era,          \* identity: how many memberships a user has had
  clearing,     \* how far the call that clears a user's placements has come
  request       \* placements in flight

vars == <<status, role, counted, member, lives, active, era, clearing, request>>

Keys == Projects \X Users
Roles == Custom \union {Admin}
ProjectOf(k) == k[1]
UserOf(k) == k[2]

\* A row with what a reader may want to know of its writer: which insertion
\* it stems from, in which membership the user was verified, whether those
\* placements had already been cleared, and whether the role was on its way out.
Row ==
  [role: Roles, version: 1..MaxVersion, life: 1..MaxLives,
   era: 1..MaxEra, late: BOOLEAN, raced: BOOLEAN]

\* What a listing shows of a row, with the insertion it stems from.
Version == [version: 1..MaxVersion, life: 1..MaxLives]

Placement ==
  [pc: {"viewed", "member", "checked"}, key: Keys, role: Roles,
   saw: Version \union {None}, era: 0..MaxEra]

TypeOK ==
  /\ status \in [Projects -> {"absent", "open", "archived", "deleted"}]
  /\ role \in [Projects \X Custom -> {"absent", "live", "deleted"}]
  /\ counted \subseteq {c \in Projects \X Custom : role[c] # "absent"}
  /\ member \in [Keys -> Row \union {None}]
  /\ \A k \in Keys : status[ProjectOf(k)] = "absent" => member[k] = None
  /\ lives \in 0..MaxLives
  /\ active \subseteq Users
  /\ era \in [Users -> 1..MaxEra]
  /\ clearing \in [Users -> {"no", "checked", "cleared"}]
  /\ \A u \in active : clearing[u] = "no"
  /\ request \in [Requests -> Placement \union {None}]

Init ==
  /\ status = [p \in Projects |-> "absent"]
  /\ role = [c \in Projects \X Custom |-> "absent"]
  /\ counted = {}
  /\ member = [k \in Keys |-> None]
  /\ lives = 0
  /\ active = Users
  /\ era = [u \in Users |-> 1]
  /\ clearing = [u \in Users |-> "no"]
  /\ request = [q \in Requests |-> None]

-----------------------------------------------------------------------------
(* The queries. *)

\* A live role of project p.
GetRole(p, r) == r = Admin \/ (r \in Custom /\ role[<<p, r>>] = "live")

VersionOf(row) == [version |-> row.version, life |-> row.life]

\* The row as the listing shows it: not at all once its role is deleted.
ListProjectMembers(k) ==
  IF member[k] # None /\ GetRole(ProjectOf(k), member[k].role)
    THEN VersionOf(member[k]) ELSE None

\* What lets a member act in a project.
GetUserProjectActions(k) ==
  member[k] # None /\ GetRole(ProjectOf(k), member[k].role)

\* Both the first read of a project and the lock find archived ones, too.
GetProject(p) == status[p] \in {"open", "archived"}
LockProjectForDelete(p) == GetProject(p)

CountRoleUsageInOpenProjects(c) ==
  Cardinality({k \in Keys : /\ ProjectOf(k) = c[1]
                            /\ status[c[1]] = "open"
                            /\ member[k] # None /\ member[k].role = c[2]})

CountRoleUsage(c) ==
  Cardinality({k \in Keys : /\ ProjectOf(k) = c[1]
                            /\ member[k] # None /\ member[k].role = c[2]})

UpsertAnyVersion(q) ==
  LET k == request[q].key IN member[k] # None => request[q].saw # None

\* The conflict clause: a row that is there is replaced only at the version
\* the client saw; one that is not is inserted, whatever he saw.
UpsertProjectMember(q) ==
  LET k == request[q].key IN
  member[k] # None =>
    request[q].saw # None /\ member[k].version = request[q].saw.version

-----------------------------------------------------------------------------
(* Projects. *)

\* The creator, a member held by his lease, is placed with the new project.
CreateProject(p, u) ==
  /\ status[p] = "absent" /\ u \in active /\ lives < MaxLives
  /\ status' = [status EXCEPT ![p] = "open"]
  /\ member' = [member EXCEPT ![<<p, u>>] =
       [role |-> Admin, version |-> 1, life |-> lives + 1, era |-> era[u],
        late |-> FALSE, raced |-> FALSE]]
  /\ lives' = lives + 1
  /\ UNCHANGED <<role, counted, active, era, clearing, request>>

ArchiveProject(p) ==
  /\ status[p] = "open"
  /\ status' = [status EXCEPT ![p] = "archived"]
  /\ UNCHANGED <<role, counted, member, lives, active, era, clearing, request>>

UnarchiveProject(p) ==
  /\ status[p] = "archived"
  /\ status' = [status EXCEPT ![p] = "open"]
  /\ UNCHANGED <<role, counted, member, lives, active, era, clearing, request>>

\* Placements stay where they are.
DeleteProject(p) ==
  /\ LockProjectForDelete(p)
  /\ status' = [status EXCEPT ![p] = "deleted"]
  /\ UNCHANGED <<role, counted, member, lives, active, era, clearing, request>>

-----------------------------------------------------------------------------
(* Custom roles.  Nobody asks whether the project is open. *)

CreateRole(c) ==
  /\ status[c[1]] # "absent" /\ role[c] = "absent"
  /\ role' = [role EXCEPT ![c] = "live"]
  /\ UNCHANGED <<status, counted, member, lives, active, era, clearing, request>>

\* Delete, first half: the role is found and its placements are counted.
CountRole(c) ==
  /\ role[c] = "live" /\ CountRoleUsage(c) = 0
  /\ counted' = counted \union {c}
  /\ UNCHANGED <<status, role, member, lives, active, era, clearing, request>>

\* Second half, a transaction of its own that locks no project.
SoftDeleteRole(c) ==
  /\ c \in counted
  /\ role' = [role EXCEPT ![c] = "deleted"]
  /\ counted' = counted \ {c}
  /\ UNCHANGED <<status, member, lives, active, era, clearing, request>>

-----------------------------------------------------------------------------
(* Placements. *)

\* An administrator opens the listing and chooses a role for user u.
ViewMember(q, k, r) ==
  /\ request[q] = None /\ status[ProjectOf(k)] # "absent"
  /\ request' = [request EXCEPT ![q] =
       [pc |-> "viewed", key |-> k, role |-> r,
        saw |-> ListProjectMembers(k), era |-> 0]]
  /\ UNCHANGED <<status, role, counted, member, lives, active, era, clearing>>

\* PlaceMember reads the project and asks identity.
CheckMember(q) ==
  /\ request[q] # None /\ request[q].pc = "viewed"
  /\ GetProject(ProjectOf(request[q].key))
  /\ status[ProjectOf(request[q].key)] # "archived"
  /\ UserOf(request[q].key) \in active
  /\ request' = [request EXCEPT ![q].pc = "member",
                                ![q].era = era[UserOf(request[q].key)]]
  /\ UNCHANGED <<status, role, counted, member, lives, active, era, clearing>>

CheckRole(q) ==
  /\ request[q] # None /\ request[q].pc = "member"
  /\ GetRole(ProjectOf(request[q].key), request[q].role)
  /\ request' = [request EXCEPT ![q].pc = "checked"]
  /\ UNCHANGED <<status, role, counted, member, lives, active, era, clearing>>

\* The row request q writes.
Placed(q) ==
  LET k == request[q].key
      u == UserOf(k)
      c == <<ProjectOf(k), request[q].role>>
  IN [role |-> request[q].role,
      version |-> IF member[k] = None THEN 1 ELSE member[k].version + 1,
      life |-> IF member[k] = None THEN lives + 1 ELSE member[k].life,
      era |-> request[q].era,
      late |-> clearing[u] = "cleared" \/ era[u] # request[q].era,
      raced |-> c \in counted \/ ~GetRole(c[1], c[2])]

\* The transaction: the project is locked and looked at again, then the row
\* is written, on the strength of the answers about the member and the role.
PlaceMember(q) ==
  /\ request[q] # None /\ request[q].pc = "checked"
  /\ LockProjectForDelete(ProjectOf(request[q].key))
  /\ status[ProjectOf(request[q].key)] # "archived"
  /\ UpsertProjectMember(q) /\ Placed(q) \in Row   \* the bounds
  /\ member' = [member EXCEPT ![request[q].key] = Placed(q)]
  /\ lives' = IF member[request[q].key] = None THEN lives + 1 ELSE lives
  /\ request' = [request EXCEPT ![q] = None]
  /\ UNCHANGED <<status, role, counted, active, era, clearing>>

\* A check fails, the version has changed, the process or its client dies.
AbandonPlacement(q) ==
  /\ request[q] # None
  /\ request' = [request EXCEPT ![q] = None]
  /\ UNCHANGED <<status, role, counted, member, lives, active, era, clearing>>

DeleteProjectMember(k) == [member EXCEPT ![k] = None]

\* Allowed in an archived project.
RemoveMember(k) ==
  /\ LockProjectForDelete(ProjectOf(k)) /\ member[k] # None
  /\ member' = DeleteProjectMember(k)
  /\ UNCHANGED <<status, role, counted, lives, active, era, clearing, request>>

-----------------------------------------------------------------------------
(* Identity removes a user from the organization and takes him back. *)

Leave(u) ==
  /\ u \in active
  /\ active' = active \ {u}
  /\ UNCHANGED <<status, role, counted, member, lives, era, clearing, request>>

CheckNobody(u) ==
  /\ clearing' = [clearing EXCEPT ![u] = "checked"]
  /\ UNCHANGED <<status, role, counted, member, lives, active, era, request>>

\* ClearRejoinedMemberProjectAccess: refused for an active member.
CheckInactive(u) ==
  /\ u \notin active
  /\ clearing' = [clearing EXCEPT ![u] = "checked"]
  /\ UNCHANGED <<status, role, counted, member, lives, active, era, request>>

ClearOpenProjects(u) ==
  /\ clearing[u] = "checked"
  /\ member' = [k \in Keys |->
       IF UserOf(k) = u /\ status[ProjectOf(k)] = "open" THEN None ELSE member[k]]
  /\ clearing' = [clearing EXCEPT ![u] = "cleared"]
  /\ UNCHANGED <<status, role, counted, lives, active, era, request>>

\* One statement over all projects; it locks none of them.
DeleteProjectMembersForOrganizationUser(u) ==
  [k \in Keys |-> IF UserOf(k) = u THEN None ELSE member[k]]

ClearOrganizationMemberPlacements(u) ==
  /\ clearing[u] = "checked"
  /\ member' = DeleteProjectMembersForOrganizationUser(u)
  /\ clearing' = [clearing EXCEPT ![u] = "cleared"]
  /\ UNCHANGED <<status, role, counted, lives, active, era, request>>

\* Only after the answer to the call above.
Rejoin(u) ==
  /\ clearing[u] = "cleared" /\ era[u] < MaxEra
  /\ active' = active \union {u}
  /\ era' = [era EXCEPT ![u] = @ + 1]
  /\ clearing' = [clearing EXCEPT ![u] = "no"]
  /\ UNCHANGED <<status, role, counted, member, lives, request>>

Next ==
  \/ \E p \in Projects :
       \/ ArchiveProject(p) \/ UnarchiveProject(p) \/ DeleteProject(p)
       \/ \E u \in Users : CreateProject(p, u)
  \/ \E c \in Projects \X Custom :
       CreateRole(c) \/ CountRole(c) \/ SoftDeleteRole(c)
  \/ \E q \in Requests :
       \/ \E k \in Keys, r \in Roles : ViewMember(q, k, r)
       \/ CheckMember(q) \/ CheckRole(q) \/ PlaceMember(q)
       \/ AbandonPlacement(q)
  \/ \E k \in Keys : RemoveMember(k)
  \/ \E u \in Users :
       \/ Leave(u) \/ CheckInactive(u)
       \/ ClearOrganizationMemberPlacements(u) \/ Rejoin(u)

Spec == Init /\ [][Next]_vars

-----------------------------------------------------------------------------
(* Properties. *)

\* No lost update: whoever changes somebody's role has seen the row he
\* replaces, or a row of an earlier placement that has been removed since (the
\* versions of a new row start over).
EditsAreInformed ==
  [][\A k \in Keys :
       member[k] # None /\ member'[k] \notin {None, member[k]} =>
         /\ member'[k].life = member[k].life
         /\ \E q \in Requests :
              /\ request[q] # None /\ request[q].key = k /\ request[q].saw # None
              /\ \/ request[q].saw = VersionOf(member[k])
                 \/ request[q].saw.life < member[k].life]_vars

\* A row whose role is deleted, invisible in the listing, comes of a placement
\* that ran between the count of the role's uses and its deletion, or of one
\* that had read the role before.
DeadRoleMeansRace ==
  \A k \in Keys :
    member[k] # None /\ ~GetRole(ProjectOf(k), member[k].role) => member[k].raced

\* A member who is back in the organization has no access from his earlier
\* membership, unless a placement that had verified him then was written after
\* his placements had been cleared.
StaleAccessMeansRace ==
  \A k \in Keys :
    UserOf(k) \in active /\ GetUserProjectActions(k) =>
      member[k].era = era[UserOf(k)] \/ member[k].late
=============================================================================
