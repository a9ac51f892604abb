--------------------------- MODULE ApprovalRules ---------------------------
(***************************************************************************)
(* The approval rules of one organization                                  *)
(* (internal/service/approval/service.go and reassign.go): rows of a       *)
(* project, or of the organization by default, that name an approver and a *)
(* step.  Administrators create, move and delete them, the first project   *)
(* of a creator seeds one, and identity has those of a leaving member      *)
(* reassigned.                                                             *)
(*                                                                         *)
(* Grain.  A transaction is one action.  Outside of it DeleteRule counts   *)
(* the default rules, and CreateRule and ReassignRules ask identity        *)
(* whether the approver is an active member; identity, for its part, asks  *)
(* whether a member has rules before it removes him.  A submit resolves its *)
(* approvers with two statements, each of which sees what is committed     *)
(* then.  Requests refused for want of rights change nothing and are left  *)
(* out.                                                                    *)
(***************************************************************************)
EXTENDS Integers, FiniteSets

CONSTANTS
  Projects,     \* projects of the organization
  Default,      \* the scope of the organization's default rules (project_id NULL)
  Approvers,    \* its members
  RuleIds,      \* bound on the rows ever created
  MaxStep,      \* steps are 1..MaxStep (10 in the code)
  MaxDeletes    \* bound on the DeleteRule requests in flight at once

ASSUME DefaultAssumption == Default \notin Projects
ASSUME StepAssumption == MaxStep \in Nat \ {0}
ASSUME DeletesAssumption == MaxDeletes \in Nat

VARIABLES
  rules,        \* live rows of approval_rules
  spent,        \* ids of deleted rows
  deleting,     \* ids whose DeleteRule has passed its count
  seeded,       \* whether the organization ever had a default rule
  active,       \* identity: the members
  leaving,      \* members identity has been told are approvers no more
  vouched,      \* members some request in flight has found active
  resolving     \* how far the submit of a transaction of each project has come

members == <<active, leaving, vouched>>
vars == <<rules, spent, deleting, seeded, members, resolving>>

Scopes == Projects \union {Default}

\* raced: the row was given to somebody on his way out, or gone.
Rows ==
  [id: RuleIds, scope: Scopes, approver: Approvers, step: 1..MaxStep,
   raced: BOOLEAN]

TypeOK ==
  /\ rules \subseteq Rows
  /\ \A a, b \in rules : a.id = b.id => a = b
  /\ spent \subseteq RuleIds \ {a.id : a \in rules}
  /\ deleting \subseteq RuleIds
  /\ seeded \in BOOLEAN
  /\ active \subseteq Approvers
  /\ leaving \subseteq active
  /\ vouched \subseteq Approvers
  /\ resolving \in [Projects -> {"no", "defaults", "refused"}]

Init ==
  /\ rules = {} /\ spent = {} /\ deleting = {} /\ seeded = FALSE
  /\ active = Approvers /\ leaving = {} /\ vouched = {}
  /\ resolving = [p \in Projects |-> "no"]

Fresh == RuleIds \ (spent \union {a.id : a \in rules})
In(s) == {a \in rules : a.scope = s}

\* The unique indexes: a live rule of scope s already names u.
Named(s, u) == \E a \in In(s) : a.approver = u

-----------------------------------------------------------------------------
(* Who is an approver, and who may be one. *)

ListProjectRulesByApprover(u) == {a \in rules : a.approver = u /\ a.scope # Default}

RulesOf(u) == {a \in rules : a.approver = u}
ListRulesByApprover(u) == RulesOf(u)

Raced(u) == u \in leaving \/ u \notin active

\* CreateRule or ReassignRules asks identity about the approver ...
IsMemberActive(u) ==
  /\ u \in active
  /\ vouched' = vouched \union {u}
  /\ UNCHANGED <<rules, spent, deleting, seeded, active, leaving, resolving>>

\* ... and the last such request about him ends.
ForgetMember(u) ==
  /\ u \in vouched
  /\ vouched' = vouched \ {u}
  /\ UNCHANGED <<rules, spent, deleting, seeded, active, leaving, resolving>>

\* Identity asks before it removes a member.
CheckApproverAssignments(u) ==
  /\ u \in active /\ ListRulesByApprover(u) = {}
  /\ leaving' = leaving \union {u}
  /\ UNCHANGED <<rules, spent, deleting, seeded, active, vouched, resolving>>

\* Identity commits the removal ...
RemoveMember(u) ==
  /\ u \in leaving
  /\ active' = active \ {u}
  /\ leaving' = leaving \ {u}
  /\ UNCHANGED <<rules, spent, deleting, seeded, vouched, resolving>>

\* ... or gives it up.
KeepMember(u) ==
  /\ u \in leaving
  /\ leaving' = leaving \ {u}
  /\ UNCHANGED <<rules, spent, deleting, seeded, active, vouched, resolving>>

-----------------------------------------------------------------------------
(* Administrators and projects. *)

Insert(s, u, n) ==
  /\ \E r \in Fresh :
       rules' = rules \union {[id |-> r, scope |-> s, approver |-> u, step |-> n,
                              raced |-> Raced(u)]}
  /\ seeded' = (seeded \/ s = Default)
  /\ UNCHANGED <<spent, deleting, members, resolving>>

\* A second rule for the same approver breaks a unique index and is refused.
CreateRule(s, u, n) == u \in vouched /\ ~Named(s, u) /\ Insert(s, u, n)

\* A new project makes its creator, a member held by his lease, a default
\* approver, unless he is one.
CreateDefaultApprovalRule(u) ==
  u \in active /\ ~Named(Default, u) /\ Insert(Default, u, 1)

UpdateRuleByCopy(a, n) ==
  /\ a \in rules
  /\ rules' = rules \union {[a EXCEPT !.step = n]}
  /\ UNCHANGED <<spent, deleting, seeded, members, resolving>>

UpdateRule(a, n) ==
  /\ a \in rules
  /\ rules' = (rules \ {a}) \union {[a EXCEPT !.step = n]}
  /\ UNCHANGED <<spent, deleting, seeded, members, resolving>>

CheckDeleteUncounted(a) ==
  /\ a \in rules
  /\ Cardinality(deleting) < MaxDeletes
  /\ deleting' = deleting \union {a.id}
  /\ UNCHANGED <<rules, spent, seeded, members, resolving>>

\* DeleteRule reads the row, and refuses the last default rule ...
CheckDelete(a) ==
  /\ a \in rules
  /\ a.scope = Default => Cardinality(In(Default)) > 1
  /\ Cardinality(deleting) < MaxDeletes
  /\ deleting' = deleting \union {a.id}
  /\ UNCHANGED <<rules, spent, seeded, members, resolving>>

\* ... and then deletes it by id, if it is still there.
DeleteRule(r) ==
  /\ r \in deleting
  /\ rules' = {a \in rules : a.id # r}
  /\ spent' = spent \union {a.id : a \in rules \ rules'}
  /\ deleting' = deleting \ {r}
  /\ UNCHANGED <<seeded, members, resolving>>

\* The request ends between the two.
AbandonDelete(r) ==
  /\ r \in deleting
  /\ deleting' = deleting \ {r}
  /\ UNCHANGED <<rules, spent, seeded, members, resolving>>

Move(as, to) ==
  (rules \ as) \union {[a EXCEPT !.approver = to, !.raced = Raced(to)] : a \in as}

\* Identity may now remove from.
Reassigned(from) ==
  /\ leaving' = leaving \union ({from} \intersect active)
  /\ UNCHANGED <<spent, deleting, seeded, active, vouched, resolving>>

ReassignWhatFits(from, to) ==
  /\ from # to /\ to \in vouched
  /\ ListRulesByApprover(from) # {}
  /\ rules' = Move({a \in RulesOf(from) : ~Named(a.scope, to)}, to)
  /\ Reassigned(from)

ReassignBlindly(from, to) ==
  /\ from # to /\ to \in vouched
  /\ ListRulesByApprover(from) # {}
  /\ rules' = Move(RulesOf(from), to)
  /\ Reassigned(from)

\* One UPDATE moves every rule of from; if one of them breaks a unique index,
\* none is moved.
ReassignRules(from, to) ==
  /\ from # to /\ to \in vouched
  /\ ListRulesByApprover(from) # {}
  /\ \A a \in RulesOf(from) : ~Named(a.scope, to)
  /\ rules' = Move(RulesOf(from), to)
  /\ Reassigned(from)

-----------------------------------------------------------------------------
(* Submit resolves its approvers. *)

\* The project's own rules are read first; if there are any, they are it.
ResolveProjectRules(p) ==
  /\ resolving[p] = "no" /\ In(p) = {}
  /\ resolving' = [resolving EXCEPT ![p] = "defaults"]
  /\ UNCHANGED <<rules, spent, deleting, seeded, members>>

\* Then the defaults; without any the submit is refused.
ResolveDefaultRules(p) ==
  /\ resolving[p] = "defaults"
  /\ resolving' = [resolving EXCEPT ![p] = IF In(Default) = {} THEN "refused" ELSE "no"]
  /\ UNCHANGED <<rules, spent, deleting, seeded, members>>

\* The request ends: refused, or given up in between.
AbandonSubmit(p) ==
  /\ resolving[p] # "no"
  /\ resolving' = [resolving EXCEPT ![p] = "no"]
  /\ UNCHANGED <<rules, spent, deleting, seeded, members>>

Next ==
  \/ \E s \in Scopes, u \in Approvers, n \in 1..MaxStep : CreateRule(s, u, n)
  \/ \E u \in Approvers :
       \/ CreateDefaultApprovalRule(u) \/ IsMemberActive(u) \/ ForgetMember(u)
       \/ CheckApproverAssignments(u) \/ RemoveMember(u) \/ KeepMember(u)
  \/ \E p \in Projects :
       ResolveProjectRules(p) \/ ResolveDefaultRules(p) \/ AbandonSubmit(p)
  \/ \E a \in rules, n \in 1..MaxStep : UpdateRule(a, n)
  \/ \E a \in rules : CheckDelete(a)
  \/ \E r \in deleting : DeleteRule(r) \/ AbandonDelete(r)
  \/ \E from, to \in Approvers : ReassignRules(from, to)

Spec == Init /\ [][Next]_vars

-----------------------------------------------------------------------------
(* Properties.                                                             *)

\* No scope names an approver twice, whatever is created and reassigned: a
\* submit would write two approvals for one approver, which the unique index
\* of approvals refuses, and the project could submit nothing any more.
OneRulePerApprover ==
  \A a, b \in rules : a.scope = b.scope /\ a.approver = b.approver => a = b

\* A reassignment leaves no rule behind: identity removes the member after it,
\* and a rule that still names him would ask nobody.
ReassignIsWhole ==
  [][\A a \in rules : \A b \in rules' :
       a.id = b.id /\ a.approver # b.approver =>
         \A c \in rules' : c.approver # a.approver]_vars

\* A rule names somebody who is no member any more, and so asks nobody, only if
\* it was written after identity had been told that he had none.
OrphanRulesMeanRace ==
  \A a \in rules : a.approver \notin active => a.raced

\* Whatever is created, moved and deleted between the two statements by which a
\* submit resolves its approvers, it is refused for want of one
\* (ErrNoApproverResolved) only while the organization has never had a default rule.
SubmitsFindApprovers ==
  [][\A p \in Projects :
       resolving[p] # "refused" /\ resolving'[p] = "refused" => ~seeded]_vars

\* Stated by ErrLastApprovalRule (errors.go:36), "cannot delete the last
\* approval rule": once there was a default rule, there is one, so a submit
\* always finds an approver.
DefaultRulesSurvive == seeded => In(Default) # {}
=============================================================================
