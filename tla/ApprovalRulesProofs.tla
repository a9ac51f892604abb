------------------------ MODULE ApprovalRulesProofs ------------------------
(***************************************************************************)
(* Theorems about ApprovalRules for every set of projects, members and     *)
(* rule ids and every number of steps; those about the default rules, while *)
(* no two of them are under deletion at once.                              *)
(***************************************************************************)
EXTENDS ApprovalRules, FiniteSetTheorems, TLAPS

\* The steps that leave the rules alone, and the members too.
SubmitStep ==
  \E p \in Projects : ResolveProjectRules(p) \/ ResolveDefaultRules(p) \/ AbandonSubmit(p)

\* What a step may do to the rules.
LEMMA Steps ==
  ASSUME Next
  PROVE  \/ \E s \in Scopes, u \in Approvers, n \in 1..MaxStep :
              ~Named(s, u) /\ Insert(s, u, n)
         \/ \E u \in Approvers :
              \/ IsMemberActive(u) \/ ForgetMember(u)
              \/ CheckApproverAssignments(u) \/ RemoveMember(u) \/ KeepMember(u)
         \/ SubmitStep
         \/ \E a \in rules, n \in 1..MaxStep : UpdateRule(a, n)
         \/ \E a \in rules : CheckDelete(a)
         \/ \E r \in deleting : DeleteRule(r) \/ AbandonDelete(r)
         \/ \E from, to \in Approvers : ReassignRules(from, to)
<1>1. ASSUME NEW s \in Scopes, NEW u \in Approvers, NEW n \in 1..MaxStep, CreateRule(s, u, n)
      PROVE  ~Named(s, u) /\ Insert(s, u, n)
  BY <1>1 DEF CreateRule
<1>2. ASSUME NEW u \in Approvers, CreateDefaultApprovalRule(u)
      PROVE  Default \in Scopes /\ 1 \in 1..MaxStep /\ ~Named(Default, u) /\ Insert(Default, u, 1)
  BY <1>2, StepAssumption DEF CreateDefaultApprovalRule, Scopes
<1> QED
  BY <1>1, <1>2 DEF Next, SubmitStep

\* Those that change the rules.
LEMMA RuleSteps ==
  ASSUME Next, ~UNCHANGED rules
  PROVE  \/ \E s \in Scopes, u \in Approvers, n \in 1..MaxStep :
              ~Named(s, u) /\ Insert(s, u, n)
         \/ \E a \in rules, n \in 1..MaxStep : UpdateRule(a, n)
         \/ \E r \in deleting : DeleteRule(r)
         \/ \E from, to \in Approvers : ReassignRules(from, to)
BY Steps DEF IsMemberActive, ForgetMember, CheckApproverAssignments, RemoveMember,
             KeepMember, SubmitStep, ResolveProjectRules, ResolveDefaultRules,
             AbandonSubmit, CheckDelete, AbandonDelete

-----------------------------------------------------------------------------
(* Type correctness.                                                       *)

LEMMA InsertTypes ==
  ASSUME TypeOK, NEW s \in Scopes, NEW u \in Approvers, NEW n \in 1..MaxStep,
         Insert(s, u, n)
  PROVE  TypeOK'
<1> DEFINE row(r) == [id |-> r, scope |-> s, approver |-> u, step |-> n, raced |-> Raced(u)]
<1>1. PICK r \in Fresh : rules' = rules \union {row(r)}
  BY DEF Insert
<1>2. row(r) \in Rows
  BY DEF Fresh, Rows, Raced
<1>3. \A a \in rules : a.id # r
  BY DEF Fresh
<1>4. r \notin spent
  BY DEF Fresh
<1>5. seeded' \in BOOLEAN /\ UNCHANGED <<spent, deleting, members, resolving>>
  BY DEF Insert, TypeOK
<1>6. row(r).id = r
  OBVIOUS
<1> HIDE DEF row
<1>7. rules' \subseteq Rows
  BY <1>1, <1>2 DEF TypeOK
<1>8. \A a, b \in rules' : a.id = b.id => a = b
  BY <1>1, <1>3, <1>6 DEF TypeOK
<1>9. spent' \subseteq RuleIds \ {a.id : a \in rules'}
  BY <1>1, <1>4, <1>5, <1>6 DEF TypeOK
<1> QED
  BY <1>5, <1>7, <1>8, <1>9 DEF TypeOK, members

LEMMA UpdateTypes ==
  ASSUME TypeOK, NEW a \in rules, NEW n \in 1..MaxStep, UpdateRule(a, n)
  PROVE  TypeOK'
<1> DEFINE new == [a EXCEPT !.step = n]
<1>1. rules' = (rules \ {a}) \union {new} /\ UNCHANGED <<spent, deleting, seeded, members, resolving>>
  BY DEF UpdateRule
<1>2. a \in Rows
  BY DEF TypeOK
<1>3. new \in Rows /\ new.id = a.id
  BY <1>2 DEF Rows
<1> HIDE DEF new
<1>4. rules' \subseteq Rows
  BY <1>1, <1>3 DEF TypeOK
<1>5. \A b, c \in rules' : b.id = c.id => b = c
  BY <1>1, <1>3 DEF TypeOK
<1>6. spent' \subseteq RuleIds \ {b.id : b \in rules'}
  BY <1>1, <1>3 DEF TypeOK
<1> QED
  BY <1>1, <1>4, <1>5, <1>6 DEF TypeOK, members

\* What a reassignment makes of a rule.
Moved(a, to) == [a EXCEPT !.approver = to, !.raced = Raced(to)]

\* A moved rule keeps everything but its approver and the mark.
LEMMA MovedRow ==
  ASSUME TypeOK, NEW a \in rules, NEW to \in Approvers
  PROVE  /\ Moved(a, to) \in Rows
         /\ Moved(a, to).id = a.id /\ Moved(a, to).scope = a.scope
         /\ Moved(a, to).approver = to /\ Moved(a, to).raced = Raced(to)
<1>1. a \in Rows
  BY DEF TypeOK
<1> QED
  BY <1>1 DEF Rows, Raced, Moved

\* Every row of a reassignment's result stems from a row of the same id.
LEMMA MovedFrom ==
  ASSUME NEW from \in Approvers, NEW to \in Approvers,
         ReassignRules(from, to), NEW b \in rules'
  PROVE  \E a \in rules : IF a.approver = from THEN b = Moved(a, to) ELSE b = a
<1>1. b \in (rules \ RulesOf(from)) \union {Moved(a, to) : a \in RulesOf(from)}
  BY DEF ReassignRules, Move, Moved
<1>2. CASE b \in rules \ RulesOf(from)
  BY <1>2 DEF RulesOf
<1>3. CASE b \in {Moved(a, to) : a \in RulesOf(from)}
  BY <1>3 DEF RulesOf
<1> QED
  BY <1>1, <1>2, <1>3

\* And every row there was has one of the same id and scope in the result.
LEMMA MovedTo ==
  ASSUME TypeOK, NEW from \in Approvers, NEW to \in Approvers,
         ReassignRules(from, to), NEW a \in rules
  PROVE  \E b \in rules' : b.id = a.id /\ b.scope = a.scope
<1>0. rules' = (rules \ RulesOf(from)) \union {Moved(c, to) : c \in RulesOf(from)}
  BY DEF ReassignRules, Move, Moved
<1>1. CASE a.approver = from
  BY <1>0, <1>1, MovedRow DEF RulesOf
<1>2. CASE a.approver # from
  BY <1>0, <1>2 DEF RulesOf
<1> QED
  BY <1>1, <1>2

LEMMA ReassignTypes ==
  ASSUME TypeOK, NEW from \in Approvers, NEW to \in Approvers, ReassignRules(from, to)
  PROVE  TypeOK'
<1>1. ASSUME NEW b \in rules'
      PROVE  b \in Rows /\ \E a \in rules : b.id = a.id
  <2>1. PICK a \in rules : IF a.approver = from THEN b = Moved(a, to) ELSE b = a
    BY MovedFrom
  <2> QED
    BY <2>1, MovedRow DEF TypeOK
<1>2. ASSUME NEW b \in rules', NEW c \in rules', b.id = c.id
      PROVE  b = c
  <2>1. PICK x \in rules : IF x.approver = from THEN b = Moved(x, to) ELSE b = x
    BY MovedFrom
  <2>2. PICK y \in rules : IF y.approver = from THEN c = Moved(y, to) ELSE c = y
    BY MovedFrom
  <2>3. x.id = b.id /\ y.id = c.id
    BY <2>1, <2>2, MovedRow
  <2>4. x = y
    BY <1>2, <2>3 DEF TypeOK
  <2> QED
    BY <2>1, <2>2, <2>4
<1>3. leaving' \subseteq active' /\ UNCHANGED <<spent, deleting, seeded, active, vouched, resolving>>
  BY DEF ReassignRules, Reassigned, TypeOK
<1>4. spent' \subseteq RuleIds \ {b.id : b \in rules'}
  <2>1. \A b \in rules' : b.id \in {a.id : a \in rules}
    BY <1>1
  <2> QED
    BY <1>3, <2>1 DEF TypeOK
<1> QED
  BY <1>1, <1>2, <1>3, <1>4 DEF TypeOK

LEMMA Typing == TypeOK /\ [Next]_vars => TypeOK'
<1> SUFFICES ASSUME TypeOK, [Next]_vars
             PROVE  TypeOK'
  OBVIOUS
<1>1. CASE UNCHANGED vars
  BY <1>1 DEF TypeOK, vars, members
<1>2. ASSUME NEW u \in Approvers,
             \/ IsMemberActive(u) \/ ForgetMember(u)
             \/ CheckApproverAssignments(u) \/ RemoveMember(u) \/ KeepMember(u)
      PROVE  TypeOK'
  BY <1>2 DEF TypeOK, IsMemberActive, ForgetMember, CheckApproverAssignments,
              RemoveMember, KeepMember
<1>3. CASE SubmitStep
  BY <1>3 DEF TypeOK, SubmitStep, ResolveProjectRules, ResolveDefaultRules, AbandonSubmit,
              members
<1>4. ASSUME NEW a \in rules, CheckDelete(a)
      PROVE  TypeOK'
  <2>1. a.id \in RuleIds
    BY DEF TypeOK, Rows
  <2> QED
    BY <1>4, <2>1 DEF TypeOK, CheckDelete, members
<1>5. ASSUME NEW r \in deleting, DeleteRule(r) \/ AbandonDelete(r)
      PROVE  TypeOK'
  <2>1. CASE DeleteRule(r)
    <3>1. /\ rules' = {a \in rules : a.id # r}
          /\ spent' = spent \union {a.id : a \in rules \ rules'}
          /\ deleting' = deleting \ {r}
          /\ UNCHANGED <<seeded, members, resolving>>
      BY <2>1 DEF DeleteRule
    <3>2. \A a \in rules \ rules' : a.id = r /\ a.id \in RuleIds
      BY <3>1 DEF TypeOK, Rows
    <3>3. spent' \subseteq RuleIds \ {a.id : a \in rules'}
      BY <3>1, <3>2 DEF TypeOK
    <3> QED
      BY <3>1, <3>3 DEF TypeOK, members
  <2>2. CASE AbandonDelete(r)
    BY <2>2 DEF TypeOK, AbandonDelete, members
  <2> QED
    BY <1>5, <2>1, <2>2
<1> QED
  BY <1>1, <1>2, <1>3, <1>4, <1>5, Steps, InsertTypes, UpdateTypes, ReassignTypes

\* Every state of every behaviour is well typed.
THEOREM TypeCorrect == Spec => []TypeOK
<1>1. Init => TypeOK
  BY DEF Init, TypeOK
<1> QED
  BY <1>1, Typing, PTL DEF Spec

-----------------------------------------------------------------------------
(* Who is named by a rule.                                                 *)

LEMMA OneRuleStep ==
  TypeOK /\ OneRulePerApprover /\ [Next]_vars => OneRulePerApprover'
<1> SUFFICES ASSUME TypeOK, OneRulePerApprover, [Next]_vars
             PROVE  OneRulePerApprover'
  OBVIOUS
<1>1. ASSUME UNCHANGED rules
      PROVE  OneRulePerApprover'
  BY <1>1 DEF OneRulePerApprover
<1>2. ASSUME NEW s \in Scopes, NEW u \in Approvers, NEW n \in 1..MaxStep,
             ~Named(s, u), Insert(s, u, n)
      PROVE  OneRulePerApprover'
  <2>1. PICK r \in Fresh :
          rules' = rules \union {[id |-> r, scope |-> s, approver |-> u, step |-> n,
                                 raced |-> Raced(u)]}
    BY <1>2 DEF Insert
  <2>2. \A a \in rules : ~(a.scope = s /\ a.approver = u)
    BY <1>2 DEF Named, In
  <2> QED
    BY <2>1, <2>2 DEF OneRulePerApprover
<1>3. ASSUME NEW a \in rules, NEW n \in 1..MaxStep, UpdateRule(a, n)
      PROVE  OneRulePerApprover'
  <2> DEFINE new == [a EXCEPT !.step = n]
  <2>1. rules' = (rules \ {a}) \union {new}
    BY <1>3 DEF UpdateRule
  <2>2. a \in Rows
    BY DEF TypeOK
  <2>3. new.scope = a.scope /\ new.approver = a.approver
    BY <2>2 DEF Rows
  <2> HIDE DEF new
  <2> QED
    BY <2>1, <2>3 DEF OneRulePerApprover
<1>4. ASSUME NEW r \in deleting, DeleteRule(r)
      PROVE  OneRulePerApprover'
  BY <1>4 DEF DeleteRule, OneRulePerApprover
<1>5. ASSUME NEW from \in Approvers, NEW to \in Approvers, ReassignRules(from, to)
      PROVE  OneRulePerApprover'
  <2> SUFFICES ASSUME NEW b \in rules', NEW c \in rules',
                      b.scope = c.scope, b.approver = c.approver
               PROVE  b = c
    BY DEF OneRulePerApprover
  <2>1. PICK x \in rules : IF x.approver = from THEN b = Moved(x, to) ELSE b = x
    BY <1>5, MovedFrom
  <2>2. PICK y \in rules : IF y.approver = from THEN c = Moved(y, to) ELSE c = y
    BY <1>5, MovedFrom
  <2>3. x.scope = b.scope /\ y.scope = c.scope
    BY <2>1, <2>2, MovedRow
  <2>4. \A a \in rules : a.approver = from => ~Named(a.scope, to)
    BY <1>5 DEF ReassignRules, RulesOf
  <2>5. CASE x.approver = from /\ y.approver # from
    BY <2>1, <2>2, <2>3, <2>4, <2>5, MovedRow DEF Named, In
  <2>6. CASE x.approver # from /\ y.approver = from
    BY <2>1, <2>2, <2>3, <2>4, <2>6, MovedRow DEF Named, In
  <2>7. CASE x.approver = y.approver
    BY <2>1, <2>2, <2>3, <2>7 DEF OneRulePerApprover
  <2>8. CASE x.approver # from /\ y.approver # from
    BY <2>1, <2>2, <2>8 DEF OneRulePerApprover
  <2> QED
    BY <2>5, <2>6, <2>7, <2>8
<1>6. UNCHANGED rules \/ (Next /\ ~UNCHANGED rules)
  BY DEF vars
<1>7. ASSUME Next, ~UNCHANGED rules
      PROVE  \/ \E s \in Scopes, u \in Approvers, n \in 1..MaxStep :
                  ~Named(s, u) /\ Insert(s, u, n)
             \/ \E a \in rules, n \in 1..MaxStep : UpdateRule(a, n)
             \/ \E r \in deleting : DeleteRule(r)
             \/ \E from, to \in Approvers : ReassignRules(from, to)
  BY <1>7, RuleSteps
<1> QED
  BY <1>1, <1>2, <1>3, <1>4, <1>5, <1>6, <1>7

\* No scope names an approver twice.
THEOREM OneRule == Spec => []OneRulePerApprover
<1>1. Init => OneRulePerApprover
  BY DEF Init, OneRulePerApprover
<1> QED
  BY <1>1, TypeCorrect, OneRuleStep, PTL DEF Spec

\* A reassignment leaves no rule of the member it is about.
THEOREM ReassignLeavesNone == Spec => ReassignIsWhole
<1>1. ASSUME TypeOK, Next, NEW a \in rules, NEW b \in rules',
             a.id = b.id, a.approver # b.approver, NEW c \in rules'
      PROVE  c.approver # a.approver
  <2>1. \A x, y \in rules : x.id = y.id => x = y
    BY <1>1 DEF TypeOK
  <2>2. b \notin rules
    BY <1>1, <2>1
  <2>3. ASSUME NEW s \in Scopes, NEW u \in Approvers, NEW n \in 1..MaxStep, Insert(s, u, n)
        PROVE  FALSE
    <3>1. PICK r \in Fresh : \E d : rules' = rules \union {d} /\ d.id = r
      BY <2>3 DEF Insert
    <3> QED
      BY <1>1, <2>2, <3>1 DEF Fresh
  <2>4. ASSUME NEW d \in rules, NEW n \in 1..MaxStep, UpdateRule(d, n)
        PROVE  FALSE
    <3>1. b = [d EXCEPT !.step = n]
      BY <2>2, <2>4 DEF UpdateRule
    <3>2. d \in Rows
      BY <1>1 DEF TypeOK
    <3>3. b.id = d.id /\ b.approver = d.approver
      BY <3>1, <3>2 DEF Rows
    <3> QED
      BY <1>1, <2>1, <3>3
  <2>5. ASSUME NEW r \in deleting, DeleteRule(r)
        PROVE  FALSE
    BY <2>2, <2>5 DEF DeleteRule
  <2>6. ASSUME NEW from \in Approvers, NEW to \in Approvers, ReassignRules(from, to)
        PROVE  c.approver # a.approver
    <3>1. PICK x \in rules : IF x.approver = from THEN b = Moved(x, to) ELSE b = x
      BY <2>6, MovedFrom
    <3>2. x.approver = from /\ b.id = x.id
      BY <1>1, <2>2, <3>1, MovedRow
    <3>3. a.approver = from
      BY <1>1, <2>1, <3>2
    <3>4. PICK y \in rules : IF y.approver = from THEN c = Moved(y, to) ELSE c = y
      BY <2>6, MovedFrom
    <3>5. from # to
      BY <2>6 DEF ReassignRules
    <3> QED
      BY <1>1, <3>3, <3>4, <3>5, MovedRow
  <2> QED
    BY <1>1, <2>2, <2>3, <2>4, <2>5, <2>6, RuleSteps
<1>2. TypeOK /\ [Next]_vars =>
        [\A a \in rules : \A b \in rules' :
           a.id = b.id /\ a.approver # b.approver =>
             \A c \in rules' : c.approver # a.approver]_vars
  BY <1>1
<1> QED
  BY <1>2, TypeCorrect, PTL DEF Spec, ReassignIsWhole

-----------------------------------------------------------------------------
(* Members who leave.                                                      *)

\* Inductive: also whoever identity is about to remove is named only by rules
\* that were written after it had asked.
Orphans ==
  \A a \in rules : a.approver \in leaving \/ a.approver \notin active => a.raced

LEMMA OrphansStep == TypeOK /\ Orphans /\ [Next]_vars => Orphans'
<1> SUFFICES ASSUME TypeOK, Orphans, [Next]_vars
             PROVE  Orphans'
  OBVIOUS
<1>1. ASSUME UNCHANGED <<rules, leaving, active>>
      PROVE  Orphans'
  BY <1>1 DEF Orphans
<1>2. ASSUME NEW s \in Scopes, NEW u \in Approvers, NEW n \in 1..MaxStep, Insert(s, u, n)
      PROVE  Orphans'
  <2> DEFINE new(r) == [id |-> r, scope |-> s, approver |-> u, step |-> n,
                        raced |-> Raced(u)]
  <2>1. PICK r \in Fresh : rules' = rules \union {new(r)}
    BY <1>2 DEF Insert
  <2>2. leaving' = leaving /\ active' = active
    BY <1>2 DEF Insert, members
  <2>3. new(r).approver = u /\ new(r).raced = Raced(u)
    OBVIOUS
  <2> HIDE DEF new
  <2>4. (u \in leaving \/ u \notin active) => new(r).raced
    BY <2>3, Zenon DEF Raced
  <2>5. \A b \in rules' : b \in rules \/ b = new(r)
    BY <2>1
  <2> SUFFICES ASSUME NEW b \in rules', b.approver \in leaving' \/ b.approver \notin active'
               PROVE  b.raced
    BY Zenon DEF Orphans
  <2>6. CASE b \in rules
    BY <2>2, <2>6 DEF Orphans
  <2>7. CASE b = new(r)
    BY <2>2, <2>3, <2>4, <2>7
  <2> QED
    BY <2>5, <2>6, <2>7
<1>3. ASSUME NEW u \in Approvers, CheckApproverAssignments(u) \/ RemoveMember(u) \/ KeepMember(u)
      PROVE  Orphans'
  BY <1>3 DEF CheckApproverAssignments, RemoveMember, KeepMember, ListRulesByApprover,
              RulesOf, Orphans
<1>4. ASSUME NEW a \in rules, NEW n \in 1..MaxStep, UpdateRule(a, n)
      PROVE  Orphans'
  <2> DEFINE new == [a EXCEPT !.step = n]
  <2>1. rules' = (rules \ {a}) \union {new} /\ UNCHANGED <<leaving, active>>
    BY <1>4 DEF UpdateRule, members
  <2>2. a \in Rows
    BY DEF TypeOK
  <2>3. new.approver = a.approver /\ new.raced = a.raced
    BY <2>2 DEF Rows
  <2> HIDE DEF new
  <2> QED
    BY <2>1, <2>3 DEF Orphans
<1>5. ASSUME NEW r \in deleting, DeleteRule(r)
      PROVE  Orphans'
  BY <1>5 DEF DeleteRule, Orphans, members
<1>6. ASSUME NEW from \in Approvers, NEW to \in Approvers, ReassignRules(from, to)
      PROVE  Orphans'
  <2>1. from # to /\ active' = active /\ leaving' = leaving \union ({from} \intersect active)
    BY <1>6 DEF ReassignRules, Reassigned
  <2> SUFFICES ASSUME NEW b \in rules', b.approver \in leaving' \/ b.approver \notin active'
               PROVE  b.raced
    BY DEF Orphans
  <2>2. PICK a \in rules : IF a.approver = from THEN b = Moved(a, to) ELSE b = a
    BY <1>6, MovedFrom
  <2>3. CASE a.approver = from
    <3>1. b.approver = to /\ b.raced = Raced(to)
      BY <2>2, <2>3, MovedRow
    <3>2. to \in leaving \/ to \notin active
      BY <2>1, <3>1
    <3> QED
      BY <3>1, <3>2, Zenon DEF Raced
  <2>4. CASE a.approver # from
    BY <2>1, <2>2, <2>4 DEF Orphans
  <2> QED
    BY <2>3, <2>4
<1>7. \/ UNCHANGED <<rules, leaving, active>>
      \/ \E s \in Scopes, u \in Approvers, n \in 1..MaxStep : Insert(s, u, n)
      \/ \E u \in Approvers :
           CheckApproverAssignments(u) \/ RemoveMember(u) \/ KeepMember(u)
      \/ \E a \in rules, n \in 1..MaxStep : UpdateRule(a, n)
      \/ \E r \in deleting : DeleteRule(r)
      \/ \E from, to \in Approvers : ReassignRules(from, to)
  BY Steps DEF vars, members, IsMemberActive, ForgetMember, SubmitStep, ResolveProjectRules,
               ResolveDefaultRules, AbandonSubmit, CheckDelete, AbandonDelete
<1> QED
  BY <1>1, <1>2, <1>3, <1>4, <1>5, <1>6, <1>7

\* A rule that names nobody's member was written behind identity's back.
THEOREM OrphansAreRaced == Spec => []OrphanRulesMeanRace
<1>1. Init => Orphans
  BY DEF Init, Orphans
<1>2. Orphans => OrphanRulesMeanRace
  BY DEF Orphans, OrphanRulesMeanRace
<1> QED
  BY <1>1, <1>2, TypeCorrect, OrphansStep, PTL DEF Spec

-----------------------------------------------------------------------------
(* The default rules, while no two of them are under deletion at once.     *)

DeletionsApart == \A a, b \in In(Default) : {a.id, b.id} \subseteq deleting => a = b

\* The deletion of a default rule leaves another one behind it.
DeletionSpares ==
  \A r \in deleting :
    (\E a \in rules : a.id = r /\ a.scope = Default) =>
      \E b \in In(Default) : b.id # r

\* A deletion is of a rule that is there.
DeletesLive == deleting \subseteq {a.id : a \in rules}

DefaultInv == DefaultRulesSurvive /\ DeletionSpares /\ DeletesLive

\* A step that adds no deletion, and after which each rule has one of the same
\* id and scope, and no new one is to be deleted.
LEMMA SpareStep ==
  ASSUME DefaultInv, deleting' \subseteq deleting,
         seeded' => seeded \/ In(Default)' # {},
         \A a \in rules : \E b \in rules' : b.id = a.id /\ b.scope = a.scope,
         \A b \in rules' : b.id \in deleting =>
            \E a \in rules : b.id = a.id /\ b.scope = a.scope
  PROVE  DefaultInv'
<1>1. DefaultRulesSurvive'
  BY DEF DefaultInv, DefaultRulesSurvive, In
<1>2. DeletesLive'
  BY DEF DefaultInv, DeletesLive
<1>3. ASSUME NEW r \in deleting', NEW b \in rules', b.id = r, b.scope = Default
      PROVE  \E c \in In(Default)' : c.id # r
  <2>1. PICK a \in rules : a.id = r /\ a.scope = Default
    BY <1>3
  <2>2. PICK d \in In(Default) : d.id # r
    BY <1>3, <2>1 DEF DefaultInv, DeletionSpares
  <2> QED
    BY <2>2 DEF In
<1> QED
  BY <1>1, <1>2, <1>3 DEF DefaultInv, DeletionSpares

LEMMA DefaultStep ==
  TypeOK /\ DeletionsApart /\ DeletionsApart' /\ DefaultInv /\ [Next]_vars => DefaultInv'
<1> SUFFICES ASSUME TypeOK, DeletionsApart, DeletionsApart', DefaultInv, [Next]_vars
             PROVE  DefaultInv'
  OBVIOUS
<1>0. \A a, b \in rules : a.id = b.id => a = b
  BY DEF TypeOK
<1>1. ASSUME UNCHANGED <<rules, deleting, seeded>>
      PROVE  DefaultInv'
  BY <1>0, <1>1, SpareStep
<1>2. ASSUME NEW s \in Scopes, NEW u \in Approvers, NEW n \in 1..MaxStep, Insert(s, u, n)
      PROVE  DefaultInv'
  <2> DEFINE new(r) == [id |-> r, scope |-> s, approver |-> u, step |-> n, raced |-> Raced(u)]
  <2>1. PICK r \in Fresh : rules' = rules \union {new(r)}
    BY <1>2 DEF Insert
  <2>2. deleting' = deleting /\ seeded' = (seeded \/ s = Default)
    BY <1>2 DEF Insert
  <2>3. new(r).id = r /\ new(r).scope = s
    OBVIOUS
  <2> HIDE DEF new
  <2>4. r \notin deleting
    BY DEF DefaultInv, DeletesLive, Fresh
  <2>5. seeded' => seeded \/ In(Default)' # {}
    BY <2>1, <2>2, <2>3 DEF In
  <2> QED
    BY <1>0, <2>1, <2>2, <2>3, <2>4, <2>5, SpareStep
<1>3. ASSUME NEW a \in rules, NEW n \in 1..MaxStep, UpdateRule(a, n)
      PROVE  DefaultInv'
  <2> DEFINE new == [a EXCEPT !.step = n]
  <2>1. rules' = (rules \ {a}) \union {new} /\ UNCHANGED <<deleting, seeded>>
    BY <1>3 DEF UpdateRule
  <2>2. a \in Rows
    BY DEF TypeOK
  <2>3. new.id = a.id /\ new.scope = a.scope
    BY <2>2 DEF Rows
  <2> HIDE DEF new
  <2> QED
    BY <1>0, <2>1, <2>3, SpareStep
<1>4. ASSUME NEW a \in rules, CheckDelete(a)
      PROVE  DefaultInv'
  <2>2. deleting' = deleting \union {a.id} /\ UNCHANGED <<rules, seeded>>
    BY <1>4 DEF CheckDelete
  <2>3. ASSUME a.scope = Default
        PROVE  \E b \in In(Default) : b # a
    <3>1. SUFFICES ASSUME \A b \in In(Default) : b = a
                   PROVE  FALSE
      OBVIOUS
    <3>2. In(Default) = {a}
      BY <2>3, <3>1 DEF In
    <3>3. Cardinality(In(Default)) > 1
      BY <1>4, <2>3 DEF CheckDelete
    <3> QED
      BY <3>2, <3>3, FS_Singleton
  <2>5. In(Default)' = In(Default)
    BY <2>2 DEF In
  <2>6. ASSUME NEW r \in deleting', NEW c \in rules, c.id = r, c.scope = Default
        PROVE  \E b \in In(Default) : b.id # r
    <3>1. CASE r = a.id
      BY <1>0, <2>3, <2>6, <3>1 DEF In
    <3>2. CASE r \in deleting
      BY <2>6, <3>2 DEF DefaultInv, DeletionSpares
    <3> QED
      BY <2>2, <2>6, <3>1, <3>2
  <2>7. DefaultRulesSurvive' /\ DeletesLive'
    BY <2>2, <2>5 DEF DefaultInv, DefaultRulesSurvive, DeletesLive
  <2>8. DeletionSpares'
    BY <2>2, <2>5, <2>6 DEF DeletionSpares
  <2> QED
    BY <2>7, <2>8 DEF DefaultInv
<1>5. ASSUME NEW r \in deleting, DeleteRule(r)
      PROVE  DefaultInv'
  <2>1. rules' = {a \in rules : a.id # r} /\ deleting' = deleting \ {r} /\ seeded' = seeded
    BY <1>5 DEF DeleteRule
  <2>2. ASSUME NEW c \in In(Default), c.id \in deleting
        PROVE  \E b \in In(Default) : b.id # c.id /\ b.id \notin deleting
    <3>1. PICK b \in In(Default) : b.id # c.id
      BY <2>2 DEF DefaultInv, DeletionSpares, In
    <3> QED
      BY <2>2, <3>1 DEF DeletionsApart
  <2>3. ASSUME seeded
        PROVE  \E b \in In(Default) : b.id # r
    <3>1. PICK a \in In(Default) : TRUE
      BY <2>3 DEF DefaultInv, DefaultRulesSurvive
    <3> QED
      BY <3>1 DEF DefaultInv, DeletionSpares, In
  <2>4. DefaultRulesSurvive'
    BY <2>1, <2>3 DEF DefaultRulesSurvive, In
  <2>5. ASSUME NEW t \in deleting', NEW c \in rules', c.id = t, c.scope = Default
        PROVE  \E b \in In(Default)' : b.id # t
    <3>1. PICK b \in In(Default) : b.id # c.id /\ b.id \notin deleting
      BY <2>1, <2>2, <2>5 DEF In
    <3> QED
      BY <2>1, <2>5, <3>1 DEF In
  <2>6. DeletionSpares'
    BY <2>5 DEF DeletionSpares
  <2>7. DeletesLive'
    BY <2>1 DEF DefaultInv, DeletesLive
  <2> QED
    BY <2>4, <2>6, <2>7 DEF DefaultInv
<1>6. ASSUME NEW r \in deleting, AbandonDelete(r)
      PROVE  DefaultInv'
  <2>1. deleting' = deleting \ {r} /\ UNCHANGED <<rules, seeded>>
    BY <1>6 DEF AbandonDelete
  <2> QED
    BY <2>1, SpareStep
<1>7. ASSUME NEW from \in Approvers, NEW to \in Approvers, ReassignRules(from, to)
      PROVE  DefaultInv'
  <2>1. UNCHANGED <<deleting, seeded>>
    BY <1>7 DEF ReassignRules, Reassigned
  <2>2. \A a \in rules : \E b \in rules' : b.id = a.id /\ b.scope = a.scope
    BY <1>7, MovedTo
  <2>3. ASSUME NEW b \in rules'
        PROVE  \E a \in rules : b.id = a.id /\ b.scope = a.scope
    <3>1. PICK a \in rules : IF a.approver = from THEN b = Moved(a, to) ELSE b = a
      BY <1>7, MovedFrom
    <3> QED
      BY <3>1, MovedRow
  <2> QED
    BY <1>0, <2>1, <2>2, <2>3, SpareStep
<1>8. \/ UNCHANGED <<rules, deleting, seeded>>
      \/ \E s \in Scopes, u \in Approvers, n \in 1..MaxStep : Insert(s, u, n)
      \/ \E a \in rules, n \in 1..MaxStep : UpdateRule(a, n)
      \/ \E a \in rules : CheckDelete(a)
      \/ \E r \in deleting : DeleteRule(r) \/ AbandonDelete(r)
      \/ \E from, to \in Approvers : ReassignRules(from, to)
  BY Steps DEF vars, IsMemberActive, ForgetMember, CheckApproverAssignments, RemoveMember,
               KeepMember, SubmitStep, ResolveProjectRules, ResolveDefaultRules, AbandonSubmit
<1> QED
  BY <1>1, <1>2, <1>3, <1>4, <1>5, <1>6, <1>7, <1>8

\* As long as no two default rules are under deletion at once, an organization
\* that had a default rule keeps one: nothing else it does with its rules, other
\* deletions included, takes the last one away.
THEOREM DefaultsSurvive == Spec /\ []DeletionsApart => []DefaultRulesSurvive
<1>1. Init => DefaultInv
  BY DEF Init, DefaultInv, DefaultRulesSurvive, DeletionSpares, DeletesLive
<1>2. DefaultInv => DefaultRulesSurvive
  BY DEF DefaultInv
<1>3. TypeOK /\ DeletionsApart /\ DeletionsApart' /\ DefaultInv /\ [Next]_vars => DefaultInv'
  BY DefaultStep
<1> QED
  BY <1>1, <1>2, <1>3, TypeCorrect, PTL DEF Spec

\* As long as no two default rules are under deletion at once, no submit is
\* refused for want of an approver in an organization that had a default rule,
\* whatever changes between the two statements by which it resolves them.
THEOREM SubmitsSucceed == Spec /\ []DeletionsApart => SubmitsFindApprovers
<1>1. ASSUME TypeOK, DefaultRulesSurvive, Next, NEW p \in Projects,
             resolving[p] # "refused", resolving'[p] = "refused"
      PROVE  ~seeded
  <2>1. PICK q \in Projects :
          ResolveProjectRules(q) \/ ResolveDefaultRules(q) \/ AbandonSubmit(q)
    BY <1>1, Steps DEF Insert, IsMemberActive, ForgetMember, CheckApproverAssignments,
         RemoveMember, KeepMember, SubmitStep, UpdateRule, CheckDelete, DeleteRule,
         AbandonDelete, ReassignRules, Reassigned
  <2>2. ResolveDefaultRules(q) /\ q = p
    BY <1>1, <2>1 DEF TypeOK, ResolveProjectRules, ResolveDefaultRules, AbandonSubmit
  <2>3. In(Default) = {}
    BY <1>1, <2>2 DEF TypeOK, ResolveDefaultRules
  <2> QED
    BY <1>1, <2>3 DEF DefaultRulesSurvive
<1>2. TypeOK /\ DefaultRulesSurvive /\ [Next]_vars =>
        [\A p \in Projects :
           resolving[p] # "refused" /\ resolving'[p] = "refused" => ~seeded]_vars
  BY <1>1
<1> QED
  BY <1>2, DefaultsSurvive, TypeCorrect, PTL DEF Spec, SubmitsFindApprovers
=============================================================================
