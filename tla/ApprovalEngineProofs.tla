------------------------ MODULE ApprovalEngineProofs -----------------------
(***************************************************************************)
(* Theorems about ApprovalEngine for every set of transactions, approvers  *)
(* and requests and every number of steps.                                 *)
(***************************************************************************)
EXTENDS ApprovalEngine, FiniteSetTheorems, WellFoundedInduction, TLAPS

(***************************************************************************)
(* The inductive invariant.  StepOrder alone is not inductive: that the    *)
(* next step may open needs to know what an active, closed row means, and  *)
(* that no row of a pending transaction was cancelled or rejected.         *)
(***************************************************************************)

\* Decisions and cancellations belong to rows; only active rows are decided.
RowsMakeSense ==
  \A t \in Transactions :
    /\ activated[t] \subseteq Asked(t)
    /\ cancelled[t] \subseteq Asked(t)
    /\ \A u \in Approvers : Decided(t, u) => u \in activated[t]

\* A draft has no rows, anything else has some.
RowsBySubmit ==
  \A t \in Transactions : status[t] = "draft" <=> Asked(t) = {}

\* A step is activated as a whole.
StepsOpenTogether ==
  \A t \in Transactions : \A u \in activated[t] : \A v \in Asked(t) :
    step[t][v] = step[t][u] => v \in activated[t]

PendingShape ==
  \A t \in Transactions : status[t] = "pending_approval" =>
    /\ cancelled[t] = {}
    /\ \A u \in Approvers : ~Rejected(t, u)
    /\ Open(t) # {}

ApprovedShape ==
  \A t \in Transactions : status[t] = "approved" =>
    /\ \A u \in Asked(t) : Approved(t, u)

RejectedShape ==
  \A t \in Transactions : status[t] = "rejected" =>
    /\ \E u \in Asked(t) : Rejected(t, u)
    /\ \A u, v \in Asked(t) : Rejected(t, u) /\ Rejected(t, v) => u = v
    /\ \A u \in Asked(t) : u \in cancelled[t] <=> ~Decided(t, u)

\* What a waiting request read can only have become truer.
ReadsAreMonotone ==
  \A w \in waiting :
    /\ w.approver \in Asked(w.tx)
    /\ w.activated => w.approver \in activated[w.tx]

ChainInv ==
  /\ RowsMakeSense
  /\ RowsBySubmit
  /\ StepOrder
  /\ StepsOpenTogether
  /\ AtMostOneDecision
  /\ PendingShape
  /\ ApprovedShape
  /\ RejectedShape

IInv ==
  /\ TypeOK
  /\ ChainInv
  /\ SubmittedIsBacked
  /\ ReadsAreMonotone

-----------------------------------------------------------------------------
(* Rows and steps.                                                         *)

\* A nonempty set of naturals has a least element.  (Minimality of the finite
\* sets 0..n under strict inclusion: the ordering of the library that needs no
\* operator argument.)
LEMMA LeastElement ==
  ASSUME NEW S \in SUBSET Nat, S # {}
  PROVE  \E s \in S : \A r \in S : s <= r
<1> DEFINE Prefixes == {0..s : s \in S}
<1> DEFINE R == StrictSubsetOrdering(Nat)
<1>1. Prefixes \subseteq FiniteSubsetsOf(Nat)
  <2> SUFFICES ASSUME NEW s \in S
               PROVE  0..s \in FiniteSubsetsOf(Nat)
    OBVIOUS
  <2>1. IsFiniteSet(0..s)
    BY FS_Interval
  <2> QED
    BY <2>1 DEF FiniteSubsetsOf
<1>2. Prefixes # {}
  OBVIOUS
<1>3. PICK p \in Prefixes : \A q \in Prefixes : <<q, p>> \notin R
  <2> HIDE DEF Prefixes, R
  <2>1. IsWellFoundedOn(R, FiniteSubsetsOf(Nat))
    BY FS_StrictSubsetOrderingWellFounded DEF R
  <2> QED
    BY <1>1, <1>2, <2>1, WFMin
<1>4. PICK s \in S : p = 0..s
  BY <1>3, Zenon
<1>5. ASSUME NEW r \in S, ~(s <= r)
      PROVE  FALSE
  <2>1. 0..r \subseteq 0..s /\ s \in 0..s /\ s \notin 0..r
    BY <1>5
  <2>2. 0..r \in SUBSET Nat /\ 0..s \in SUBSET Nat
    OBVIOUS
  <2>3. <<0..r, 0..s>> \in R
    BY <2>1, <2>2 DEF StrictSubsetOrdering
  <2> QED
    BY <1>3, <1>4, <2>3
<1> QED
  BY <1>5

\* When submit or activateNext activates the lowest of some rows, somebody
\* gets a turn.
LEMMA LowestRowsExist ==
  ASSUME NEW c \in [Approvers -> 0..MaxStep], NEW users \in SUBSET Approvers,
         users # {}
  PROVE  LowestRows(c, users) # {}
<1> DEFINE S == {c[u] : u \in users}
<1>1. S \in SUBSET Nat /\ S # {}
  BY StepAssumption
<1>2. PICK s \in S : \A r \in S : s <= r
  <2> HIDE DEF S
  <2> QED
    BY <1>1, LeastElement
<1>3. PICK u \in users : c[u] = s
  OBVIOUS
<1>4. u \in LowestRows(c, users)
  BY <1>2, <1>3 DEF LowestRows
<1> QED
  BY <1>4

-----------------------------------------------------------------------------
(* Type correctness.                                                       *)

LEMMA DraftTypes ==
  ASSUME TypeOK, NEW t \in Transactions, EditDraft(t) \/ Remove(t)
  PROVE  TypeOK'
<1> USE DEF TypeOK, content, approvals
<1>1. CASE CompleteUpload(t)
  BY <1>1, DocumentAssumption DEF CompleteUpload
<1>2. CASE DeleteDocument(t)
  BY <1>2, DocumentAssumption DEF DeleteDocument
<1>3. CASE UpdateItems(t)
  BY <1>3 DEF UpdateItems
<1>4. CASE AttachOcrItem(t)
  BY <1>4 DEF AttachOcrItem
<1>5. CASE DeleteTransaction(t)
  BY <1>5 DEF DeleteTransaction
<1>6. CASE EmitDeleted(t)
  BY <1>6 DEF EmitDeleted, Event, Events, EventKinds
<1>7. CASE LoseDelete(t)
  BY <1>7 DEF LoseDelete
<1> QED
  BY <1>1, <1>2, <1>3, <1>4, <1>5, <1>6, <1>7 DEF EditDraft, Remove

LEMMA NoticesAreEvents ==
  ASSUME NEW t \in Transactions, NEW users \in SUBSET Approvers,
         NEW notice \in Notices(t, users)
  PROVE  notice \in SUBSET Events
BY DEF Notices, Event, Events, EventKinds

LEMMA SubmitTypes ==
  ASSUME TypeOK, NEW t \in Transactions, NEW c \in Chains, Submit(t, c)
  PROVE  TypeOK'
<1> DEFINE first == LowestRows(c, {u \in Approvers : c[u] > 0})
<1>1. first \in SUBSET Approvers
  BY DEF LowestRows
<1>2. outbox' \subseteq Events
  <2>1. PICK notice \in Notices(t, first) :
          outbox' = outbox \union {Event("submitted", t, NoOne)} \union notice
    BY DEF Submit
  <2>2. notice \in SUBSET Events
    BY <1>1, <2>1, NoticesAreEvents
  <2> QED
    BY <2>1, <2>2 DEF TypeOK, Event, Events, EventKinds
<1>3. activated' = [activated EXCEPT ![t] = first]
  BY DEF Submit
<1>4. c \in [Approvers -> 0..MaxStep]
  BY DEF Chains
<1> HIDE DEF first
<1> QED
  BY <1>1, <1>2, <1>3, <1>4
  DEF TypeOK, Submit, Statuses, content

LEMMA RecordTypes ==
  ASSUME TypeOK, NEW w \in Waits, NEW d \in Decisions, Record(w, d)
  PROVE  decisions' \in [Transactions -> [Approvers -> [Decisions -> Nat]]]
BY DEF TypeOK, Record, Waits

LEMMA DecideTypes ==
  ASSUME TypeOK, NEW w \in waiting, Decide(w) \/ Abandon(w)
  PROVE  TypeOK'
<1>0. w \in Waits /\ w.tx \in Transactions /\ w.approver \in Approvers
  BY DEF TypeOK, Waits
<1>1. CASE Reject(w)
  <2>1. decisions' \in [Transactions -> [Approvers -> [Decisions -> Nat]]]
    BY <1>0, <1>1, RecordTypes DEF Reject, Decisions
  <2>2. cancelled' \in [Transactions -> SUBSET Approvers]
    BY <1>0, <1>1 DEF Reject, CancelPendingApprovals, TypeOK, Asked
  <2>3. outbox' \subseteq Events
    BY <1>0, <1>1 DEF Reject, TypeOK, Event, Events, EventKinds
  <2> QED
    BY <1>0, <1>1, <2>1, <2>2, <2>3 DEF Reject, TypeOK, Statuses, content
<1>2. CASE ApproveAndWait(w)
  <2>1. decisions' \in [Transactions -> [Approvers -> [Decisions -> Nat]]]
    BY <1>0, <1>2, RecordTypes DEF ApproveAndWait, Decisions
  <2>2. outbox' \subseteq Events
    BY <1>0, <1>2 DEF ApproveAndWait, TypeOK, Event, Events, EventKinds
  <2> QED
    BY <1>0, <1>2, <2>1, <2>2 DEF ApproveAndWait, TypeOK, content
<1>3. CASE ApproveAndActivate(w)
  <2> DEFINE next == LowestRows(step[w.tx], Inactive(w.tx))
  <2>1. decisions' \in [Transactions -> [Approvers -> [Decisions -> Nat]]]
    BY <1>0, <1>3, RecordTypes DEF ApproveAndActivate, Decisions
  <2>2. next \in SUBSET Approvers
    BY DEF LowestRows, Inactive, Asked
  <2>3. outbox' \subseteq Events
    <3>1. PICK notice \in Notices(w.tx, next) :
            outbox' = outbox \union {Event("decided", w.tx, w.approver)} \union notice
      BY <1>3 DEF ApproveAndActivate
    <3>2. notice \in SUBSET Events
      BY <1>0, <2>2, <3>1, NoticesAreEvents
    <3> QED
      BY <1>0, <3>1, <3>2 DEF TypeOK, Event, Events, EventKinds
  <2>4. activated' = [activated EXCEPT ![w.tx] = @ \union next]
    BY <1>3 DEF ApproveAndActivate
  <2>5. waiting' \subseteq waiting /\ UNCHANGED <<status, deleted, content, step, cancelled, deleting>>
    BY <1>3 DEF ApproveAndActivate
  <2> HIDE DEF next
  <2> QED
    BY <1>0, <2>1, <2>2, <2>3, <2>4, <2>5 DEF TypeOK, content
<1>4. CASE ApproveLast(w)
  <2>1. decisions' \in [Transactions -> [Approvers -> [Decisions -> Nat]]]
    BY <1>0, <1>4, RecordTypes DEF ApproveLast, Decisions
  <2>2. outbox' \subseteq Events
    BY <1>0, <1>4 DEF ApproveLast, TypeOK, Event, Events, EventKinds
  <2> QED
    BY <1>0, <1>4, <2>1, <2>2 DEF ApproveLast, TypeOK, Statuses, content
<1>5. CASE Abandon(w)
  BY <1>5 DEF Abandon, TypeOK, content, approvals
<1> QED
  BY <1>1, <1>2, <1>3, <1>4, <1>5 DEF Decide

LEMMA ReadTypes ==
  ASSUME TypeOK, NEW r \in Requests, NEW t \in Transactions, NEW u \in Approvers,
         ReadApproval(r, t, u)
  PROVE  TypeOK'
<1> DEFINE new == [request |-> r, tx |-> t, approver |-> u,
                   activated |-> u \in activated[t], cancelled |-> u \in cancelled[t]]
<1>1. (u \in activated[t]) \in BOOLEAN /\ (u \in cancelled[t]) \in BOOLEAN
  OBVIOUS
<1>2. new \in Waits
  BY <1>1 DEF Waits
<1>3. waiting' = waiting \union {new}
  BY DEF ReadApproval
<1> HIDE DEF new
<1> QED
  BY <1>2, <1>3 DEF ReadApproval, TypeOK, content, approvals

LEMMA TypeStep == TypeOK /\ [Next]_vars => TypeOK'
<1> SUFFICES ASSUME TypeOK, [Next]_vars
             PROVE  TypeOK'
  OBVIOUS
<1>1. CASE \E t \in Transactions : EditDraft(t) \/ Remove(t)
  BY <1>1, DraftTypes
<1>2. CASE \E t \in Transactions, c \in Chains : Submit(t, c)
  BY <1>2, SubmitTypes
<1>3. CASE \E r \in Requests, t \in Transactions, u \in Approvers : ReadApproval(r, t, u)
  BY <1>3, ReadTypes
<1>4. CASE \E w \in waiting : Decide(w) \/ Abandon(w)
  BY <1>4, DecideTypes
<1>5. CASE UNCHANGED vars
  BY <1>5 DEF TypeOK, vars, content, approvals
<1> QED
  BY <1>1, <1>2, <1>3, <1>4, <1>5 DEF Next

\* Every variable keeps its type.
THEOREM TypeCorrect == Spec => []TypeOK
<1>1. Init => TypeOK
  BY StepAssumption, DocumentAssumption
  DEF Init, TypeOK, Statuses, NoChain, Undecided
<1> QED
  BY <1>1, TypeStep, PTL DEF Spec

-----------------------------------------------------------------------------
(* The chain invariant, action by action.                                  *)

\* Nothing the invariant speaks of changes.
LEMMA ChainFrame ==
  ASSUME ChainInv, UNCHANGED <<status, approvals>>
  PROVE  ChainInv'
BY DEF ChainInv, RowsMakeSense, RowsBySubmit, StepOrder, StepsOpenTogether,
       AtMostOneDecision, PendingShape, ApprovedShape, RejectedShape, approvals,
       Asked, Decided, Has, Approved, Rejected, Open

LEMMA SubmitChain ==
  ASSUME TypeOK, ChainInv, NEW t \in Transactions, NEW c \in Chains, Submit(t, c)
  PROVE  ChainInv'
<1> DEFINE asked == {u \in Approvers : c[u] > 0}
<1> DEFINE first == LowestRows(c, asked)
<1>1. /\ c \in [Approvers -> 0..MaxStep]
      /\ asked # {}
  BY DEF Chains, NoChain
<1>2. /\ first # {}
      /\ first \subseteq asked
      /\ \A u \in first : \A v \in asked : c[u] <= c[v]
  BY <1>1, LowestRowsExist DEF LowestRows
<1>3. /\ status[t] = "draft"
      /\ status' = [status EXCEPT ![t] = "pending_approval"]
      /\ step' = [step EXCEPT ![t] = c]
      /\ activated' = [activated EXCEPT ![t] = first]
      /\ UNCHANGED <<cancelled, decisions>>
  BY DEF Submit, IsDraft
<1>4. Asked(t) = {} /\ activated[t] = {} /\ cancelled[t] = {}
  BY <1>3 DEF ChainInv, RowsBySubmit, RowsMakeSense
<1>5. \A u \in Approvers : ~Decided(t, u)
  BY <1>4 DEF ChainInv, RowsMakeSense
<1>6. /\ status'[t] = "pending_approval"
      /\ Asked(t)' = asked
      /\ activated'[t] = first
      /\ cancelled'[t] = {}
      /\ \A u \in Approvers : ~Decided(t, u)'
  BY <1>3, <1>4, <1>5 DEF TypeOK, Asked, Decided, Has
<1>7. ASSUME NEW x \in Transactions, x # t
      PROVE  /\ status'[x] = status[x] /\ step'[x] = step[x]
             /\ activated'[x] = activated[x] /\ cancelled'[x] = cancelled[x]
             /\ Asked(x)' = Asked(x)
             /\ Open(x)' = Open(x)
  BY <1>3, <1>7 DEF TypeOK, Asked, Open, Decided, Has
<1>8. /\ \A x \in Transactions, u \in Approvers :
           /\ Decided(x, u)' <=> Decided(x, u)
           /\ Approved(x, u)' <=> Approved(x, u)
           /\ Rejected(x, u)' <=> Rejected(x, u)
  BY <1>3 DEF Decided, Has, Approved, Rejected
<1> HIDE DEF asked, first
<1>9. RowsMakeSense'
  BY <1>2, <1>6, <1>7, <1>8 DEF ChainInv, RowsMakeSense
<1>10. RowsBySubmit'
  BY <1>1, <1>6, <1>7 DEF ChainInv, RowsBySubmit
<1>11. StepOrder'
  <2> SUFFICES ASSUME NEW x \in Transactions, NEW u \in activated'[x],
                      NEW v \in Asked(x)', step'[x][v] < step'[x][u]
               PROVE  Approved(x, v)'
    BY DEF StepOrder
  <2>1. v \in Approvers
    BY DEF Asked
  <2>2. CASE x = t
    <3>1. u \in first /\ v \in asked /\ step'[t] = c
      BY <1>3, <1>6, <2>2 DEF TypeOK
    <3>2. c[u] <= c[v] /\ c[u] \in Int /\ c[v] \in Int
      BY <1>1, <1>2, <3>1, <2>1, StepAssumption DEF asked
    <3> QED
      BY <2>2, <3>1, <3>2
  <2>3. CASE x # t
    BY <1>7, <1>8, <2>1, <2>3 DEF ChainInv, StepOrder
  <2> QED
    BY <2>2, <2>3
<1>12. StepsOpenTogether'
  <2> SUFFICES ASSUME NEW x \in Transactions, NEW u \in activated'[x],
                      NEW v \in Asked(x)', step'[x][v] = step'[x][u]
               PROVE  v \in activated'[x]
    BY DEF StepsOpenTogether
  <2>1. CASE x = t
    <3>1. u \in first /\ v \in asked /\ step'[t] = c
      BY <1>3, <1>6, <2>1 DEF TypeOK
    <3> QED
      BY <1>2, <1>6, <2>1, <3>1 DEF first, LowestRows
  <2>2. CASE x # t
    BY <1>7, <2>2 DEF ChainInv, StepsOpenTogether
  <2> QED
    BY <2>1, <2>2
<1>13. AtMostOneDecision'
  BY <1>3 DEF ChainInv, AtMostOneDecision
<1>14. PendingShape'
  <2> SUFFICES ASSUME NEW x \in Transactions, status'[x] = "pending_approval"
               PROVE  /\ cancelled'[x] = {}
                      /\ \A u \in Approvers : ~Rejected(x, u)'
                      /\ Open(x)' # {}
    BY DEF PendingShape
  <2>1. CASE x = t
    <3>1. \A u \in Approvers : ~Rejected(t, u)'
      BY <1>6 DEF Rejected, Decided, Decisions
    <3>2. first \subseteq Open(t)'
      BY <1>2, <1>6 DEF Open, asked
    <3> QED
      BY <1>2, <1>6, <2>1, <3>1, <3>2
  <2>2. CASE x # t
    BY <1>7, <1>8, <2>2 DEF ChainInv, PendingShape
  <2> QED
    BY <2>1, <2>2
<1>15. ApprovedShape'
  BY <1>6, <1>7, <1>8 DEF ChainInv, ApprovedShape, Asked
<1>16. RejectedShape'
  BY <1>6, <1>7, <1>8 DEF ChainInv, RejectedShape, Asked
<1> QED
  BY <1>9, <1>10, <1>11, <1>12, <1>13, <1>14, <1>15, <1>16 DEF ChainInv

\* What a request that passes the checks of Decide knows: the transaction is
\* pending and its approval is open now, although it read it earlier.
LEMMA TurnIsReal ==
  ASSUME IInv, NEW w \in waiting, MayDecide(w)
  PROVE  /\ w \in Waits /\ w.tx \in Transactions /\ w.approver \in Approvers
         /\ status[w.tx] = "pending_approval"
         /\ w.approver \in Asked(w.tx)
         /\ w.approver \in Open(w.tx)
         /\ ~Decided(w.tx, w.approver)
<1>1. w \in Waits /\ w.tx \in Transactions /\ w.approver \in Approvers
  BY DEF IInv, TypeOK, Waits
<1>2. cancelled[w.tx] = {}
  BY <1>1 DEF IInv, ChainInv, PendingShape, MayDecide
<1> QED
  BY <1>1, <1>2 DEF IInv, ReadsAreMonotone, MayDecide, Open

\* The new row is the only change to the decisions.
LEMMA RecordEffect ==
  ASSUME TypeOK, NEW w \in Waits, NEW d \in Decisions, Record(w, d),
         ~Decided(w.tx, w.approver)
  PROVE  /\ \A x \in Transactions, u \in Approvers :
              <<x, u>> # <<w.tx, w.approver>> =>
                 /\ decisions'[x][u] = decisions[x][u]
                 /\ Decided(x, u)' <=> Decided(x, u)
                 /\ Approved(x, u)' <=> Approved(x, u)
                 /\ Rejected(x, u)' <=> Rejected(x, u)
         /\ Decided(w.tx, w.approver)'
         /\ Approved(w.tx, w.approver)' <=> d = "approved"
         /\ Rejected(w.tx, w.approver)' <=> d = "rejected"
         /\ decisions'[w.tx][w.approver]["approved"]
              + decisions'[w.tx][w.approver]["rejected"] = 1
<1>1. w.tx \in Transactions /\ w.approver \in Approvers
  BY DEF Waits
<1>2. \A x \in Transactions, u \in Approvers :
        <<x, u>> # <<w.tx, w.approver>> => decisions'[x][u] = decisions[x][u]
  BY <1>1 DEF Record, TypeOK
<1>3. decisions'[w.tx][w.approver] = [decisions[w.tx][w.approver] EXCEPT ![d] = @ + 1]
  BY <1>1 DEF Record, TypeOK
<1>4. /\ decisions[w.tx][w.approver] \in [Decisions -> Nat]
      /\ decisions[w.tx][w.approver]["approved"] = 0
      /\ decisions[w.tx][w.approver]["rejected"] = 0
  BY <1>1 DEF TypeOK, Decided, Has, Decisions
<1>5. /\ decisions'[w.tx][w.approver]["approved"] = (IF d = "approved" THEN 1 ELSE 0)
      /\ decisions'[w.tx][w.approver]["rejected"] = (IF d = "rejected" THEN 1 ELSE 0)
  BY <1>3, <1>4 DEF Decisions
<1>6. d = "approved" \/ d = "rejected"
  BY DEF Decisions
<1>7. /\ Decided(w.tx, w.approver)'
      /\ Approved(w.tx, w.approver)' <=> d = "approved"
      /\ Rejected(w.tx, w.approver)' <=> d = "rejected"
  BY <1>5, <1>6 DEF Decided, Has, Approved, Rejected, Decisions
<1>8. decisions'[w.tx][w.approver]["approved"]
        + decisions'[w.tx][w.approver]["rejected"] = 1
  BY <1>5, <1>6
<1>9. \A x \in Transactions, u \in Approvers :
        <<x, u>> # <<w.tx, w.approver>> =>
          /\ Decided(x, u)' <=> Decided(x, u)
          /\ Approved(x, u)' <=> Approved(x, u)
          /\ Rejected(x, u)' <=> Rejected(x, u)
  BY <1>2 DEF Decided, Has, Approved, Rejected
<1> QED
  BY <1>2, <1>7, <1>8, <1>9

\* One decision row per approval, whoever decides.
LEMMA RecordOnce ==
  ASSUME TypeOK, AtMostOneDecision, NEW w \in Waits, NEW d \in Decisions,
         Record(w, d), ~Decided(w.tx, w.approver)
  PROVE  AtMostOneDecision'
BY RecordEffect DEF AtMostOneDecision

LEMMA RejectChain ==
  ASSUME IInv, NEW w \in waiting, Reject(w)
  PROVE  ChainInv'
<1> DEFINE t == w.tx
<1> DEFINE u == w.approver
<1>1. /\ w \in Waits /\ t \in Transactions /\ u \in Approvers
      /\ status[t] = "pending_approval"
      /\ u \in Asked(t) /\ u \in Open(t) /\ ~Decided(t, u)
  BY TurnIsReal DEF Reject
<1>2. /\ Record(w, "rejected")
      /\ status' = [status EXCEPT ![t] = "rejected"]
      /\ cancelled' = [cancelled EXCEPT ![t] =
                         @ \union {v \in Asked(t) : v # u /\ ~Decided(t, v)}]
      /\ UNCHANGED <<step, activated>>
  BY DEF Reject, CancelPendingApprovals
<1> HIDE DEF t, u
<1>3. TypeOK /\ ChainInv /\ "rejected" \in Decisions
  BY DEF IInv, Decisions
<1>4. /\ \A x \in Transactions, v \in Approvers :
              <<x, v>> # <<t, u>> =>
                 /\ Decided(x, v)' <=> Decided(x, v)
                 /\ Approved(x, v)' <=> Approved(x, v)
                 /\ Rejected(x, v)' <=> Rejected(x, v)
      /\ Decided(t, u)' /\ ~Approved(t, u)' /\ Rejected(t, u)'
  BY <1>1, <1>2, <1>3, RecordEffect DEF t, u
<1>5. \A x \in Transactions :
        /\ Asked(x)' = Asked(x) /\ step'[x] = step[x] /\ activated'[x] = activated[x]
  BY <1>2 DEF Asked
<1>6. /\ status'[t] = "rejected"
      /\ cancelled'[t] = {v \in Asked(t) : v # u /\ ~Decided(t, v)}
      /\ \A x \in Transactions : x # t => status'[x] = status[x] /\ cancelled'[x] = cancelled[x]
  BY <1>1, <1>2, <1>3 DEF TypeOK, ChainInv, PendingShape
<1>7. \A x \in Transactions, v \in Approvers : ~Approved(x, v) \/ Approved(x, v)'
  BY <1>1, <1>4 DEF Approved, Decided, Decisions
<1>8. RowsMakeSense'
  BY <1>1, <1>3, <1>4, <1>5, <1>6 DEF ChainInv, RowsMakeSense, Open
<1>9. RowsBySubmit'
  BY <1>1, <1>3, <1>5, <1>6 DEF ChainInv, RowsBySubmit
<1>10. StepOrder' /\ StepsOpenTogether'
  BY <1>3, <1>5, <1>7 DEF ChainInv, StepOrder, StepsOpenTogether, Asked
<1>11. AtMostOneDecision'
  BY <1>1, <1>2, <1>3, RecordOnce DEF ChainInv, t, u
<1>12. PendingShape'
  <2> SUFFICES ASSUME NEW x \in Transactions, x # t
               PROVE  Open(x)' = Open(x) /\ \A v \in Approvers : Rejected(x, v)' <=> Rejected(x, v)
    BY <1>3, <1>6 DEF ChainInv, PendingShape
  <2>1. \A v \in Approvers : Decided(x, v)' <=> Decided(x, v)
    BY <1>4
  <2>2. activated[x] \subseteq Approvers
    BY <1>3 DEF TypeOK
  <2> QED
    BY <1>4, <1>5, <1>6, <2>1, <2>2 DEF Open
<1>13. ApprovedShape'
  BY <1>3, <1>5, <1>6, <1>7 DEF ChainInv, ApprovedShape, Asked
<1>14. RejectedShape'
  <2> SUFFICES ASSUME NEW x \in Transactions, status'[x] = "rejected"
               PROVE  /\ \E v \in Asked(x) : Rejected(x, v)'
                      /\ \A v, z \in Asked(x) : Rejected(x, v)' /\ Rejected(x, z)' => v = z
                      /\ \A v \in Asked(x) : v \in cancelled'[x] <=> ~Decided(x, v)'
    BY <1>5 DEF RejectedShape
  <2>0. Asked(x) \subseteq Approvers
    BY DEF Asked
  <2>1. CASE x = t
    <3>1. \A v \in Approvers : ~Rejected(t, v)
      BY <1>1, <1>3 DEF ChainInv, PendingShape
    <3> QED
      BY <1>1, <1>4, <1>6, <2>0, <2>1, <3>1
  <2>2. CASE x # t
    BY <1>3, <1>4, <1>6, <2>0, <2>2 DEF ChainInv, RejectedShape
  <2> QED
    BY <2>1, <2>2
<1> QED
  BY <1>8, <1>9, <1>10, <1>11, <1>12, <1>13, <1>14 DEF ChainInv

\* What an approval changes, whatever activateNext does after it.
LEMMA ApproveFacts ==
  ASSUME IInv, NEW w \in waiting, MayDecide(w), Record(w, "approved"),
         UNCHANGED <<step, cancelled>>
  PROVE  /\ w \in Waits /\ w.tx \in Transactions /\ w.approver \in Approvers
         /\ status[w.tx] = "pending_approval"
         /\ w.approver \in Asked(w.tx) /\ w.approver \in activated[w.tx]
         /\ cancelled[w.tx] = {}
         /\ \A v \in Approvers : ~Rejected(w.tx, v)
         /\ \A x \in Transactions, v \in Approvers :
              <<x, v>> # <<w.tx, w.approver>> =>
                 /\ Decided(x, v)' <=> Decided(x, v)
                 /\ Approved(x, v)' <=> Approved(x, v)
         /\ Decided(w.tx, w.approver)' /\ Approved(w.tx, w.approver)'
         /\ \A x \in Transactions, v \in Approvers :
              /\ Rejected(x, v)' <=> Rejected(x, v)
              /\ Approved(x, v) => Approved(x, v)'
              /\ Decided(x, v) => Decided(x, v)'
         /\ \A x \in Transactions : Asked(x)' = Asked(x) /\ Asked(x) \subseteq Approvers
         /\ AtMostOneDecision'
<1>1. /\ w \in Waits /\ w.tx \in Transactions /\ w.approver \in Approvers
      /\ status[w.tx] = "pending_approval"
      /\ w.approver \in Asked(w.tx) /\ w.approver \in Open(w.tx)
      /\ ~Decided(w.tx, w.approver)
  BY TurnIsReal
<1>2. TypeOK /\ ChainInv /\ AtMostOneDecision /\ "approved" \in Decisions
  BY DEF IInv, ChainInv, Decisions
<1>3. /\ \A x \in Transactions, v \in Approvers :
              <<x, v>> # <<w.tx, w.approver>> =>
                 /\ Decided(x, v)' <=> Decided(x, v)
                 /\ Approved(x, v)' <=> Approved(x, v)
                 /\ Rejected(x, v)' <=> Rejected(x, v)
      /\ Decided(w.tx, w.approver)' /\ Approved(w.tx, w.approver)'
      /\ ~Rejected(w.tx, w.approver)'
  BY <1>1, <1>2, RecordEffect
<1>4. cancelled[w.tx] = {} /\ \A v \in Approvers : ~Rejected(w.tx, v)
  BY <1>1, <1>2 DEF ChainInv, PendingShape
<1>5. AtMostOneDecision'
  BY <1>1, <1>2, RecordOnce
<1>6. \A x \in Transactions : Asked(x)' = Asked(x) /\ Asked(x) \subseteq Approvers
  BY DEF Asked
<1>7. w.approver \in activated[w.tx]
  BY <1>1 DEF Open
<1> QED
  BY <1>1, <1>3, <1>4, <1>5, <1>6, <1>7

\* A row of a pending transaction that is active and not open was approved.
LEMMA ClosedIsApproved ==
  ASSUME IInv, NEW t \in Transactions, status[t] = "pending_approval",
         NEW v \in activated[t], v \notin Open(t)
  PROVE  Approved(t, v)
<1>1. v \in Approvers
  BY DEF IInv, TypeOK
<1>2. cancelled[t] = {} /\ ~Rejected(t, v)
  BY <1>1 DEF IInv, ChainInv, PendingShape
<1> QED
  BY <1>2 DEF Open, Decided, Approved, Rejected, Decisions

LEMMA ApproveAndWaitChain ==
  ASSUME IInv, NEW w \in waiting, ApproveAndWait(w)
  PROVE  ChainInv'
<1>1. MayDecide(w) /\ Record(w, "approved") /\ UNCHANGED <<status, step, activated, cancelled>>
  BY DEF ApproveAndWait
<1>2. PICK v \in Open(w.tx) : v # w.approver
  BY DEF ApproveAndWait, SiblingOwes
<1>3. TypeOK /\ ChainInv
  BY DEF IInv
<1>4. v \in Approvers /\ v \in Open(w.tx)'
  BY <1>1, <1>2, <1>3, ApproveFacts DEF Open, TypeOK
<1>5. RowsMakeSense' /\ RowsBySubmit'
  BY <1>1, <1>3, ApproveFacts DEF ChainInv, RowsMakeSense, RowsBySubmit
<1>6. StepOrder' /\ StepsOpenTogether'
  BY <1>1, <1>3, ApproveFacts DEF ChainInv, StepOrder, StepsOpenTogether
<1>7. PendingShape'
  <2> SUFFICES ASSUME NEW x \in Transactions, status[x] = "pending_approval"
               PROVE  /\ cancelled[x] = {}
                      /\ \A z \in Approvers : ~Rejected(x, z)'
                      /\ Open(x)' # {}
    BY <1>1 DEF PendingShape
  <2>1. cancelled[x] = {} /\ \A z \in Approvers : ~Rejected(x, z)'
    BY <1>1, <1>3, ApproveFacts DEF ChainInv, PendingShape
  <2>2. CASE x = w.tx
    BY <1>4, <2>1, <2>2
  <2>3. CASE x # w.tx
    <3>1. Open(x) # {} /\ activated[x] \subseteq Approvers
      BY <1>3 DEF TypeOK, ChainInv, PendingShape
    <3>2. Open(x)' = Open(x)
      BY <1>1, <2>3, <3>1, ApproveFacts DEF Open
    <3> QED
      BY <2>1, <3>1, <3>2
  <2> QED
    BY <2>2, <2>3
<1>8. ApprovedShape'
  BY <1>1, <1>3, ApproveFacts DEF ChainInv, ApprovedShape
<1>9. RejectedShape'
  <2> SUFFICES ASSUME NEW x \in Transactions, status[x] = "rejected"
               PROVE  /\ \E z \in Asked(x) : Rejected(x, z)'
                      /\ \A y, z \in Asked(x) : Rejected(x, y)' /\ Rejected(x, z)' => y = z
                      /\ \A z \in Asked(x) : z \in cancelled[x] <=> ~Decided(x, z)'
    BY <1>1, ApproveFacts DEF RejectedShape
  <2>1. x # w.tx
    BY <1>1, ApproveFacts
  <2> QED
    BY <1>1, <1>3, <2>1, ApproveFacts DEF ChainInv, RejectedShape
<1> QED
  BY <1>1, <1>5, <1>6, <1>7, <1>8, <1>9, ApproveFacts DEF ChainInv

LEMMA ApproveLastChain ==
  ASSUME IInv, NEW w \in waiting, ApproveLast(w)
  PROVE  /\ ChainInv'
         /\ \A v \in Asked(w.tx) \ {w.approver} : Approved(w.tx, v)
<1>1. /\ MayDecide(w) /\ Record(w, "approved") /\ UNCHANGED <<step, activated, cancelled>>
      /\ Open(w.tx) \subseteq {w.approver}
      /\ Inactive(w.tx) = {}
      /\ status' = [status EXCEPT ![w.tx] = "approved"]
  BY DEF ApproveLast, SiblingOwes
<1>2. TypeOK /\ ChainInv
  BY DEF IInv
<1>3. \A v \in Asked(w.tx) : v \in activated[w.tx]
  BY <1>1, ApproveFacts DEF Inactive
<1>4. \A v \in Asked(w.tx) \ {w.approver} : Approved(w.tx, v)
  BY <1>1, <1>3, ApproveFacts, ClosedIsApproved
<1>5. /\ status'[w.tx] = "approved"
      /\ \A x \in Transactions : x # w.tx => status'[x] = status[x]
  BY <1>1, <1>2, ApproveFacts DEF TypeOK
<1>6. \A v \in Asked(w.tx) : Approved(w.tx, v)'
  BY <1>1, <1>4, ApproveFacts
<1>7. RowsMakeSense' /\ RowsBySubmit'
  BY <1>1, <1>2, <1>5, ApproveFacts DEF ChainInv, RowsMakeSense, RowsBySubmit
<1>8. StepOrder' /\ StepsOpenTogether'
  BY <1>1, <1>2, ApproveFacts DEF ChainInv, StepOrder, StepsOpenTogether
<1>9. PendingShape'
  <2> SUFFICES ASSUME NEW x \in Transactions, x # w.tx, status[x] = "pending_approval"
               PROVE  /\ cancelled[x] = {}
                      /\ \A z \in Approvers : ~Rejected(x, z)'
                      /\ Open(x)' # {}
    BY <1>1, <1>5 DEF PendingShape
  <2>1. /\ cancelled[x] = {} /\ \A z \in Approvers : ~Rejected(x, z)'
        /\ Open(x) # {} /\ activated[x] \subseteq Approvers
    BY <1>1, <1>2, ApproveFacts DEF TypeOK, ChainInv, PendingShape
  <2>2. Open(x)' = Open(x)
    BY <1>1, <2>1, ApproveFacts DEF Open
  <2> QED
    BY <2>1, <2>2
<1>10. ApprovedShape'
  BY <1>1, <1>2, <1>5, <1>6, ApproveFacts DEF ChainInv, ApprovedShape
<1>11. RejectedShape'
  <2> SUFFICES ASSUME NEW x \in Transactions, x # w.tx, status[x] = "rejected"
               PROVE  /\ \E z \in Asked(x) : Rejected(x, z)'
                      /\ \A y, z \in Asked(x) : Rejected(x, y)' /\ Rejected(x, z)' => y = z
                      /\ \A z \in Asked(x) : z \in cancelled[x] <=> ~Decided(x, z)'
    BY <1>1, <1>5, ApproveFacts DEF RejectedShape
  <2> QED
    BY <1>1, <1>2, ApproveFacts DEF ChainInv, RejectedShape
<1> QED
  BY <1>1, <1>4, <1>7, <1>8, <1>9, <1>10, <1>11, ApproveFacts DEF ChainInv

\* The step that goes active is a whole step, and everyone below it approved.
LEMMA ApproveAndActivateChain ==
  ASSUME IInv, NEW w \in waiting, ApproveAndActivate(w)
  PROVE  ChainInv'
<1> DEFINE t == w.tx
<1> DEFINE next == LowestRows(step[t], Inactive(t))
<1>1. /\ MayDecide(w) /\ Record(w, "approved") /\ UNCHANGED <<status, step, cancelled>>
      /\ Open(t) \subseteq {w.approver}
      /\ Inactive(t) # {}
      /\ activated' = [activated EXCEPT ![t] = @ \union next]
  BY DEF ApproveAndActivate, SiblingOwes
<1>2. TypeOK /\ ChainInv
  BY DEF IInv
<1>3. t \in Transactions /\ step[t] \in [Approvers -> 0..MaxStep]
  BY <1>1, <1>2, ApproveFacts DEF TypeOK
<1>4. /\ next # {} /\ next \subseteq Inactive(t)
      /\ \A u \in next : \A v \in Inactive(t) : step[t][u] <= step[t][v]
  BY <1>1, <1>3, LowestRowsExist DEF LowestRows, Inactive, Asked
<1>5. Inactive(t) = Asked(t) \ activated[t]
  BY <1>1, ApproveFacts DEF Inactive
<1>6. \A v \in activated[t] \ {w.approver} : Approved(t, v)
  BY <1>1, <1>3, ApproveFacts, ClosedIsApproved
<1>7. \A v \in activated[t] : Approved(t, v)' /\ v \in Approvers
  <2>1. activated[t] \subseteq Approvers
    BY <1>2, <1>3 DEF TypeOK
  <2>2. MayDecide(w) /\ Record(w, "approved") /\ UNCHANGED <<step, cancelled>>
    BY <1>1
  <2>3. Approved(t, w.approver)'
    BY <2>2, ApproveFacts
  <2>4. ASSUME NEW v \in activated[t], v # w.approver
        PROVE  Approved(t, v)'
    BY <1>3, <1>6, <2>1, <2>2, <2>4, ApproveFacts
  <2> QED
    BY <2>1, <2>3, <2>4
<1>8. /\ activated'[t] = activated[t] \union next
      /\ \A x \in Transactions : x # t => activated'[x] = activated[x]
  BY <1>1, <1>2, <1>3 DEF TypeOK
<1>9. next \subseteq Asked(t) /\ next \subseteq Approvers /\ Asked(t)' = Asked(t)
  BY <1>1, <1>4, <1>5 DEF Asked
<1> HIDE DEF next
<1>10. \A u \in next : ~Decided(t, u)'
  <2> SUFFICES ASSUME NEW u \in next
               PROVE  ~Decided(t, u)'
    OBVIOUS
  <2>1. u \in Approvers /\ u \notin activated[t]
    BY <1>4, <1>5, <1>9
  <2>2. ~Decided(t, u)
    BY <1>2, <1>3, <2>1 DEF ChainInv, RowsMakeSense
  <2>3. w.approver \in activated[t]
    BY <1>1, ApproveFacts
  <2> QED
    BY <1>1, <1>3, <2>1, <2>2, <2>3, ApproveFacts
<1>11. RowsMakeSense'
  <2> SUFFICES ASSUME NEW x \in Transactions
               PROVE  /\ activated'[x] \subseteq Asked(x)
                      /\ cancelled[x] \subseteq Asked(x)
                      /\ \A u \in Approvers : Decided(x, u)' => u \in activated'[x]
    BY <1>1, ApproveFacts DEF RowsMakeSense
  <2>1. activated[x] \subseteq activated'[x]
    BY <1>8
  <2>2. activated'[x] \subseteq Asked(x) /\ cancelled[x] \subseteq Asked(x)
    BY <1>2, <1>8, <1>9 DEF ChainInv, RowsMakeSense
  <2>3. \A u \in Approvers : Decided(x, u)' => u \in activated'[x]
    BY <1>1, <1>2, <2>1, ApproveFacts DEF ChainInv, RowsMakeSense
  <2> QED
    BY <2>2, <2>3
<1>12. RowsBySubmit'
  BY <1>1, <1>2, ApproveFacts DEF ChainInv, RowsBySubmit
<1>13. StepOrder'
  <2> SUFFICES ASSUME NEW x \in Transactions, NEW u \in activated'[x],
                      NEW v \in Asked(x), step[x][v] < step[x][u]
               PROVE  Approved(x, v)'
    BY <1>1, ApproveFacts DEF StepOrder
  <2>1. CASE u \in activated[x]
    BY <1>1, <1>2, <2>1, ApproveFacts DEF ChainInv, StepOrder
  <2>2. CASE u \notin activated[x]
    <3>1. x = t /\ u \in next
      BY <1>8, <2>2
    <3>2. step[t][u] \in Int /\ step[t][v] \in Int
      BY <1>3, <1>9, <3>1, StepAssumption DEF Asked
    <3>3. v \notin Inactive(t)
      BY <1>4, <3>1, <3>2
    <3> QED
      BY <1>5, <1>7, <3>1, <3>3
  <2> QED
    BY <2>1, <2>2
<1>14. StepsOpenTogether'
  <2> SUFFICES ASSUME NEW x \in Transactions, NEW u \in activated'[x],
                      NEW v \in Asked(x), step[x][v] = step[x][u]
               PROVE  v \in activated'[x]
    BY <1>1, ApproveFacts DEF StepsOpenTogether
  <2>1. CASE u \in activated[x]
    BY <1>2, <1>8, <2>1 DEF ChainInv, StepsOpenTogether
  <2>2. CASE u \notin activated[x] /\ v \notin activated[x]
    <3>1. x = t /\ u \in next /\ v \in Inactive(t)
      BY <1>5, <1>8, <2>2
    <3>2. v \in next
      BY <3>1 DEF next, LowestRows
    <3> QED
      BY <1>8, <3>1, <3>2
  <2>3. CASE v \in activated[x]
    BY <1>8, <2>3
  <2> QED
    BY <2>1, <2>2, <2>3
<1>15. PendingShape'
  <2> SUFFICES ASSUME NEW x \in Transactions, status[x] = "pending_approval"
               PROVE  /\ cancelled[x] = {}
                      /\ \A z \in Approvers : ~Rejected(x, z)'
                      /\ Open(x)' # {}
    BY <1>1 DEF PendingShape
  <2>1. cancelled[x] = {} /\ \A z \in Approvers : ~Rejected(x, z)'
    BY <1>1, <1>2, ApproveFacts DEF ChainInv, PendingShape
  <2>2. CASE x = t
    <3>1. next \subseteq Open(t)'
      BY <1>1, <1>8, <1>10, <2>1, <2>2 DEF Open
    <3> QED
      BY <1>4, <2>1, <2>2, <3>1
  <2>3. CASE x # t
    <3>1. Open(x) # {} /\ activated[x] \subseteq Approvers
      BY <1>2 DEF TypeOK, ChainInv, PendingShape
    <3>2. Open(x)' = Open(x)
      BY <1>1, <1>8, <2>3, <3>1, ApproveFacts DEF Open
    <3> QED
      BY <2>1, <3>1, <3>2
  <2> QED
    BY <2>2, <2>3
<1>16. ApprovedShape'
  BY <1>1, <1>2, ApproveFacts DEF ChainInv, ApprovedShape
<1>17. RejectedShape'
  <2> SUFFICES ASSUME NEW x \in Transactions, status[x] = "rejected"
               PROVE  /\ \E z \in Asked(x) : Rejected(x, z)'
                      /\ \A y, z \in Asked(x) : Rejected(x, y)' /\ Rejected(x, z)' => y = z
                      /\ \A z \in Asked(x) : z \in cancelled[x] <=> ~Decided(x, z)'
    BY <1>1, ApproveFacts DEF RejectedShape
  <2>1. x # w.tx
    BY <1>1, ApproveFacts
  <2> QED
    BY <1>1, <1>2, <2>1, ApproveFacts DEF ChainInv, RejectedShape
<1> QED
  BY <1>1, <1>11, <1>12, <1>13, <1>14, <1>15, <1>16, <1>17, ApproveFacts DEF ChainInv

-----------------------------------------------------------------------------
(* The invariant, the whole of it.                                         *)

\* Nobody decides on a draft, and nobody edits anything else.
LEMMA DecideFrame ==
  ASSUME IInv, NEW w \in waiting, Decide(w)
  PROVE  /\ status[w.tx] = "pending_approval" /\ w.tx \in Transactions
         /\ status' \in [Transactions -> Statuses]
         /\ \A x \in Transactions : status'[x] = "draft" <=> status[x] = "draft"
         /\ \A x \in Transactions : x # w.tx => status'[x] = status[x]
         /\ UNCHANGED <<deleted, content, step>>
         /\ \A x \in Transactions : activated[x] \subseteq activated'[x]
         /\ waiting' \subseteq waiting
<1>1. TypeOK /\ MayDecide(w) /\ w.tx \in Transactions
  BY DEF IInv, TypeOK, Waits, Decide, Reject, ApproveAndWait, ApproveAndActivate, ApproveLast
<1>2. status[w.tx] = "pending_approval"
  BY <1>1 DEF MayDecide
<1>3. /\ UNCHANGED <<deleted, content, step>>
      /\ waiting' = waiting \ {w}
      /\ \/ UNCHANGED status
         \/ status' = [status EXCEPT ![w.tx] = "rejected"]
         \/ status' = [status EXCEPT ![w.tx] = "approved"]
  BY DEF Decide, Reject, ApproveAndWait, ApproveAndActivate, ApproveLast
<1>4. \A x \in Transactions : activated[x] \subseteq activated'[x]
  <2>1. CASE ApproveAndActivate(w)
    <3> DEFINE next == LowestRows(step[w.tx], Inactive(w.tx))
    <3>1. activated' = [activated EXCEPT ![w.tx] = @ \union next]
      BY <2>1 DEF ApproveAndActivate
    <3> HIDE DEF next
    <3> QED
      BY <1>1, <3>1 DEF TypeOK
  <2>2. CASE ~ApproveAndActivate(w)
    BY <2>2 DEF Decide, Reject, ApproveAndWait, ApproveLast
  <2> QED
    BY <2>1, <2>2
<1> QED
  BY <1>1, <1>2, <1>3, <1>4 DEF TypeOK, Statuses

LEMMA BackedStep ==
  ASSUME IInv, [Next]_vars
  PROVE  SubmittedIsBacked'
<1> USE DEF SubmittedIsBacked, content, IsDraft
<1>1. CASE \E t \in Transactions : EditDraft(t) \/ Remove(t)
  BY <1>1
  DEF IInv, TypeOK, EditDraft, CompleteUpload, DeleteDocument, UpdateItems,
      AttachOcrItem, Remove, DeleteTransaction, EmitDeleted, LoseDelete
<1>2. CASE \E t \in Transactions, c \in Chains : Submit(t, c)
  <2> PICK t \in Transactions, c \in Chains : Submit(t, c)
    BY <1>2
  <2>1. /\ IsDraft(t) /\ documents[t] >= 1 /\ hasAmount[t]
        /\ status' = [status EXCEPT ![t] = "pending_approval"]
        /\ UNCHANGED <<deleted, documents, hasAmount>>
    BY DEF Submit
  <2> QED
    BY <2>1 DEF IInv, TypeOK
<1>3. CASE \E r \in Requests, t \in Transactions, u \in Approvers : ReadApproval(r, t, u)
  BY <1>3 DEF IInv, ReadApproval
<1>4. CASE \E w \in waiting : Decide(w) \/ Abandon(w)
  <2> PICK w \in waiting : Decide(w) \/ Abandon(w)
    BY <1>4
  <2>1. CASE Decide(w)
    BY <2>1, DecideFrame DEF IInv
  <2>2. CASE Abandon(w)
    BY <2>2 DEF Abandon, IInv
  <2> QED
    BY <2>1, <2>2
<1>5. CASE UNCHANGED vars
  BY <1>5 DEF IInv, vars
<1> QED
  BY <1>1, <1>2, <1>3, <1>4, <1>5 DEF Next

LEMMA ReadsStep ==
  ASSUME IInv, [Next]_vars
  PROVE  ReadsAreMonotone'
<1>0. TypeOK /\ ReadsAreMonotone /\ \A w \in waiting : w.tx \in Transactions
  BY DEF IInv, TypeOK, Waits
<1>1. CASE \E t \in Transactions : EditDraft(t) \/ Remove(t)
  BY <1>0, <1>1
  DEF ReadsAreMonotone, Asked, approvals, EditDraft, CompleteUpload, DeleteDocument,
      UpdateItems, AttachOcrItem, Remove, DeleteTransaction, EmitDeleted, LoseDelete
<1>2. CASE \E t \in Transactions, c \in Chains : Submit(t, c)
  <2> PICK t \in Transactions, c \in Chains : Submit(t, c)
    BY <1>2
  <2>1. status[t] = "draft" /\ waiting' = waiting
    BY DEF Submit, IsDraft
  <2>2. \A x \in Transactions : x # t => step'[x] = step[x] /\ activated'[x] = activated[x]
    BY <1>0 DEF Submit, TypeOK
  <2>3. Asked(t) = {}
    BY <2>1 DEF IInv, ChainInv, RowsBySubmit
  <2>4. \A w \in waiting : w.tx # t
    BY <1>0, <2>3 DEF ReadsAreMonotone
  <2> QED
    BY <1>0, <2>1, <2>2, <2>4 DEF ReadsAreMonotone, Asked
<1>3. CASE \E r \in Requests, t \in Transactions, u \in Approvers : ReadApproval(r, t, u)
  <2> PICK r \in Requests, t \in Transactions, u \in Approvers : ReadApproval(r, t, u)
    BY <1>3
  <2> DEFINE new == [request |-> r, tx |-> t, approver |-> u,
                     activated |-> u \in activated[t], cancelled |-> u \in cancelled[t]]
  <2>1. waiting' = waiting \union {new} /\ UNCHANGED <<step, activated>> /\ u \in Asked(t)
    BY DEF ReadApproval, approvals
  <2>2. new.tx = t /\ new.approver = u /\ (new.activated => u \in activated[t])
    OBVIOUS
  <2> HIDE DEF new
  <2> QED
    BY <1>0, <2>1, <2>2 DEF ReadsAreMonotone, Asked
<1>4. CASE \E w \in waiting : Decide(w) \/ Abandon(w)
  <2> PICK w \in waiting : Decide(w) \/ Abandon(w)
    BY <1>4
  <2>1. CASE Decide(w)
    BY <1>0, <2>1, DecideFrame DEF ReadsAreMonotone, Asked
  <2>2. CASE Abandon(w)
    BY <1>0, <2>2 DEF ReadsAreMonotone, Asked, Abandon, approvals
  <2> QED
    BY <2>1, <2>2
<1>5. CASE UNCHANGED vars
  BY <1>0, <1>5 DEF ReadsAreMonotone, Asked, vars, approvals
<1> QED
  BY <1>1, <1>2, <1>3, <1>4, <1>5 DEF Next

LEMMA ChainStep ==
  ASSUME IInv, [Next]_vars
  PROVE  ChainInv'
<1>0. TypeOK /\ ChainInv
  BY DEF IInv
<1>1. CASE UNCHANGED <<status, approvals>>
  BY <1>0, <1>1, ChainFrame
<1>2. CASE \E t \in Transactions, c \in Chains : Submit(t, c)
  BY <1>0, <1>2, SubmitChain
<1>3. CASE \E w \in waiting : Decide(w)
  BY <1>3, RejectChain, ApproveAndWaitChain, ApproveLastChain, ApproveAndActivateChain
  DEF Decide
<1>4. \/ UNCHANGED <<status, approvals>>
      \/ \E t \in Transactions, c \in Chains : Submit(t, c)
      \/ \E w \in waiting : Decide(w)
  BY DEF Next, EditDraft, CompleteUpload, DeleteDocument, UpdateItems, AttachOcrItem,
         Remove, DeleteTransaction, EmitDeleted, LoseDelete, ReadApproval, Abandon, vars
<1> QED
  BY <1>1, <1>2, <1>3, <1>4

LEMMA InitIInv == Init => IInv
<1> SUFFICES ASSUME Init
             PROVE  IInv
  OBVIOUS
<1>1. TypeOK
  BY StepAssumption, DocumentAssumption DEF Init, TypeOK, Statuses, NoChain, Undecided
<1>2. \A t \in Transactions :
        /\ status[t] = "draft" /\ activated[t] = {} /\ cancelled[t] = {}
        /\ Asked(t) = {}
  BY DEF Init, Asked, NoChain
<1>3. \A t \in Transactions, u \in Approvers, d \in Decisions : decisions[t][u][d] = 0
  BY DEF Init, Undecided
<1>4. \A t \in Transactions, u \in Approvers : ~Decided(t, u)
  BY <1>3 DEF Decided, Has
<1>5. AtMostOneDecision
  BY <1>3 DEF AtMostOneDecision, Decisions
<1>6. ChainInv
  BY <1>2, <1>4, <1>5
  DEF ChainInv, RowsMakeSense, RowsBySubmit, StepOrder, StepsOpenTogether,
      PendingShape, ApprovedShape, RejectedShape
<1> QED
  BY <1>1, <1>2, <1>6 DEF IInv, SubmittedIsBacked, ReadsAreMonotone, Init

\* IInv is inductive, so it holds of every reachable state.
THEOREM Invariance == Spec => []IInv
<1>1. IInv /\ [Next]_vars => IInv'
  BY TypeStep, ChainStep, BackedStep, ReadsStep DEF IInv
<1> QED
  BY <1>1, InitIInv, PTL DEF Spec

-----------------------------------------------------------------------------
(* The safety properties.                                                  *)

\* Nobody's step is active before everyone on a lower step has approved.
THEOREM StepOrderHolds == Spec => []StepOrder
<1>1. IInv => StepOrder
  BY DEF IInv, ChainInv
<1> QED
  BY <1>1, Invariance, PTL

\* No approval gets two decisions.
THEOREM OneDecision == Spec => []AtMostOneDecision
<1>1. IInv => AtMostOneDecision
  BY DEF IInv, ChainInv
<1> QED
  BY <1>1, Invariance, PTL

\* A pending transaction has somebody to wait for.
THEOREM NeverStuck == Spec => []PendingIsNotStuck
<1>1. IInv => PendingIsNotStuck
  BY DEF IInv, ChainInv, PendingShape, PendingIsNotStuck
<1> QED
  BY <1>1, Invariance, PTL

\* A rejection cancels exactly what was not decided.
THEOREM RejectionCloses == Spec => []RejectionClosesChain
<1>1. IInv => RejectionClosesChain
  BY DEF IInv, ChainInv, RejectedShape, RejectionClosesChain
<1> QED
  BY <1>1, Invariance, PTL

\* What was submitted stays backed by a document and an amount.
THEOREM Backed == Spec => []SubmittedIsBacked
<1>1. IInv => SubmittedIsBacked
  BY DEF IInv
<1> QED
  BY <1>1, Invariance, PTL

\* Deciding on a stale approval row does no harm.
THEOREM StaleRead == Spec => []StaleReadIsHarmless
<1>1. IInv => StaleReadIsHarmless
  BY TurnIsReal DEF StaleReadIsHarmless
<1> QED
  BY <1>1, Invariance, PTL

\* The status column follows from the decision rows.
THEOREM Outcome == Spec => []OutcomeMatchesDecisions
<1>1. ASSUME IInv, NEW t \in Transactions
      PROVE  /\ status[t] = "approved" <=>
                  status[t] # "draft" /\ \A u \in Asked(t) : Approved(t, u)
             /\ status[t] = "rejected" <=> \E u \in Asked(t) : Rejected(t, u)
  <2>0. /\ TypeOK /\ ChainInv /\ Asked(t) \subseteq Approvers
        /\ \A u \in Approvers : ~(Approved(t, u) /\ Rejected(t, u))
    <3>1. TypeOK /\ ChainInv
      BY <1>1 DEF IInv
    <3>2. ASSUME NEW u \in Approvers
          PROVE  ~(Approved(t, u) /\ Rejected(t, u))
      <4>1. /\ decisions[t][u]["approved"] \in Nat /\ decisions[t][u]["rejected"] \in Nat
            /\ decisions[t][u]["approved"] + decisions[t][u]["rejected"] <= 1
        BY <3>1 DEF TypeOK, ChainInv, AtMostOneDecision, Decisions
      <4> QED
        BY <4>1 DEF Approved, Rejected, Has
    <3> QED
      BY <3>1, <3>2 DEF Asked
  <2>1. CASE status[t] = "draft"
    BY <2>0, <2>1 DEF ChainInv, RowsBySubmit
  <2>2. CASE status[t] = "pending_approval"
    <3>1. PICK u \in Open(t) : TRUE
      BY <2>0, <2>2 DEF ChainInv, PendingShape
    <3>2. u \in Asked(t) /\ ~Approved(t, u)
      BY <2>0, <3>1 DEF ChainInv, RowsMakeSense, Open, Decided, Decisions, Approved
    <3>3. \A v \in Asked(t) : ~Rejected(t, v)
      BY <2>0, <2>2 DEF ChainInv, PendingShape
    <3> QED
      BY <2>2, <3>2, <3>3
  <2>3. CASE status[t] = "approved"
    BY <2>0, <2>3 DEF ChainInv, ApprovedShape
  <2>4. CASE status[t] = "rejected"
    BY <2>0, <2>4 DEF ChainInv, RejectedShape
  <2> QED
    BY <2>0, <2>1, <2>2, <2>3, <2>4 DEF TypeOK, Statuses
<1>2. IInv => OutcomeMatchesDecisions
  BY <1>1 DEF OutcomeMatchesDecisions
<1> QED
  BY <1>2, Invariance, PTL

-----------------------------------------------------------------------------
(* What is settled stays as it is.                                         *)

\* A settled transaction keeps its status, its rows, its decisions, its
\* documents and its total, whatever requests are still in flight.
THEOREM Frozen == Spec => SettledIsFrozen
<1> DEFINE Same(t) ==
      /\ status'[t] = status[t]
      /\ t \notin deleted'
      /\ documents'[t] = documents[t]
      /\ hasAmount'[t] = hasAmount[t]
      /\ step'[t] = step[t]
      /\ activated'[t] = activated[t]
      /\ cancelled'[t] = cancelled[t]
      /\ decisions'[t] = decisions[t]
<1>1. ASSUME IInv, Next, NEW t \in Transactions, status[t] \in {"approved", "rejected"}
      PROVE  Same(t)
  <2>0. TypeOK /\ t \notin deleted
    BY <1>1 DEF IInv, SubmittedIsBacked
  <2>1. ASSUME NEW x \in Transactions, EditDraft(x) \/ Remove(x)
        PROVE  Same(t)
    BY <1>1, <2>0, <2>1
    DEF TypeOK, content, approvals, IsDraft, EditDraft, CompleteUpload, DeleteDocument,
        UpdateItems, AttachOcrItem, Remove, DeleteTransaction, EmitDeleted, LoseDelete
  <2>2. ASSUME NEW x \in Transactions, NEW c \in Chains, Submit(x, c)
        PROVE  Same(t)
    <3> DEFINE first == LowestRows(c, {u \in Approvers : c[u] > 0})
    <3>1. /\ status[x] = "draft" /\ activated' = [activated EXCEPT ![x] = first]
          /\ status' = [status EXCEPT ![x] = "pending_approval"]
          /\ step' = [step EXCEPT ![x] = c]
          /\ UNCHANGED <<deleted, content, cancelled, decisions>>
      BY <2>2 DEF Submit, IsDraft
    <3> HIDE DEF first
    <3> QED
      BY <1>1, <2>0, <3>1 DEF TypeOK, content
  <2>3. ASSUME NEW r \in Requests, NEW x \in Transactions, NEW u \in Approvers,
               ReadApproval(r, x, u)
        PROVE  Same(t)
    BY <2>0, <2>3 DEF ReadApproval, content, approvals
  <2>4. ASSUME NEW w \in waiting, Decide(w)
        PROVE  Same(t)
    <3>1. w.tx # t /\ w.tx \in Transactions /\ MayDecide(w)
      BY <1>1, <2>4, DecideFrame
      DEF Decide, Reject, ApproveAndWait, ApproveAndActivate, ApproveLast
    <3>2. status'[t] = status[t] /\ UNCHANGED <<deleted, content, step>>
      BY <1>1, <2>4, <3>1, DecideFrame
    <3>3. Record(w, "approved") \/ Record(w, "rejected")
      BY <2>4 DEF Decide, Reject, ApproveAndWait, ApproveAndActivate, ApproveLast
    <3>4. decisions'[t] = decisions[t]
      BY <2>0, <3>1, <3>3 DEF TypeOK, Record
    <3>5. cancelled'[t] = cancelled[t]
      BY <2>0, <2>4, <3>1
      DEF TypeOK, CancelPendingApprovals, Decide, Reject, ApproveAndWait,
          ApproveAndActivate, ApproveLast
    <3>6. activated'[t] = activated[t]
      <4>1. CASE ApproveAndActivate(w)
        <5> DEFINE next == LowestRows(step[w.tx], Inactive(w.tx))
        <5>1. activated' = [activated EXCEPT ![w.tx] = @ \union next]
          BY <4>1 DEF ApproveAndActivate
        <5> HIDE DEF next
        <5> QED
          BY <2>0, <3>1, <5>1 DEF TypeOK
      <4>2. CASE ~ApproveAndActivate(w)
        BY <2>4, <4>2 DEF Decide, Reject, ApproveAndWait, ApproveLast
      <4> QED
        BY <4>1, <4>2
    <3> QED
      BY <2>0, <3>2, <3>4, <3>5, <3>6 DEF content
  <2>5. ASSUME NEW w \in waiting, Abandon(w)
        PROVE  Same(t)
    BY <2>0, <2>5 DEF Abandon, content, approvals
  <2> HIDE DEF Same
  <2> QED
    BY <1>1, <2>1, <2>2, <2>3, <2>4, <2>5 DEF Next
<1>2. IInv /\ [Next]_vars =>
        [\A t \in Transactions : status[t] \in {"approved", "rejected"} => Same(t)]_vars
  <2> HIDE DEF Same
  <2> QED
    BY <1>1
<1> QED
  BY <1>2, Invariance, PTL DEF Spec, SettledIsFrozen

-----------------------------------------------------------------------------
(* The engine implements ApprovalChain.                                    *)

outcomes == [t \in Transactions |-> OutcomeOf(t)]
votes == [t \in Transactions |-> [u \in Approvers |-> VoteOf(t, u)]]

\* Who passes the checks of Decide has a turn.
LEMMA TurnMaps ==
  ASSUME IInv, NEW w \in waiting, MayDecide(w)
  PROVE  Promise!HasTurn(w.tx, w.approver)
<1>1. /\ w.tx \in Transactions /\ w.approver \in Approvers
      /\ status[w.tx] = "pending_approval"
      /\ w.approver \in Asked(w.tx) /\ w.approver \in activated[w.tx]
      /\ ~Decided(w.tx, w.approver)
  BY TurnIsReal DEF Open
<1>2. outcomes[w.tx] = "pending_approval"
  BY <1>1 DEF outcomes, OutcomeOf, IInv, SubmittedIsBacked
<1>3. votes[w.tx][w.approver] = "none"
  BY <1>1 DEF votes, VoteOf, Decided, Approved, Rejected, Decisions
<1>4. \A v \in Asked(w.tx) :
        step[w.tx][v] < step[w.tx][w.approver] => votes[w.tx][v] = "approved"
  BY <1>1 DEF votes, VoteOf, IInv, ChainInv, StepOrder, Asked
<1> QED
  BY <1>1, <1>2, <1>3, <1>4
  DEF Promise!HasTurn, Promise!Asked, Asked, outcomes, votes

\* A new decision row is a new vote.
LEMMA VoteMaps ==
  ASSUME IInv, NEW w \in waiting, MayDecide(w), NEW d \in Decisions, Record(w, d)
  PROVE  votes' = [votes EXCEPT ![w.tx][w.approver] = d]
<1>1. /\ w \in Waits /\ w.tx \in Transactions /\ w.approver \in Approvers
      /\ ~Decided(w.tx, w.approver) /\ TypeOK
  BY TurnIsReal DEF IInv
<1>2. ASSUME NEW x \in Transactions, NEW v \in Approvers
      PROVE  VoteOf(x, v)' = IF x = w.tx /\ v = w.approver THEN d ELSE VoteOf(x, v)
  <2>1. CASE x = w.tx /\ v = w.approver
    <3>1. d = "approved" => Approved(x, v)'
      BY <1>1, <2>1, RecordEffect
    <3>2. d = "rejected" => ~Approved(x, v)' /\ Rejected(x, v)'
      BY <1>1, <2>1, RecordEffect
    <3>3. CASE d = "approved"
      BY <2>1, <3>1, <3>3 DEF VoteOf
    <3>4. CASE d = "rejected"
      BY <2>1, <3>2, <3>4 DEF VoteOf
    <3> QED
      BY <3>3, <3>4 DEF Decisions
  <2>2. CASE <<x, v>> # <<w.tx, w.approver>>
    <3>1. (Approved(x, v)' <=> Approved(x, v)) /\ (Rejected(x, v)' <=> Rejected(x, v))
      BY <1>1, <2>2, RecordEffect
    <3> QED
      BY <2>2, <3>1 DEF VoteOf
  <2> QED
    BY <2>1, <2>2
<1> QED
  BY <1>1, <1>2, Zenon DEF votes

\* The status of one live transaction changes.
LEMMA OutcomeMaps ==
  ASSUME TypeOK, NEW t \in Transactions, t \notin deleted, NEW s \in Statuses,
         status' = [status EXCEPT ![t] = s], UNCHANGED deleted
  PROVE  outcomes' = [outcomes EXCEPT ![t] = s]
<1>1. \A x \in Transactions : OutcomeOf(x)' = IF x = t THEN s ELSE OutcomeOf(x)
  BY DEF TypeOK, OutcomeOf
<1> QED
  BY <1>1, Zenon DEF outcomes

LEMMA SameVotes ==
  ASSUME UNCHANGED decisions
  PROVE  votes' = votes
BY DEF votes, VoteOf, Approved, Rejected, Has

LEMMA SameOutcomes ==
  ASSUME UNCHANGED <<status, deleted>>
  PROVE  outcomes' = outcomes
BY DEF outcomes, OutcomeOf

\* A decision is a rejection or an approval of ApprovalChain.
LEMMA DecideImplements ==
  ASSUME IInv, NEW w \in waiting, Decide(w)
  PROVE  Promise!Next
<1> DEFINE t == w.tx
<1> DEFINE u == w.approver
<1>1. /\ MayDecide(w) /\ t \in Transactions /\ u \in Approvers /\ t \notin deleted
      /\ UNCHANGED <<deleted, step>> /\ Promise!HasTurn(t, u) /\ TypeOK
      /\ u \in Asked(t) /\ ~Decided(t, u)
  <2>1. MayDecide(w)
    BY DEF Decide, Reject, ApproveAndWait, ApproveAndActivate, ApproveLast
  <2> QED
    BY <2>1, TurnIsReal, TurnMaps, DecideFrame DEF IInv, SubmittedIsBacked
<1>2. Asked(t) = {v \in Approvers : step[t][v] > 0}
  BY DEF Asked
<1>3. \A v \in Approvers : votes[t][v] = VoteOf(t, v)
  BY <1>1 DEF votes
<1>4. ASSUME NEW v \in Open(t), v # u
      PROVE  \E z \in Asked(t) \ {u} : votes[t][z] # "approved"
  <2>1. v \in Asked(t) /\ v \in Approvers /\ ~Approved(t, v)
    BY <1>1, <1>4 DEF IInv, ChainInv, RowsMakeSense, Open, Asked, Decided, Approved, Decisions
  <2> QED
    BY <1>3, <1>4, <2>1 DEF VoteOf
<1>5. CASE Reject(w)
  <2>1. status' = [status EXCEPT ![t] = "rejected"] /\ Record(w, "rejected")
    BY <1>5 DEF Reject
  <2>2. outcomes' = [outcomes EXCEPT ![t] = "rejected"]
    BY <1>1, <2>1, OutcomeMaps DEF Statuses
  <2>3. votes' = [votes EXCEPT ![t][u] = "rejected"]
    BY <1>1, <2>1, VoteMaps DEF Decisions
  <2>4. Promise!Reject(t, u)
    BY <1>1, <2>2, <2>3 DEF Promise!Reject, outcomes, votes
  <2> QED
    BY <1>1, <2>4 DEF Promise!Next
<1>6. CASE ApproveAndWait(w) \/ ApproveAndActivate(w)
  <2>1. UNCHANGED <<status, deleted>> /\ Record(w, "approved")
    BY <1>6 DEF ApproveAndWait, ApproveAndActivate
  <2>2. outcomes' = outcomes
    BY <2>1, SameOutcomes
  <2>3. votes' = [votes EXCEPT ![t][u] = "approved"]
    BY <1>1, <2>1, VoteMaps DEF Decisions
  <2>4. \E v \in Asked(t) \ {u} : votes[t][v] # "approved"
    <3>1. CASE ApproveAndWait(w)
      BY <1>4, <3>1 DEF ApproveAndWait, SiblingOwes
    <3>2. CASE ApproveAndActivate(w)
      <4>1. PICK v \in Asked(t) : v \notin activated[t]
        BY <3>2 DEF ApproveAndActivate, Inactive
      <4>2. u \in activated[t] /\ v \in Approvers /\ ~Approved(t, v)
        BY <1>1, <4>1, TurnIsReal
        DEF IInv, ChainInv, RowsMakeSense, Open, Asked, Decided, Approved, Decisions
      <4> QED
        BY <1>3, <4>1, <4>2 DEF VoteOf
    <3> QED
      BY <1>6, <3>1, <3>2
  <2>5. Promise!ApproveStep(t, u)
    BY <1>1, <1>2, <2>2, <2>3, <2>4 DEF Promise!ApproveStep, Promise!Asked, outcomes, votes
  <2> QED
    BY <1>1, <2>5 DEF Promise!Next
<1>7. CASE ApproveLast(w)
  <2>1. status' = [status EXCEPT ![t] = "approved"] /\ Record(w, "approved")
    BY <1>7 DEF ApproveLast
  <2>2. outcomes' = [outcomes EXCEPT ![t] = "approved"]
    BY <1>1, <2>1, OutcomeMaps DEF Statuses
  <2>3. votes' = [votes EXCEPT ![t][u] = "approved"]
    BY <1>1, <2>1, VoteMaps DEF Decisions
  <2>4. \A v \in Asked(t) \ {u} : votes[t][v] = "approved"
    BY <1>2, <1>3, <1>7, ApproveLastChain DEF VoteOf
  <2>5. Promise!ApproveLast(t, u)
    BY <1>1, <1>2, <2>2, <2>3, <2>4 DEF Promise!ApproveLast, Promise!Asked, outcomes, votes
  <2> QED
    BY <1>1, <2>5 DEF Promise!Next
<1> QED
  BY <1>5, <1>6, <1>7 DEF Decide

\* Every step of the engine is a step of ApprovalChain, or changes nothing of it.
LEMMA StepImplements ==
  ASSUME IInv, [Next]_vars
  PROVE  [Promise!Next]_(Promise!vars)
<1>0. TypeOK
  BY DEF IInv
<1>1. CASE UNCHANGED <<status, deleted, step, decisions>>
  BY <1>1, SameVotes, SameOutcomes DEF Promise!vars, outcomes, votes
<1>2. ASSUME NEW t \in Transactions, NEW c \in Chains, Submit(t, c)
      PROVE  Promise!Next
  <2>1. /\ t \notin deleted /\ status[t] = "draft"
        /\ status' = [status EXCEPT ![t] = "pending_approval"]
        /\ step' = [step EXCEPT ![t] = c]
        /\ UNCHANGED <<deleted, decisions>>
    BY <1>2 DEF Submit, IsDraft
  <2>2. outcomes[t] = "draft"
    BY <2>1 DEF outcomes, OutcomeOf
  <2>3. outcomes' = [outcomes EXCEPT ![t] = "pending_approval"]
    BY <1>0, <2>1, OutcomeMaps DEF Statuses
  <2>4. votes' = votes
    BY <2>1, SameVotes
  <2>5. Promise!Submit(t, c)
    BY <2>1, <2>2, <2>3, <2>4 DEF Promise!Submit, outcomes, votes
  <2>6. c \in Promise!Chains
    BY DEF Chains, NoChain, Promise!Chains, Promise!NoChain
  <2> QED
    BY <2>5, <2>6 DEF Promise!Next
<1>3. ASSUME NEW t \in Transactions, DeleteTransaction(t)
      PROVE  Promise!Next
  <2>1. /\ t \notin deleted /\ status[t] = "draft" /\ deleted' = deleted \union {t}
        /\ UNCHANGED <<status, step, decisions>>
    BY <1>3 DEF DeleteTransaction, IsDraft, approvals
  <2>2. outcomes[t] = "draft"
    BY <2>1 DEF outcomes, OutcomeOf
  <2>3. \A x \in Transactions : OutcomeOf(x)' = IF x = t THEN "deleted" ELSE OutcomeOf(x)
    BY <2>1 DEF OutcomeOf
  <2>4. outcomes' = [outcomes EXCEPT ![t] = "deleted"]
    BY <2>3, Zenon DEF outcomes
  <2>5. votes' = votes
    BY <2>1, SameVotes
  <2>6. Promise!Delete(t)
    BY <2>1, <2>2, <2>4, <2>5 DEF Promise!Delete, outcomes, votes
  <2> QED
    BY <2>6 DEF Promise!Next
<1>4. CASE \E w \in waiting : Decide(w)
  BY <1>4, DecideImplements
<1>5. \/ UNCHANGED <<status, deleted, step, decisions>>
      \/ \E t \in Transactions, c \in Chains : Submit(t, c)
      \/ \E t \in Transactions : DeleteTransaction(t)
      \/ \E w \in waiting : Decide(w)
  BY DEF Next, EditDraft, CompleteUpload, DeleteDocument, UpdateItems, AttachOcrItem,
         Remove, EmitDeleted, LoseDelete, ReadApproval, Abandon, vars, approvals
<1> QED
  BY <1>1, <1>2, <1>3, <1>4, <1>5

\* The engine does to outcomes, chains and votes what ApprovalChain promises.
THEOREM Implements == Spec => ImplementsChain
<1>1. Init => Promise!Init
  <2> SUFFICES ASSUME Init
               PROVE  Promise!Init
    OBVIOUS
  <2>1. \A t \in Transactions : OutcomeOf(t) = "draft"
    BY DEF Init, OutcomeOf
  <2>2. \A t \in Transactions, u \in Approvers : VoteOf(t, u) = "none"
    BY DEF Init, Undecided, VoteOf, Approved, Rejected, Has, Decisions
  <2>3. outcomes = [t \in Transactions |-> "draft"]
    BY <2>1 DEF outcomes
  <2>4. votes = [t \in Transactions |-> [u \in Approvers |-> "none"]]
    BY <2>2 DEF votes
  <2>5. step = [t \in Transactions |-> [u \in Approvers |-> 0]]
    BY DEF Init, NoChain
  <2> QED
    BY <2>3, <2>4, <2>5
    DEF Promise!Init, Promise!NoVotes, Promise!NoChain, outcomes, votes
<1>2. IInv /\ [Next]_vars => [Promise!Next]_(Promise!vars)
  BY StepImplements
<1> QED
  BY <1>1, <1>2, Invariance, PTL DEF Spec, ImplementsChain, Promise!Spec

-----------------------------------------------------------------------------
(* What is announced.  Only a deletion can miss its event.                 *)

Sent(kind, t, who) == Event(kind, t, who) \in outbox

SubmitsSent ==
  \A t \in Transactions : Sent("submitted", t, NoOne) <=> status[t] # "draft"

DecisionsSent ==
  \A t \in Transactions, u \in Approvers : Sent("decided", t, u) <=> Decided(t, u)

\* A step is announced to one of its approvers, and to nobody whose turn it is
\* not.
TurnsSent ==
  \A t \in Transactions :
    /\ \A u \in Approvers : Sent("step_activated", t, u) => u \in activated[t]
    /\ \A u \in activated[t] : \E v \in activated[t] :
         step[t][v] = step[t][u] /\ Sent("step_activated", t, v)

DeletionsSent ==
  /\ deleting \subseteq deleted
  /\ \A t \in Transactions : Sent("transaction_deleted", t, NoOne) => t \in deleted \ deleting

\* A committed submit, decision or activation has its event, and no event tells
\* of one that is not.
ChangesAnnounced == SubmitsSent /\ DecisionsSent /\ TurnsSent /\ DeletionsSent

\* A deletion nobody will announce.
Unannounced(t) == t \in deleted \ deleting /\ ~Sent("transaction_deleted", t, NoOne)

\* Its request is lost between its two database transactions, and nothing makes
\* up for that.
LostDeletions ==
  [][\A t \in Transactions :
       /\ ~Unannounced(t) /\ Unannounced(t)' <=> LoseDelete(t)
       /\ Unannounced(t) => Unannounced(t)']_vars

LEMMA EventsDiffer ==
  \A k, t, u, l, s, v : Event(k, t, u) = Event(l, s, v) <=> k = l /\ t = s /\ u = v
BY DEF Event

\* A step that writes an event, and maybe a notice.
LEMMA SentAfter ==
  ASSUME NEW kind \in EventKinds \ {"step_activated"}, NEW t, NEW who,
         NEW users, NEW notice \in Notices(t, users),
         outbox' = outbox \union {Event(kind, t, who)} \union notice
  PROVE  /\ \A k, s, v : k # "step_activated" =>
              (Sent(k, s, v)' <=> Sent(k, s, v) \/ (k = kind /\ s = t /\ v = who))
         /\ \A s, v : Sent("step_activated", s, v)' <=>
              Sent("step_activated", s, v) \/ Event("step_activated", s, v) \in notice
<1>1. \A e \in notice : \E u \in users : e = Event("step_activated", t, u)
  BY DEF Notices
<1>2. ASSUME NEW k, NEW s, NEW v
      PROVE  Sent(k, s, v)' <=> \/ Sent(k, s, v)
                                \/ k = kind /\ s = t /\ v = who
                                \/ Event(k, s, v) \in notice
  BY EventsDiffer DEF Sent
<1>3. ASSUME NEW k, NEW s, NEW v, Event(k, s, v) \in notice
      PROVE  k = "step_activated"
  BY <1>1, <1>3, EventsDiffer
<1> QED
  BY <1>2, <1>3

\* A step activates the rows next of t, and one of them is notified.
LEMMA TurnsStep ==
  ASSUME TypeOK, TurnsSent, NEW t \in Transactions, NEW next \in SUBSET Approvers,
         NEW notice \in Notices(t, next),
         activated' = [activated EXCEPT ![t] = @ \union next],
         \A x \in Transactions : \A u \in activated[x] : step'[x][u] = step[x][u],
         \A u, v \in next : step'[t][u] = step'[t][v],
         \A x, u : Sent("step_activated", x, u)' <=>
           Sent("step_activated", x, u) \/ Event("step_activated", x, u) \in notice
  PROVE  TurnsSent'
<1>1. \A x \in Transactions :
        activated'[x] = IF x = t THEN activated[x] \union next ELSE activated[x]
  BY DEF TypeOK
<1>2. ASSUME NEW x, NEW u, Event("step_activated", x, u) \in notice
      PROVE  x = t /\ u \in next
  BY <1>2, EventsDiffer DEF Notices
<1>3. next # {} => \E v \in next : Event("step_activated", t, v) \in notice
  BY DEF Notices
<1>4. ASSUME NEW x \in Transactions, NEW u \in activated'[x]
      PROVE  \E v \in activated'[x] :
               step'[x][v] = step'[x][u] /\ Sent("step_activated", x, v)'
  <2>1. CASE u \in activated[x]
    BY <1>1, <2>1 DEF TurnsSent
  <2>2. CASE x = t /\ u \in next
    BY <1>1, <1>3, <2>2
  <2> QED
    BY <1>1, <1>4, <2>1, <2>2
<1>5. ASSUME NEW x \in Transactions, NEW u \in Approvers, Sent("step_activated", x, u)'
      PROVE  u \in activated'[x]
  <2>1. Sent("step_activated", x, u) \/ Event("step_activated", x, u) \in notice
    BY <1>5
  <2>2. CASE Sent("step_activated", x, u)
    <3>1. u \in activated[x]
      BY <1>5, <2>2 DEF TurnsSent
    <3> QED
      BY <1>1, <3>1
  <2>3. CASE Event("step_activated", x, u) \in notice
    <3>1. x = t /\ u \in next
      BY <1>2, <2>3
    <3> QED
      BY <1>1, <3>1
  <2> QED
    BY <2>1, <2>2, <2>3
<1> QED
  BY <1>4, <1>5 DEF TurnsSent

LEMMA QuietAnnounced ==
  ASSUME SubmitsSent, DecisionsSent, TurnsSent, UNCHANGED <<status, approvals, outbox>>
  PROVE  SubmitsSent' /\ DecisionsSent' /\ TurnsSent'
BY DEF SubmitsSent, DecisionsSent, TurnsSent, approvals, Sent, Decided, Has

LEMMA RemoveAnnounced ==
  ASSUME ChangesAnnounced, NEW t \in Transactions, Remove(t)
  PROVE  ChangesAnnounced'
<1>0. SubmitsSent /\ DecisionsSent /\ TurnsSent /\ DeletionsSent
  BY DEF ChangesAnnounced
<1>1. CASE DeleteTransaction(t)
  <2>1. UNCHANGED <<status, approvals, outbox>> /\ t \notin deleted
    BY <1>1 DEF DeleteTransaction, IsDraft
  <2>2. DeletionsSent'
    BY <1>0, <1>1, <2>1 DEF DeleteTransaction, DeletionsSent, Sent
  <2> QED
    BY <1>0, <2>1, <2>2, QuietAnnounced DEF ChangesAnnounced
<1>2. CASE EmitDeleted(t)
  <2>1. /\ outbox' = outbox \union {Event("transaction_deleted", t, NoOne)} \union {}
        /\ UNCHANGED <<status, deleted, step, activated, decisions>>
        /\ t \in deleting /\ deleting' = deleting \ {t}
    BY <1>2 DEF EmitDeleted, approvals
  <2>2. \A k, s, v : Sent(k, s, v)' <=>
          Sent(k, s, v) \/ (k = "transaction_deleted" /\ s = t /\ v = NoOne)
    BY <2>1, EventsDiffer DEF Sent
  <2>3. DeletionsSent'
    BY <1>0, <2>1, <2>2 DEF DeletionsSent
  <2>4. SubmitsSent' /\ DecisionsSent' /\ TurnsSent'
    BY <1>0, <2>1, <2>2 DEF SubmitsSent, DecisionsSent, TurnsSent, Decided, Has
  <2> QED
    BY <2>3, <2>4 DEF ChangesAnnounced
<1>3. CASE LoseDelete(t)
  <2>1. UNCHANGED <<status, approvals, outbox>>
    BY <1>3 DEF LoseDelete
  <2>2. DeletionsSent'
    BY <1>0, <1>3, <2>1 DEF LoseDelete, DeletionsSent, Sent
  <2> QED
    BY <1>0, <2>1, <2>2, QuietAnnounced DEF ChangesAnnounced
<1> QED
  BY <1>1, <1>2, <1>3 DEF Remove

LEMMA SubmitAnnounced ==
  ASSUME IInv, ChangesAnnounced, NEW t \in Transactions, NEW c \in Chains, Submit(t, c)
  PROVE  ChangesAnnounced'
<1> DEFINE first == LowestRows(c, {u \in Approvers : c[u] > 0})
<1>0. TypeOK /\ SubmitsSent /\ DecisionsSent /\ TurnsSent /\ DeletionsSent
  BY DEF ChangesAnnounced, IInv
<1>1. PICK notice \in Notices(t, first) :
        outbox' = outbox \union {Event("submitted", t, NoOne)} \union notice
  BY DEF Submit
<1>2. first \in SUBSET Approvers /\ \A u, v \in first : c[u] = c[v]
  <2>1. c \in [Approvers -> 0..MaxStep]
    BY DEF Chains
  <2> QED
    BY <2>1, StepAssumption DEF LowestRows
<1>3. /\ status[t] = "draft" /\ status' = [status EXCEPT ![t] = "pending_approval"]
      /\ step' = [step EXCEPT ![t] = c] /\ activated' = [activated EXCEPT ![t] = first]
      /\ UNCHANGED <<deleted, decisions, deleting>>
  BY DEF Submit, IsDraft
<1> HIDE DEF first
<1>4. activated[t] = {}
  BY <1>0, <1>3 DEF IInv, ChainInv, RowsBySubmit, RowsMakeSense, TypeOK
<1>5. activated' = [activated EXCEPT ![t] = @ \union first]
  BY <1>0, <1>3, <1>4 DEF TypeOK
<1>6. \A x \in Transactions : step'[x] = IF x = t THEN c ELSE step[x]
  BY <1>0, <1>3 DEF TypeOK
<1>7. "submitted" \in EventKinds \ {"step_activated"}
  BY DEF EventKinds
<1>8. /\ \A k, s, v : k # "step_activated" =>
            (Sent(k, s, v)' <=> Sent(k, s, v) \/ (k = "submitted" /\ s = t /\ v = NoOne))
      /\ \A s, v : Sent("step_activated", s, v)' <=>
            Sent("step_activated", s, v) \/ Event("step_activated", s, v) \in notice
  BY <1>1, <1>7, SentAfter
<1>9. TurnsSent'
  <2>1. \A x \in Transactions : \A u \in activated[x] : step'[x][u] = step[x][u]
    BY <1>4, <1>6
  <2>2. \A u, v \in first : step'[t][u] = step'[t][v]
    BY <1>2, <1>6
  <2> QED
    BY <1>0, <1>2, <1>5, <1>8, <2>1, <2>2, TurnsStep
<1>10. SubmitsSent'
  BY <1>0, <1>3, <1>8 DEF SubmitsSent, TypeOK
<1>11. DecisionsSent' /\ DeletionsSent'
  BY <1>0, <1>3, <1>8 DEF DecisionsSent, DeletionsSent, Decided, Has
<1> QED
  BY <1>9, <1>10, <1>11 DEF ChangesAnnounced

LEMMA DecideAnnounced ==
  ASSUME IInv, ChangesAnnounced, NEW w \in waiting, Decide(w)
  PROVE  ChangesAnnounced'
<1> DEFINE t == w.tx
           next == IF ApproveAndActivate(w) THEN LowestRows(step[t], Inactive(t)) ELSE {}
<1>0. TypeOK /\ SubmitsSent /\ DecisionsSent /\ TurnsSent /\ DeletionsSent
  BY DEF ChangesAnnounced, IInv
<1>1. /\ w \in Waits /\ t \in Transactions /\ w.approver \in Approvers
      /\ status[t] = "pending_approval" /\ ~Decided(t, w.approver)
  BY TurnIsReal DEF Decide, Reject, ApproveAndWait, ApproveAndActivate, ApproveLast
<1>2. PICK notice \in Notices(t, next) :
        outbox' = outbox \union {Event("decided", t, w.approver)} \union notice
  <2>1. CASE ApproveAndActivate(w)
    BY <2>1 DEF ApproveAndActivate
  <2>2. CASE ~ApproveAndActivate(w)
    <3>1. outbox' = outbox \union {Event("decided", t, w.approver)} \union {}
      BY <2>2 DEF Decide, Reject, ApproveAndWait, ApproveLast
    <3>2. {} \in Notices(t, next)
      BY <2>2 DEF Notices
    <3> QED
      BY <3>1, <3>2
  <2> QED
    BY <2>1, <2>2
<1>3. activated' = [activated EXCEPT ![t] = @ \union next]
  <2>1. CASE ApproveAndActivate(w)
    BY <2>1 DEF ApproveAndActivate
  <2>2. CASE ~ApproveAndActivate(w)
    <3>1. activated' = activated /\ next = {}
      BY <2>2 DEF Decide, Reject, ApproveAndWait, ApproveLast
    <3> QED
      BY <1>0, <1>1, <3>1 DEF TypeOK
  <2> QED
    BY <2>1, <2>2
<1>4. next \in SUBSET Approvers /\ \A u, v \in next : step[t][u] = step[t][v]
  <2>1. step[t] \in [Approvers -> 0..MaxStep]
    BY <1>0, <1>1 DEF TypeOK
  <2> QED
    BY <2>1, StepAssumption DEF LowestRows, Inactive, Asked
<1>5. \E d \in Decisions : Record(w, d)
  BY DEF Decide, Reject, ApproveAndWait, ApproveAndActivate, ApproveLast, Decisions
<1>6. UNCHANGED <<deleted, deleting, step>>
  BY DEF Decide, Reject, ApproveAndWait, ApproveAndActivate, ApproveLast
<1>7. \A x \in Transactions, u \in Approvers :
        Decided(x, u)' <=> Decided(x, u) \/ (x = t /\ u = w.approver)
  BY <1>0, <1>1, <1>5, RecordEffect
<1>8. \A x \in Transactions : status'[x] = "draft" <=> status[x] = "draft"
  BY DecideFrame
<1> HIDE DEF t, next
<1>9. "decided" \in EventKinds \ {"step_activated"}
  BY DEF EventKinds
<1>10. /\ \A k, s, v : k # "step_activated" =>
             (Sent(k, s, v)' <=> Sent(k, s, v) \/ (k = "decided" /\ s = t /\ v = w.approver))
       /\ \A s, v : Sent("step_activated", s, v)' <=>
             Sent("step_activated", s, v) \/ Event("step_activated", s, v) \in notice
  BY <1>2, <1>9, SentAfter
<1>11. TurnsSent'
  <2>1. \A x \in Transactions : \A u \in activated[x] : step'[x][u] = step[x][u]
    BY <1>6
  <2>2. \A u, v \in next : step'[t][u] = step'[t][v]
    BY <1>4, <1>6
  <2> QED
    BY <1>0, <1>1, <1>3, <1>4, <1>10, <2>1, <2>2, TurnsStep
<1>12. SubmitsSent'
  BY <1>0, <1>8, <1>10 DEF SubmitsSent
<1>13. DecisionsSent'
  BY <1>0, <1>7, <1>10 DEF DecisionsSent
<1>14. DeletionsSent'
  BY <1>0, <1>6, <1>10 DEF DeletionsSent
<1> QED
  BY <1>11, <1>12, <1>13, <1>14 DEF ChangesAnnounced

LEMMA AnnouncedStep == IInv /\ ChangesAnnounced /\ [Next]_vars => ChangesAnnounced'
<1> SUFFICES ASSUME IInv, ChangesAnnounced, [Next]_vars
             PROVE  ChangesAnnounced'
  OBVIOUS
<1>1. ASSUME UNCHANGED <<status, deleted, approvals, deleting, outbox>>
      PROVE  ChangesAnnounced'
  BY <1>1, QuietAnnounced DEF ChangesAnnounced, DeletionsSent, Sent
<1>2. ASSUME NEW t \in Transactions, EditDraft(t)
      PROVE  ChangesAnnounced'
  BY <1>1, <1>2 DEF EditDraft, CompleteUpload, DeleteDocument, UpdateItems, AttachOcrItem
<1>3. ASSUME NEW r \in Requests, NEW t \in Transactions, NEW u \in Approvers, ReadApproval(r, t, u)
      PROVE  ChangesAnnounced'
  BY <1>1, <1>3 DEF ReadApproval
<1>4. ASSUME NEW w \in waiting, Abandon(w)
      PROVE  ChangesAnnounced'
  BY <1>1, <1>4 DEF Abandon
<1>5. CASE UNCHANGED vars
  BY <1>1, <1>5 DEF vars
<1> QED
  BY <1>2, <1>3, <1>4, <1>5, RemoveAnnounced, SubmitAnnounced, DecideAnnounced DEF Next

\* A submit, a decision and an activation are committed with their events: none
\* is ever missing, none tells of something that is not so, and of every step
\* that goes active one approver is told, though the others may not be.
THEOREM Announced == Spec => []ChangesAnnounced
<1>1. Init => ChangesAnnounced
  BY DEF Init, ChangesAnnounced, SubmitsSent, DecisionsSent, TurnsSent, DeletionsSent, Sent,
         Decided, Has, Undecided
<1> QED
  BY <1>1, AnnouncedStep, Invariance, PTL DEF Spec

LEMMA DeletionStep ==
  ASSUME IInv, ChangesAnnounced, ChangesAnnounced', [Next]_vars, NEW t \in Transactions
  PROVE  /\ ~Unannounced(t) /\ Unannounced(t)' <=> LoseDelete(t)
         /\ Unannounced(t) => Unannounced(t)'
<1> DEFINE Goal == /\ ~Unannounced(t) /\ Unannounced(t)' <=> LoseDelete(t)
                   /\ Unannounced(t) => Unannounced(t)'
<1>0. TypeOK /\ DeletionsSent
  BY DEF IInv, ChangesAnnounced
<1>1. ASSUME UNCHANGED <<deleted, deleting>>,
             Sent("transaction_deleted", t, NoOne)' <=> Sent("transaction_deleted", t, NoOne)
      PROVE  Goal
  BY <1>1 DEF Unannounced, LoseDelete
<1>2. ASSUME UNCHANGED <<deleted, deleting, outbox>>
      PROVE  Goal
  BY <1>1, <1>2 DEF Sent
<1>3. ASSUME NEW s \in Transactions, DeleteTransaction(s)
      PROVE  Goal
  BY <1>0, <1>3 DEF DeleteTransaction, IsDraft, Unannounced, LoseDelete, DeletionsSent, Sent
<1>4. ASSUME NEW s \in Transactions, EmitDeleted(s)
      PROVE  Goal
  <2>1. Sent("transaction_deleted", t, NoOne)' <=>
          Sent("transaction_deleted", t, NoOne) \/ s = t
    BY <1>4, EventsDiffer DEF EmitDeleted, Sent
  <2>2. outbox' # outbox
    BY <1>0, <1>4 DEF EmitDeleted, DeletionsSent, Sent
  <2> QED
    BY <1>0, <1>4, <2>1, <2>2 DEF EmitDeleted, Unannounced, LoseDelete, DeletionsSent
<1>5. ASSUME NEW s \in Transactions, LoseDelete(s)
      PROVE  Goal
  BY <1>0, <1>5 DEF LoseDelete, Unannounced, DeletionsSent, Sent
<1>6. ASSUME NEW s \in Transactions, NEW c \in Chains, Submit(s, c)
      PROVE  Goal
  <2>1. \E users : \E notice \in Notices(s, users) :
          outbox' = outbox \union {Event("submitted", s, NoOne)} \union notice
    BY <1>6 DEF Submit
  <2>2. "submitted" \in EventKinds \ {"step_activated"}
    BY DEF EventKinds
  <2>3. Sent("transaction_deleted", t, NoOne)' <=> Sent("transaction_deleted", t, NoOne)
    BY <2>1, <2>2, SentAfter
  <2> QED
    BY <1>1, <1>6, <2>3 DEF Submit
<1>7. ASSUME NEW w \in waiting, Decide(w)
      PROVE  Goal
  <2>1. \E users : \E notice \in Notices(w.tx, users) :
          outbox' = outbox \union {Event("decided", w.tx, w.approver)} \union notice
    <3>1. CASE ApproveAndActivate(w)
      BY <3>1 DEF ApproveAndActivate
    <3>2. CASE ~ApproveAndActivate(w)
      <4>1. outbox' = outbox \union {Event("decided", w.tx, w.approver)} \union {}
        BY <1>7, <3>2 DEF Decide, Reject, ApproveAndWait, ApproveLast
      <4>2. {} \in Notices(w.tx, {})
        BY DEF Notices
      <4> QED
        BY <4>1, <4>2
    <3> QED
      BY <3>1, <3>2
  <2>2. "decided" \in EventKinds \ {"step_activated"}
    BY DEF EventKinds
  <2>3. Sent("transaction_deleted", t, NoOne)' <=> Sent("transaction_deleted", t, NoOne)
    BY <2>1, <2>2, SentAfter
  <2> QED
    BY <1>1, <1>7, <2>3 DEF Decide, Reject, ApproveAndWait, ApproveAndActivate, ApproveLast
<1>8. \/ UNCHANGED <<deleted, deleting, outbox>>
      \/ \E s \in Transactions : DeleteTransaction(s) \/ EmitDeleted(s) \/ LoseDelete(s)
      \/ \E s \in Transactions, c \in Chains : Submit(s, c)
      \/ \E w \in waiting : Decide(w)
  BY DEF Next, EditDraft, Remove, CompleteUpload, DeleteDocument, UpdateItems, AttachOcrItem,
         ReadApproval, Abandon, vars
<1> QED
  BY <1>2, <1>3, <1>4, <1>5, <1>6, <1>7, <1>8

\* A deletion stays unannounced exactly when its request is lost between the
\* statement that deletes the row and the transaction that writes the event, and
\* then for ever.
THEOREM DeletionsLost == Spec => LostDeletions
<1>1. IInv /\ ChangesAnnounced /\ ChangesAnnounced' /\ [Next]_vars =>
        [\A t \in Transactions :
           /\ ~Unannounced(t) /\ Unannounced(t)' <=> LoseDelete(t)
           /\ Unannounced(t) => Unannounced(t)']_vars
  BY DeletionStep
<1> QED
  BY <1>1, Invariance, Announced, PTL DEF Spec, LostDeletions
=============================================================================
