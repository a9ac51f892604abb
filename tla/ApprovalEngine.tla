--------------------------- MODULE ApprovalEngine --------------------------
(***************************************************************************)
(* The approval engine: submit, decide and the activation of steps         *)
(* (internal/service/approval/engine.go), with the operations of other     *)
(* components that race with it on the row of a draft transaction: an      *)
(* upload that completes, a document that is deleted, an edit, an OCR item *)
(* and the deletion of the transaction.                                    *)
(*                                                                         *)
(* Grain.  A database transaction holds the row lock of its expense        *)
(* transaction from its first read of the row to its commit, so what runs  *)
(* under the lock is one action.  Decide is two: GetApprovalForDecide      *)
(* joins the approval row and locks only the transaction row, so under     *)
(* READ COMMITTED a request that waited for the lock sees the transaction  *)
(* as it is now and the approval as it was when the statement began.       *)
(* Delete is two as well: it emits its event in a second transaction.      *)
(* Of the events, those on edits and documents are left out.               *)
(***************************************************************************)
EXTENDS Integers, FiniteSets

CONSTANTS
  Transactions,     \* transaction rows
  Approvers,        \* users who may be named by an approval rule
  Requests,         \* Decide requests that can be in flight at once
  MaxStep,          \* steps are 1..MaxStep (ck_approval_rules_step allows 10)
  MaxDocuments,     \* bound on the documents linked to one transaction
  NoOne             \* the recipient of an event that has none

ASSUME ApproversAssumption == Approvers # {} /\ NoOne \notin Approvers
ASSUME StepAssumption == MaxStep \in Nat
ASSUME DocumentAssumption == MaxDocuments \in Nat \ {0}

VARIABLES
  status,       \* status[t]: the status column
  deleted,      \* the transactions whose deleted_at is set
  documents,    \* documents[t]: live, fully uploaded documents linked to t
  hasAmount,    \* hasAmount[t]: total_amount > 0
  step,         \* step[t][u]: the step of u's approval row, 0 if there is none
  activated,    \* activated[t]: approvers whose row has activated_at
  cancelled,    \* cancelled[t]: approvers whose row has cancelled_at
  decisions,    \* decisions[t][u][d]: rows of approval_decisions saying d
  waiting,      \* Decide requests past their first read, with what it read
  deleting,     \* Delete requests between their two database transactions
  outbox        \* events written to outbox_events

content == <<documents, hasAmount>>
approvals == <<step, activated, cancelled, decisions>>
vars == <<status, deleted, content, approvals, waiting, deleting, outbox>>

Statuses  == {"draft", "pending_approval", "approved", "rejected"}
Decisions == {"approved", "rejected"}
NoChain   == [u \in Approvers |-> 0]
Chains    == [Approvers -> 0..MaxStep] \ {NoChain}
Undecided == [d \in Decisions |-> 0]

\* A request and the columns of the approval row its first statement read.
Waits == [request: Requests, tx: Transactions, approver: Approvers,
          activated: BOOLEAN, cancelled: BOOLEAN]

EventKinds ==
  {"submitted", "step_activated", "decided", "transaction_deleted"}
Events == [kind: EventKinds, tx: Transactions, who: Approvers \union {NoOne}]

TypeOK ==
  /\ status \in [Transactions -> Statuses]
  /\ deleted \subseteq Transactions
  /\ documents \in [Transactions -> 0..MaxDocuments]
  /\ hasAmount \in [Transactions -> BOOLEAN]
  /\ step \in [Transactions -> [Approvers -> 0..MaxStep]]
  /\ activated \in [Transactions -> SUBSET Approvers]
  /\ cancelled \in [Transactions -> SUBSET Approvers]
  /\ decisions \in [Transactions -> [Approvers -> [Decisions -> Nat]]]
  /\ waiting \subseteq Waits
  /\ deleting \subseteq Transactions
  /\ outbox \subseteq Events

Event(kind, t, who) == [kind |-> kind, tx |-> t, who |-> who]

Asked(t) == {u \in Approvers : step[t][u] > 0}
Has(t, u, d) == decisions[t][u][d] > 0
Decided(t, u) == \E d \in Decisions : Has(t, u, d)

\* Rows that wait for their approver: active, and neither decided nor cancelled.
Open(t) == {u \in activated[t] \ cancelled[t] : ~Decided(t, u)}
SiblingsIgnored(w) == FALSE

\* An approval of w leaves a sibling of its step that still owes a decision.
SiblingOwes(w) == Open(w.tx) \ {w.approver} # {}

InactiveBelowMaxStep(t) == {u \in Asked(t) \ activated[t] : step[t][u] < MaxStep}

\* Rows whose step has not been reached.
Inactive(t) == Asked(t) \ (activated[t] \union cancelled[t])

RowsOfStepOne(c, users) == {u \in users : c[u] = 1}

AllRows(c, users) == users

\* The rows of the lowest step among the rows of users in chain c.
LowestRows(c, users) == {u \in users : \A v \in users : c[u] <= c[v]}

\* The notifications of a step that goes active: one of its approvers gets one.
Notices(t, users) ==
  IF users = {} THEN {{}} ELSE {{Event("step_activated", t, u)} : u \in users}

IsDraft(t) == status[t] = "draft" /\ t \notin deleted

\* OCR creates a draft with the document it has read and one item, of an amount
\* that may be zero.
Init ==
  /\ status = [t \in Transactions |-> "draft"]
  /\ deleted = {}
  /\ documents = [t \in Transactions |-> 1]
  /\ hasAmount \in [Transactions -> BOOLEAN]
  /\ step = [t \in Transactions |-> NoChain]
  /\ activated = [t \in Transactions |-> {}]
  /\ cancelled = [t \in Transactions |-> {}]
  /\ decisions = [t \in Transactions |-> [u \in Approvers |-> Undecided]]
  /\ waiting = {}
  /\ deleting = {}
  /\ outbox = {}

-----------------------------------------------------------------------------
(* The draft: every writer of these locks the transaction row and checks   *)
(* that it is a live draft.                                                *)

\* The second transaction of an upload makes its document count.
CompleteUpload(t) ==
  /\ IsDraft(t)
  /\ documents[t] < MaxDocuments
  /\ documents' = [documents EXCEPT ![t] = @ + 1]
  /\ UNCHANGED <<status, deleted, hasAmount, approvals, waiting, deleting, outbox>>

DeleteDocumentTwice(t) ==
  /\ IsDraft(t)
  /\ documents' = [documents EXCEPT ![t] = @ - 1]
  /\ UNCHANGED <<status, deleted, hasAmount, approvals, waiting, deleting, outbox>>

DeleteDocumentUnlocked(t) ==
  /\ documents[t] > 0
  /\ documents' = [documents EXCEPT ![t] = @ - 1]
  /\ UNCHANGED <<status, deleted, hasAmount, approvals, waiting, deleting, outbox>>

DeleteDocument(t) ==
  /\ IsDraft(t)
  /\ documents[t] > 0
  /\ documents' = [documents EXCEPT ![t] = @ - 1]
  /\ UNCHANGED <<status, deleted, hasAmount, approvals, waiting, deleting, outbox>>

\* Update replaces the items, and may leave a total of zero.
UpdateItems(t) ==
  /\ IsDraft(t)
  /\ \E positive \in BOOLEAN : hasAmount' = [hasAmount EXCEPT ![t] = positive]
  /\ UNCHANGED <<status, deleted, documents, approvals, waiting, deleting, outbox>>

\* An OCR result adds an item, of an amount that may be zero, to the draft its
\* document was uploaded to.
AttachOcrItem(t) ==
  /\ IsDraft(t)
  /\ documents[t] > 0
  /\ \E amount \in {hasAmount[t], TRUE} : hasAmount' = [hasAmount EXCEPT ![t] = amount]
  /\ UNCHANGED <<status, deleted, documents, approvals, waiting, deleting, outbox>>

\* The row is deleted by a statement of its own ...
DeleteTransaction(t) ==
  /\ IsDraft(t)
  /\ deleted' = deleted \union {t}
  /\ deleting' = deleting \union {t}
  /\ UNCHANGED <<status, content, approvals, waiting, outbox>>

\* ... and its event is written by a second transaction, ...
EmitDeleted(t) ==
  /\ t \in deleting
  /\ deleting' = deleting \ {t}
  /\ outbox' = outbox \union {Event("transaction_deleted", t, NoOne)}
  /\ UNCHANGED <<status, deleted, content, approvals, waiting>>

\* ... which a crash or an error in between never starts.
LoseDelete(t) ==
  /\ t \in deleting
  /\ deleting' = deleting \ {t}
  /\ UNCHANGED <<status, deleted, content, approvals, waiting, outbox>>

-----------------------------------------------------------------------------
(* Submit.  The chain c is what the approval rules resolve to: one row per *)
(* approver, never empty.                                                  *)

Submit(t, c) ==
  /\ IsDraft(t)
  /\ documents[t] >= 1
  /\ hasAmount[t]
  /\ status' = [status EXCEPT ![t] = "pending_approval"]
  /\ step' = [step EXCEPT ![t] = c]
  /\ LET first == LowestRows(c, {u \in Approvers : c[u] > 0})
     IN  /\ activated' = [activated EXCEPT ![t] = first]
         /\ \E notice \in Notices(t, first) :
              outbox' = outbox \union {Event("submitted", t, NoOne)} \union notice
  /\ UNCHANGED <<deleted, content, cancelled, decisions, waiting, deleting>>

-----------------------------------------------------------------------------
(* Decide.                                                                 *)

\* GetApprovalForDecide starts: it reads the approval row, then waits for the
\* lock on the transaction row.
ReadApproval(r, t, u) ==
  /\ u \in Asked(t)
  /\ \A w \in waiting : w.request # r
  /\ waiting' = waiting \union
       {[request |-> r, tx |-> t, approver |-> u,
         activated |-> u \in activated[t], cancelled |-> u \in cancelled[t]]}
  /\ UNCHANGED <<status, deleted, content, approvals, deleting, outbox>>

MayDecideOnSnapshot(w) ==
  /\ w.activated
  /\ ~w.cancelled
  /\ ~Decided(w.tx, w.approver)

MayDecideAgain(w) ==
  /\ status[w.tx] = "pending_approval"
  /\ w.activated
  /\ ~w.cancelled

\* The checks, once the lock is held.  The status and the decisions are read
\* fresh, the columns of the approval row are those of the first read.
MayDecide(w) ==
  /\ status[w.tx] = "pending_approval"
  /\ w.activated
  /\ ~w.cancelled
  /\ ~Decided(w.tx, w.approver)

Record(w, d) ==
  decisions' = [decisions EXCEPT ![w.tx][w.approver][d] = @ + 1]

CancelActiveApprovals(t, u) ==
  cancelled' = [cancelled EXCEPT ![t] = @ \union (Open(t) \ {u})]

CancelPendingApprovals(t, u) ==
  cancelled' = [cancelled EXCEPT ![t] =
                  @ \union {v \in Asked(t) : v # u /\ ~Decided(t, v)}]

Reject(w) ==
  /\ w \in waiting
  /\ MayDecide(w)
  /\ Record(w, "rejected")
  /\ status' = [status EXCEPT ![w.tx] = "rejected"]
  /\ CancelPendingApprovals(w.tx, w.approver)
  /\ waiting' = waiting \ {w}
  /\ outbox' = outbox \union {Event("decided", w.tx, w.approver)}
  /\ UNCHANGED <<deleted, content, step, activated, deleting>>

\* activateNext finds a sibling of the same step that still owes a decision.
ApproveAndWait(w) ==
  /\ w \in waiting
  /\ MayDecide(w)
  /\ Record(w, "approved")
  /\ SiblingOwes(w)
  /\ waiting' = waiting \ {w}
  /\ outbox' = outbox \union {Event("decided", w.tx, w.approver)}
  /\ UNCHANGED <<status, deleted, content, step, activated, cancelled, deleting>>

\* activateNext activates every row of the lowest step not reached yet, and
\* one of its approvers is notified.
ApproveAndActivate(w) ==
  /\ w \in waiting
  /\ MayDecide(w)
  /\ Record(w, "approved")
  /\ ~SiblingOwes(w)
  /\ Inactive(w.tx) # {}
  /\ LET next == LowestRows(step[w.tx], Inactive(w.tx))
     IN  /\ activated' = [activated EXCEPT ![w.tx] = @ \union next]
         /\ \E notice \in Notices(w.tx, next) :
              outbox' = outbox \union {Event("decided", w.tx, w.approver)} \union notice
  /\ waiting' = waiting \ {w}
  /\ UNCHANGED <<status, deleted, content, step, cancelled, deleting>>

\* activateNext finds nothing left to activate.
ApproveLast(w) ==
  /\ w \in waiting
  /\ MayDecide(w)
  /\ Record(w, "approved")
  /\ ~SiblingOwes(w)
  /\ Inactive(w.tx) = {}
  /\ status' = [status EXCEPT ![w.tx] = "approved"]
  /\ waiting' = waiting \ {w}
  /\ outbox' = outbox \union {Event("decided", w.tx, w.approver)}
  /\ UNCHANGED <<deleted, content, step, activated, cancelled, deleting>>

\* A check fails, identity is unreachable, or the process dies: the database
\* transaction is rolled back.
Abandon(w) ==
  /\ w \in waiting
  /\ waiting' = waiting \ {w}
  /\ UNCHANGED <<status, deleted, content, approvals, deleting, outbox>>

Decide(w) ==
  Reject(w) \/ ApproveAndWait(w) \/ ApproveAndActivate(w) \/ ApproveLast(w)

\* The transaction_status in the answer to the Decide request of this step.
AnsweredStatus(w) ==
  IF Reject(w) THEN "rejected"
  ELSE IF ApproveAndActivate(w) THEN "pending_approval" ELSE "approved"

-----------------------------------------------------------------------------
EditDraft(t) ==
  CompleteUpload(t) \/ DeleteDocument(t) \/ UpdateItems(t) \/ AttachOcrItem(t)

Remove(t) == DeleteTransaction(t) \/ EmitDeleted(t) \/ LoseDelete(t)

Next ==
  \/ \E t \in Transactions : EditDraft(t) \/ Remove(t)
  \/ \E t \in Transactions, c \in Chains : Submit(t, c)
  \/ \E r \in Requests, t \in Transactions, u \in Approvers : ReadApproval(r, t, u)
  \/ \E w \in waiting : Decide(w) \/ Abandon(w)

Spec == Init /\ [][Next]_vars

-----------------------------------------------------------------------------
(* Properties.                                                             *)

Approved(t, u) == Has(t, u, "approved")
Rejected(t, u) == Has(t, u, "rejected")

\* Steps are taken in order, however requests interleave: a row is active only
\* if everybody on a lower step has approved (activateNext, engine.go).
StepOrder ==
  \A t \in Transactions : \A u \in activated[t] : \A v \in Asked(t) :
    step[t][v] < step[t][u] => Approved(t, v)

\* The status column and the decision rows tell one story: approved exactly
\* when everyone asked has approved, rejected exactly when someone has rejected.
OutcomeMatchesDecisions ==
  \A t \in Transactions :
    /\ status[t] = "approved" <=>
         status[t] # "draft" /\ \A u \in Asked(t) : Approved(t, u)
    /\ status[t] = "rejected" <=> \E u \in Asked(t) : Rejected(t, u)

\* Two Decide requests for one approval, however they interleave, leave one
\* decision row: no unique index says so, only the lock and the re-read do.
AtMostOneDecision ==
  \A t \in Transactions, u \in Approvers :
    decisions[t][u]["approved"] + decisions[t][u]["rejected"] <= 1

\* A pending transaction always waits for somebody who may decide: the chain
\* never runs out of active rows before its outcome is settled.
PendingIsNotStuck ==
  \A t \in Transactions : status[t] = "pending_approval" => Open(t) # {}

\* A rejection closes the chain: it is the only one, and each approval is
\* either decided or cancelled, never both, so none can be acted on later.
RejectionClosesChain ==
  \A t \in Transactions : status[t] = "rejected" =>
    /\ \A u, v \in Asked(t) : Rejected(t, u) /\ Rejected(t, v) => u = v
    /\ \A u \in Asked(t) : u \in cancelled[t] <=> ~Decided(t, u)

\* What was submitted keeps what submit checked: at least one document and a
\* positive total, on a live row.  Deletes, edits and OCR race with submit.
SubmittedIsBacked ==
  \A t \in Transactions : status[t] # "draft" =>
    /\ documents[t] >= 1
    /\ hasAmount[t]
    /\ t \notin deleted

\* A Decide that passes its checks on the approval row it read before it
\* waited for the lock would pass them on the row as it is now.
StaleReadIsHarmless ==
  \A w \in waiting : MayDecide(w) => w.approver \in Open(w.tx)

\* Once settled, a transaction never changes again: not its status, not its
\* approvals and decisions, not the documents and the total they approved.
SettledIsFrozen ==
  [][\A t \in Transactions : status[t] \in {"approved", "rejected"} =>
       /\ status'[t] = status[t]
       /\ t \notin deleted'
       /\ documents'[t] = documents[t]
       /\ hasAmount'[t] = hasAmount[t]
       /\ step'[t] = step[t]
       /\ activated'[t] = activated[t]
       /\ cancelled'[t] = cancelled[t]
       /\ decisions'[t] = decisions[t]]_vars

OutcomeOf(t) == IF t \in deleted THEN "deleted" ELSE status[t]

VoteOf(t, u) ==
  IF Approved(t, u) THEN "approved" ELSE IF Rejected(t, u) THEN "rejected" ELSE "none"

Promise == INSTANCE ApprovalChain WITH
  outcome <- [t \in Transactions |-> OutcomeOf(t)],
  chain <- step,
  vote <- [t \in Transactions |-> [u \in Approvers |-> VoteOf(t, u)]]

\* The engine, with its columns, its stale reads and its requests, does what
\* ApprovalChain promises and nothing else to outcomes, chains and votes.
ImplementsChain == Promise!Spec

\* Stated by notify.go:84-85: "your turn" goes to "an approver whose step just
\* went active".
ActiveApproversNotified ==
  \A t \in Transactions : \A u \in activated[t] :
    Event("step_activated", t, u) \in outbox

\* Stated by the answer's transaction_status (DecideResult, model.go:55) and by
\* the comment on activateNext, which "approves the transaction when every step
\* is decided": the status answered is the status the request leaves.
AnswerIsTrue ==
  [][\A w \in waiting : Decide(w) => AnsweredStatus(w) = status'[w.tx]]_vars

\* Stated by service/event.go:12-14: "a committed state change can never be
\* missing its event".  Here: once no Delete of t is in flight.
DeletionAnnounced ==
  \A t \in deleted \ deleting : Event("transaction_deleted", t, NoOne) \in outbox
=============================================================================
