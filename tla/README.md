# A TLA+ model of the expense service

The service lets members of an organization record expense transactions in
projects, attach documents to them, have the documents read by an OCR gateway,
and have transactions approved by a chain of approvers. It runs as four kinds of
process (`cmd/api`, `cmd/grpc`, `cmd/worker`, `cmd/consumer`) that share a
PostgreSQL database and talk to each other through it, through Kafka and through
calls to two other services, identity and the OCR gateway. What makes it hard is
therefore what several requests, consumers and workers do to the same rows.

Paths below are relative to `src/`.

## 1. Inventory

| component | code | state it keeps | operations |
| --- | --- | --- | --- |
| approval engine | `internal/service/approval/engine.go`, `model.go`, `notify.go`, `db/queries/approvals.sql` | status of a transaction; `approvals` rows (step, `activated_at`, `cancelled_at`); `approval_decisions` rows | Submit, Decide (approve, reject), activateNext |
| approval rules | `internal/service/approval/service.go`, `reassign.go` | `approval_rules` rows under two unique indexes | CreateRule, UpdateRule, DeleteRule, ReassignApprovalRules; the default rule a first project seeds |
| transactions | `internal/service/transaction/service.go` | `transactions` (status, version, total), `transaction_items` | Update, Delete (OCR creates them) |
| documents | `internal/service/document/service.go` | `documents` (upload reservation, idempotency key, `ocr_status`, `ocr_document_id`, link), an object store | Upload to a project or a draft, Delete, submission to OCR |
| OCR consumer | `internal/app/consumer.go`, `internal/service/ocrconsumer/service.go` | position in the topic; writes documents, transactions, items | poll, Handle (claim, attach, createDraft, park, fail), commit, dead-letter |
| OCR sweeper | `internal/service/ocrconsumer/sweep.go` | nothing of its own | RetryUnsubmitted, SweepStale |
| outbox publisher | `internal/service/outbox/service.go`, `internal/service/event.go`, `db/queries/outbox_events.sql` | `outbox_events` (published, lock, attempts, backoff) | emit, claim, publish, mark published, mark failed |
| reminder | `internal/service/reminder/service.go` | nothing of its own | emits `approval.reminder` events for the oldest open approvals |
| projects, members | `internal/service/project/service.go` | `projects`, `project_members` with versions | create, update, archive, delete; place, remove, rejoin |
| roles | `internal/service/role/service.go` | `roles`, `role_permissions` | seed, create, update, delete |
| authorization | `internal/authz` | none; leases write access from identity | permission checks, HoldExpenseWriteAccess |
| identity, OCR gateway | `internal/contract` (clients) | external | membership and access; jobs and results |
| the rest | handlers, servers, config, health, telemetry, commands, migrations | none of the domain | decoding, routing, start-up |

How they interact:

- **Through rows of a draft.** Uploads, document deletes, edits, OCR results,
  deletion and Submit all lock the transaction row (`SELECT ... FOR UPDATE`) and
  check that it is a live draft. Everything the approvers see depends on that.
- **Through the outbox.** Services write an event in the database transaction of
  the change it announces; the worker publishes it later.
- **Through the gateway's topic.** The upload submits a document; the gateway
  routes an event; a consumer applies the result. The worker's sweeper submits
  what was not accepted and asks for results whose event never came, by calling
  the same `Handle`.
- **Through calls.** Each write takes a lease from identity that keeps the
  organization writable until the request is done. Identity calls the gRPC server
  to reassign the rules of a member who leaves and to clear his placements.

What is hard, and what correctness means, per component:

- *Engine*: two Decides for one approval or for siblings of a step; the read of
  the approval row happens before the wait for the lock on the transaction row,
  and under READ COMMITTED is not repeated after it. Correct: steps in order,
  one decision per approval, someone can always decide, a rejection closes the
  chain, the outcome says what the decisions say, settled is settled.
- *Rules*: a count outside the transaction that relies on it; one UPDATE over
  two unique indexes; a membership check against another service before the row is
  written; two reads by which a submit resolves its approvers. Correct: one rule
  per approver and scope, an organization that had default rules keeps one, so a
  submit finds somebody, a reassignment moves everything or nothing, and no rule
  names somebody who has left.
- *Outbox*: crashes around the send, locks that expire under a slow worker,
  marks that do not check who holds the lock. Correct: at least once, and a
  duplicate only where a fault explains it.
- *OCR*: events repeated, lost or handled by two processes at once; the draft
  changes between the claim and its application. Correct: booked once, only in
  drafts, the status says whether it was booked, nothing is forgotten.
- *Upload*: retries under an idempotency key that meet the first attempt in any
  state; the object store between two database transactions. Correct: one
  document per key, no completed document without its object, the same request
  gets the same answer.
- *Transactions*: lost updates, also of what OCR added; a detail read by two
  statements; the width of the total. Correct: the version refuses a stale edit;
  the total is the sum of the items and does not overflow.
- *Projects, members, roles*: counts and checks before the row they protect is
  changed; a placement cleared when a former member comes back. Correct: nobody
  is placed with a deleted role or has access from an earlier membership, and no
  change of a placement is lost.
- *Row locks*: uploads, deletions, reservations and OCR lock project, draft and
  document in different orders. Correct: they wait for each other in a circle as
  seldom as may be, and never for ever.
- *Reminder*: a batch that the same oldest rows fill each time.

`PROJECT.json` lists each of these hazards at its line with the property that
covers it, or says why none does yet.

## 2. Modules

```
ApprovalChain    <--implements-- ApprovalEngine   <-- MCApprovalEngine    (run)
                                                  <-- ApprovalEngineProofs
                                 ApprovalRules    <-- MCApprovalRules     (run)
                                                  <-- ApprovalRulesProofs
AtLeastOnce      <--implements-- Outbox           (run)
                                                  <-- OutboxProofs
                                 OcrPipeline      (run)
                                                  <-- OcrPipelineProofs
IdempotentUpload <--implements-- DocumentUpload   <-- MCDocumentUpload    (run)
                                                  <-- DocumentUploadProofs
                                 ProjectMembers   <-- MCProjectMembers    (run)
                                                  <-- ProjectMembersProofs
                                 TransactionDraft <-- MCTransactionDraft  (run)
                                                  <-- TransactionDraftProofs
                                 LockOrder        (run)
                                                  <-- LockOrderProofs
```

An MC module adds to its module the symmetry of the instances and nothing else.

Definitions whose name says what they drop (`MayDecideAgain`,
`ClaimableIgnoringLocks`, ...) stand directly before the definition they vary.
They are plausible mistakes, used by no action; each shows that a property can
be violated.

### ApprovalEngine

State: per transaction `status`, `deleted`, the number of live uploaded
`documents`, whether the total is positive (`hasAmount`); per transaction and
approver the `step` of the approval row, the columns `activated` and `cancelled`,
and the count of `decisions` rows by kind. `waiting` holds the Decide requests
between their first read and the lock, with what they read; `deleting` the
Delete requests between their two transactions; `outbox` the events.

| code | definition |
| --- | --- |
| `submitTx` (engine.go) | `Submit(t, c)`: checks, one approval row per approver of the chain `c`, the lowest step active |
| `GetApprovalForDecide` | `ReadApproval`, and `MayDecide` for the checks once the lock is held |
| `decideTx`, reject | `Reject`, with `CancelPendingApprovals` |
| `decideTx`, approve and `activateNext` | `ApproveAndWait`, `ApproveAndActivate`, `ApproveLast` |
| rollback, crash | `Abandon` |
| the answer of Decide | `AnsweredStatus` |
| upload completion, document delete, Update, OCR item, Delete | `CompleteUpload`, `DeleteDocument`, `UpdateItems`, `AttachOcrItem`, `DeleteTransaction` + `EmitDeleted`/`LoseDelete` |

The grain is the database transaction, because all writers hold the lock on the
transaction row from their first read to their commit. Decide is the exception:
`FOR UPDATE OF t` on a join locks only the transaction row, and when the lock was
waited for, PostgreSQL re-reads the locked row but takes the other side of the
join from the statement's snapshot. `StaleReadIsHarmless` is about this.

The chain a Submit resolves is any nonempty function from approvers to steps. The
code gives project rules precedence over defaults (rules of one scope name an
approver once, by the unique indexes that `ApprovalRules` models). It does not
check that approvers are still members.

`ApprovalChain` is what a user is promised: turns, votes, one rejection settles,
unanimity approves. It has no columns, no requests and no locks.

### ApprovalRules

`rules` are the live rows; `deleting` are the DeleteRule requests that have
passed their count and not started their transaction; `resolving` says how far
the submit of a transaction of each project has come in choosing its approvers.
Of identity the model has the members (`active`), those it has been told are
approvers no more and is about to remove (`leaving`), and those that some
request in flight has found active (`vouched`).

| code | definition |
| --- | --- |
| `CreateRule`: `IsMemberActive`, then the transaction | `IsMemberActive`, `CreateRule` |
| `CreateDefaultApprovalRule` (a new project) | `CreateDefaultApprovalRule` |
| `UpdateRule` | `UpdateRule` |
| `DeleteRule`: the count, then the transaction | `CheckDelete`, `DeleteRule`, `AbandonDelete` |
| `ApproverAssignments`, asked by identity over gRPC | `CheckApproverAssignments` |
| `ReassignRules` | `IsMemberActive`, `ReassignRules` |
| `submitTx`: `ResolveProjectRules`, `ResolveDefaultRules` | the actions of the same names, `AbandonSubmit` |
| identity removes a member, or gives it up | `RemoveMember`, `KeepMember` |

A rule has a history variable, `raced`: it was written for somebody identity had
already been told has no rules. `OrphanRulesMeanRace` says that this is the only
way in which a rule can come to name a former member. The code leaves that way
open, because CreateRule's check and its insertion are apart and identity's
question falls between them; it closes every other. A request that a unique index
or a permission refuses changes nothing.

### Outbox, AtLeastOnce

A worker claims (`Claim`), sends (`Publish`, `PublishFails`, where the broker may
or may not have taken the record) and marks (`MarkPublished`, `MarkFailed`, or
`MarkLost` when that statement fails). `ExpireLock` ends a lock that nobody holds
any more after five minutes; `OverrunLock` ends one whose worker is alive and
merely slow, which counts as a fault. `Rested` ends a backoff. `AtLeastOnce` says: an event is delivered some number of
times, retired only after it was delivered, and eventually retired.

### OcrPipeline

State: the columns of a document (`ocr`, `deleted`, `link`, `jobKnown`), the state
of a transaction (`tx`), how often a document's result was booked in it
(`booked`), what is under way to the gateway (`calling`, `answered`, `jobs`), the
gateway's `result` and `topic`, and how far each handler is (`pc`, `on`, `batch`).

| code | definition |
| --- | --- |
| `Upload`'s last transaction, `SubmitDocument`, `SetDocumentOCRDocumentID` | `CompleteUpload`, `SubmitDocument`/`SubmitFails`, `SetOcrDocumentID`/`...Lost` |
| `RetryUnsubmitted` | `RetryUnsubmitted`, then the same three |
| `runConsumer` (app/consumer.go) | `Receive`, `CommitRecord`, `Crash` |
| `SweepStale` | `ListStale` (with `Oldest` for the LIMIT), `Ask` |
| `Handle`: read, lease | `Begin` |
| `ClaimDocumentForOCR` | `Claim` |
| `applyResult`, `attach`, `createDraft`, parking, failing | `FailDocumentOCR`, `AttachItem`, `AttachForReview`, `CreateDraft`, `ParkForReview`, `GiveUp` |
| errors of a statement | `HandleFails` (dead-lettered by a consumer, skipped by the sweeper) |

Results are abstracted to three: a usable `total`, a `doubtful` one (low
confidence, no total, or a total that is not an amount) and `failed`.

The model follows the code where comments have aged: `ocrconsumer/service.go`
115-117 and 408 speak of a low confidence result that creates a draft and of a
missing total that fails, but the code (206-209, 411-416) parks both for review
with no draft. The sweeper takes the gateway's job status where the consumer
classifies the event. Without a configured gateway nothing is ever submitted and
documents stay pending; the model assumes a gateway.

### DocumentUpload, IdempotentUpload

One project and one uploader, the scope of the unique index on idempotency keys.
A document row has a `key`, a `content` (name, size, type, hash) and a `link`; it
is `complete` and possibly `deleted`; `stored` is the object at its path. `pending`
are the requests in flight and how far they are; `answers` the successful answers
so far.

| code | definition |
| --- | --- |
| `upload`: lookup of the key and first checks | `Arrive`, then `AnswerCompleted` or `Start` |
| first transaction: `ReserveDocumentUpload`, `GetDocumentUploadByKey` | `Reserve` (the row is inserted), `Join` (it was there) |
| checks again, `storage.Put` | `Put` |
| second transaction | `Complete` |
| every refusal and failure in between | `Abandon` |
| `Delete` of a document | `DeleteDocument` |
| `Archive`, `Unarchive`, `Delete` of a project | `ArchiveProject`, `UnarchiveProject`, `DeleteProject` |
| the OCR consumer's `createDraft` | `CreateDraft` |

Transactions come into being only through `createDraft`: the service has no
operation by which a user creates one, so the project starts empty here. In
`OcrPipeline` and `ApprovalEngine`, which start with drafts, these are drafts
that OCR created for documents outside the instance.

`IdempotentUpload` is the promise: an upload under a key is accepted once and
announced once, only the same content is answered, and a withdrawn upload is not
accepted again.

### ProjectMembers

State: the `status` of each project; each custom `role` and whether its deletion
has `counted` it unused; the row of `project_members` of each project and user
(`member`); identity's `active` members, with `era` counting the memberships of a
user and `clearing` the call that precedes his return; `request`, the placements
in flight.

| code | definition |
| --- | --- |
| `project.Create` | `CreateProject` |
| `Archive`, `Unarchive`, `Delete` | `ArchiveProject`, `UnarchiveProject`, `DeleteProject` |
| `ListMembers`, from which the client takes `expected_version` | `ViewMember` |
| `PlaceMember`: project and identity, role, transaction | `CheckMember`, `CheckRole`, `PlaceMember` (with `UpsertProjectMember`, the conflict clause of the query) |
| `RemoveMember` | `RemoveMember` |
| `ClearRejoinedMemberProjectAccess` (gRPC) and `ClearOrganizationMemberPlacements` | `CheckInactive`, `ClearOrganizationMemberPlacements` |
| role `Create`; `Delete` in two steps | `CreateRole`; `CountRole`, `SoftDeleteRole` |
| identity | `Leave`, `Rejoin` |

A row remembers its writer in history variables: which insertion it stems from
(`life`), in which membership its user was verified (`era`), whether those
placements had been cleared by then (`late`), and whether its role was on its way
out (`raced`). They appear in no guard.

### TransactionDraft

One draft: its `status`, `text` (description, currency, category), `items`,
`total` and `version`; what each client has on his screen (`view`); the state of
the receipts that OCR has still to add (`ocr`).

| code | definition |
| --- | --- |
| `Get`, then `buildDetail` | `GetTransaction`, then `ListTransactionItems` |
| `Update` without and with items | `UpdateText`, `Update` (with `InsertTransactionItems`) |
| the triggers `sync_transaction_total`, `bump_transaction_version` | `SyncTotal`, `BumpVersion` |
| `Submit`, `Delete` | `Submit`, `Delete` |
| OCR's claim; attach, parking, rollback | `Claim`; `Attach`, `Park`, `AttachFails` |

Amounts are words of `0..MaxAmount`: a sum that does not fit fails the statement,
as `bigint` arithmetic does in PostgreSQL, and rolls the transaction back. The
version counts every UPDATE of the row, the trigger's own among them: an edit that
replaces *m* items by *n* raises it by 1 + *m* + *n*.

### LockOrder

One project P, one draft T, one document D. Each process runs one transaction
around the upload of the document and takes the row locks of its `plan` one by
one; `held` are those it has. Single-row statements (submit, deleting a draft,
archiving) wait for the lock and are one action.

| code | definition |
| --- | --- |
| completion of an upload | `CompletePlan`: P, T if the upload is for the draft, D |
| deletion of a document | `DeletePlan`: T and D, or D, and T if it is linked by then (`Found`) |
| attach, `createDraft`, keeping a result | `HandlePlans`: T and D; D and P; D |
| reservation of another upload for the draft | `ReservePlan`: P, and a foreign key's share lock on T |
| `ExecTx` | `Begin`, `Finish`; the commits of each kind |
| checks on the row just locked | `Refused` |
| PostgreSQL | `MayLock`, `BreakDeadlock` |

## 3. Runs

| run | instance | distinct states | shows |
| --- | --- | --- | --- |
| `approval_engine` | 1 transaction, 4 approvers, 3 steps, 3 requests in flight | 37,980 | all engine properties; the engine implements `ApprovalChain` |
| `approval_rules` | 1 project and the default scope, 3 approvers, 3 ids, 1 deletion in flight | 227,376 | one rule per approver, submits find one, reassignment is whole; former members only by a race |
| `outbox` | 3 events, 2 workers, batches of 2, 2 faults | 42,467 | at-least-once delivery, and how many duplicates the faults explain |
| `ocr_pipeline` | 1 document, 1 earlier draft, 2 consumers, 1 sweeper, 3 faults | 66,394 | booked once, only in drafts, final, and nothing forgotten |
| `document_upload` | 2 keys, 2 contents, 2 document rows, 3 requests in flight | 62,157 | an upload takes effect once, and only where it may |
| `project_members` | 1 project, 1 user, 1 custom role, 2 placements in flight, 3 insertions, 3 versions, 2 memberships | 816,146 | no placement is overwritten unseen; dead roles and old access come of known races only |
| `transaction_draft` | 2 clients, 2 receipts, 2 texts, amounts 0..2, 2 items per edit | 362,337 | no lost update, whoever edits and whatever OCR adds; overflow is parked |
| `lock_order` | 2 completions, 1 handler, 2 deletions, 1 reservation | 29,515 | which circles of waits there are, and that nobody waits for ever |
| `deletion_event` | 1 transaction | violation | finding 1 |
| `default_rule_race` | 2 default rules, 2 deletions in flight | violation | finding 2 |
| `stuck_claim` | 1 document, 1 consumer, 1 sweeper, 1 fault | violation | finding 3 |
| `completed_retry` | 1 key, 1 content, 1 request in flight | violation | finding 4 |

`ApprovalEngineNotices.cfg` and `ApprovalEngineAnswer.cfg` are kept for two
observations (section 5); they are not among the runs.

Deadlock is checked in `project_members`, where a placement can always be opened
or given up. Elsewhere it is not: those systems may legitimately stop, when all
transactions are settled, all events published, all documents settled, all
transactions over, or the bounds are used up.

Why the bounds suffice:

- *One transaction in the engine.* No action reads the rows of a transaction
  other than its own. The theorems below are for any number.
- *Four approvers on three steps* give a step before, a parallel step and a step
  after it, with a sibling that is active and one that is not. *Three requests*
  let two race for one approval while a third is at a sibling.
- *Two documents per transaction*: a draft begins with the one it was created
  from and Submit asks for at least one, so one more tells "some" from "the last".
- *Three events, batches of two*: a claim that leaves something behind, and two
  workers with work.
- *Faults*: one for each thing that has to go wrong at once. In the outbox, two
  allow a lock to be overrun and the late worker's send to fail. In the OCR
  pipeline, three allow a lost submission, a lost event and a crash, or a
  repeated event, a crash and a freeze.
- *One document in the OCR pipeline.* Documents meet only in the sweep's batch and
  in the items of a common draft. `booked` is kept for each document, so a second
  one adds nothing to the safety properties. It does matter for the batch: with
  more documents stuck in processing than the batch holds, the sweep would not
  reach the others. That is a listed hazard and not covered.
- *Two keys, two contents, two documents, three requests*: one document whose
  upload has completed and become a draft, another that is uploaded to that draft;
  two requests racing for one key while a third comes with other content. A row
  bound of two suffices for two keys, and would let a key get two rows if the
  code did.
- *Three rule ids, three approvers* in `approval_rules`: two default rules, so that
  one may be deleted, and a project rule; a member who leaves, his replacement and
  one who stays. `spent` keeps ids from coming back, so a deletion that was
  checked never meets another row.
- *One project, one user* in `project_members`: no guard of a placement reads
  another user's row, and the clearing treats each project alike. Three insertions
  give the placement of a first membership, a removal with a new row of the same
  version, and one of the second membership. Two requests suffice to overwrite.
- *Two receipts, amounts up to 2* in `transaction_draft`: a second receipt that
  fits or not after the first; an edit in between. `MaxVersion` 9 allows for four
  to six changes after the draft's creation, according to their kind.
- *Two completions, two deletions, one handler, one reservation* in `lock_order`:
  both pairs that can form a circle, with everybody else in their way. A second
  handler would never get past the claim, and a circle through three rows has at
  most three members. That more of each make no other circle is proved.

Symmetry is used, for keys, contents, documents, approvers, requests, transactions
and rule ids, in the runs that check safety only.

### Fairness

`ApprovalEngine`, `ApprovalRules`, `ProjectMembers` and `TransactionDraft` have
none: nothing makes a user submit, decide, place or edit, and no liveness is
claimed of them. `PendingIsNotStuck` is the safety half, that someone may.
`DocumentUpload` has none either: nothing makes a client repeat a request.

`Outbox`: weak fairness of claiming, publishing and marking for each worker (a
one second ticker that runs in every worker, `internal/app/worker.go`), and of
the passing of time (`ExpireLock`, `Rested`). Sends and statements may fail, but
only as often as the fault bound says: a broker that is down for ever delivers
nothing.

`OcrPipeline`: weak fairness of a request's or sweeper's own next step, of the
sweeps (tickers), of the consumers' poll and commit, of Claim and Apply once a
handler is that far, of the gateway ending a job, and of the end of a freeze.
No fairness of users, faults or freezes. `PendingIsTakenUp` needs the end of the
freeze: a document of an organization that is frozen for ever does wait.

`LockOrder`: weak fairness of one formula, that some transaction which has begun
takes a step. A transaction that holds or waits for locks is a running goroutine
with a connection, or PostgreSQL's deadlock detector, and neither stops. Nothing
makes a process begin. Since a process runs one transaction, of finitely many
steps, this is enough for all of them to end.

## 4. What is proved

Eight modules hold theorems, for every value of the constants that satisfies the
named assumptions of the module they extend. Those assumptions say that bounds are
naturals, that names which must differ do (`NoOne`, `None`, `Default`, `Admin`),
that nobody is of two kinds (`KindsAssumption` of `LockOrder`), and, where a proof
counts, that a set is finite (`WorkersAssumption`, `FiniteAssumption`).

| module | proved of the runs' properties | beside |
| --- | --- | --- |
| `ApprovalEngineProofs` | all ten: `TypeCorrect`, `StepOrderHolds`, `OneDecision`, `NeverStuck`, `RejectionCloses`, `Backed`, `StaleRead`, `Outcome`, `Frozen`, `Implements` | `Invariance` of `IInv`; `Announced`, `DeletionsLost` |
| `ApprovalRulesProofs` | all five: `TypeCorrect`, `OneRule`, `ReassignLeavesNone`, `OrphansAreRaced`, `SubmitsSucceed` (the last under `DeletionsApart`) | `DefaultsSurvive`, under `DeletionsApart` |
| `OutboxProofs` | all safety properties: `TypeCorrect`, `RetiredWasDelivered`, `FaultsPayForDuplicates` | `ChannelIsSafe`, the safety half of the refinement |
| `OcrPipelineProofs` | all safety properties: `TypeCorrect`, `CompletedAndBooked`, `NeverBookedTwice`, `SubmittedStayWhole`, `OutcomesStay` | `ClaimsAreExclusive`, `StuckIsExplained`, `StuckForEver` |
| `DocumentUploadProofs` | all five: `TypeCorrect`, `ObjectsMatch`, `EvidenceStays`, `ClosedIsClosed`, `UploadsTakeEffectOnce` | `RetriesFindTheirRow` |
| `ProjectMembersProofs` | all four: `TypeCorrect`, `EditsInformed`, `StaleAccessIsRaced`, `DeadRoleIsRaced` | |
| `TransactionDraftProofs` | all three: `TypeCorrect`, `OverflowParked`, `EditsInformed` | `VersionIsHonest` |
| `LockOrderProofs` | both safety properties: `TypeCorrect`, `CirclesKnown` | `WaitsEnd`, `StepsAreFew` |

**ApprovalEngine.** `StepOrder` is not inductive alone. activateNext looks at
siblings that are open and at rows that are not active, so to know that the step
it activates may open one must know what an active row that is not open means: it
was decided, and not by a rejection, and it was not cancelled. `IInv` is `TypeOK`,
`SubmittedIsBacked` and

- `RowsMakeSense`, `RowsBySubmit`: decisions and cancellations belong to rows,
  only active rows are decided, and exactly the drafts have no rows;
- `StepOrder`, `StepsOpenTogether`: a step is activated as a whole, after
  everybody below has approved;
- `AtMostOneDecision`;
- `PendingShape`, `ApprovedShape`, `RejectedShape`: in a pending chain no row is
  cancelled or rejected and one is open; in an approved one all have approved; in
  a rejected one a single row is rejected and the rest are decided or cancelled;
- `ReadsAreMonotone`: what a waiting request read of `activated_at` can only have
  become truer. A row read as not cancelled can have been cancelled since, but
  then the transaction is no longer pending, and the status is read fresh. That is
  why the stale read is harmless.

That some row of the lowest step can be activated rests on `LeastElement`, a
nonempty set of naturals has a least element, which the proof takes from the
well-foundedness of the finite sets `0..n` under inclusion. The refinement maps
`Submit`, `Reject`, `ApproveLast` and `DeleteTransaction` to their namesakes,
`ApproveAndWait` and `ApproveAndActivate` to `ApproveStep`, everything else to a
stutter. Its core is that an open row is exactly a turn of `ApprovalChain`.

`ChangesAnnounced` relates the outbox to the rows: submissions, decisions and
activations have exactly their events, since both are written in one database
transaction, and a step that was activated has one of its approvers told.
Deletions are the exception. `LostDeletions` gives it exactly: a deletion becomes one
that nothing will announce by `LoseDelete`, by no other step, and for good.

**ApprovalRules.** `OneRule` is inductive with `TypeOK`. `OrphansAreRaced` needs
`Orphans`: a rule of somebody who is *leaving* or gone is raced, because identity
was told that he had none. The default rules are safe only under a condition on the
behaviour, `DeletionsApart`: no two default rules are under deletion at once.
`DefaultsSurvive` and `SubmitsSucceed` have `[]DeletionsApart` as a hypothesis;
deletions of a project's rules may overlap with these and with one another, and
`MaxDeletes` is any number. `DefaultInv` is what they need: if a default rule is
under deletion another one is there, and stays there until that deletion is over
(`DeletionSpares`); and the rule a deletion was checked for is still there, since
nothing else deletes (`DeletesLive`). Without the hypothesis this is false, as
`default_rule_race` shows.

**Outbox.** `Holdings`: a worker has claimed only what was emitted, and what it
has sent is one row of its batch. `Deliveries` adds that what was acknowledged or
published was delivered. `FaultsPayForDuplicates` is an argument about a budget:
`Open(e)` are the workers that have *e* in their batch and no acknowledgement for
it; `Loose(e)` says that *e* can be claimed, or will be without a further fault;
and the deliveries of *e*, the open workers and one for a loose row never exceed
1 + `faults` (`Budget`). A claim turns a loose row into an open one, an
acknowledged send an open one into a delivery, and only a fault adds to the sum.

**OcrPipeline.** `Books`: no document is booked twice in a transaction, it is booked
exactly in its link and only if it is completed, a draft that OCR created stems
from a completed document, and what is deleted was uploaded. It says nothing of
how many handlers are past a claim, and need not: each of them takes its last step
only on a document that is still in processing, and that step settles it. That there
is one such handler at most is `OneClaimant`: a claim is a conditional update from
uploaded to processing. From it follow the two theorems about finding 3. A live
document comes to be in processing without a handler by a failure or a crash of the
one that claimed it, or because its transaction was deleted, and by nothing else
(`StuckHasCause`); and there it stays until it is deleted (`StuckStays`).

**DocumentUpload.** `Rows`: a key has one row, completed rows have their object,
only completed rows were announced, a deleted project has no rows, and each
request in flight knows the row it works on, whose key and content are its own.
The refinement maps the completing step to acceptance, deletion to withdrawal, and the rest to stutters. `AnswersHold`
says what a client that repeats a completed upload meets: one row under its key,
complete, with its content, linked as it was uploaded or, if that was to the project,
perhaps to the draft OCR created for it. The last is finding 4, and there is no
other case.

**ProjectMembers.** `Ages`: insertions are numbered as they happen, and what a request
saw of its row stems from no later insertion than the row that is there now. So an
equal version is that of the row itself or of one removed since, which is the
exception `EditsAreInformed` makes. `Stale` and `Dead` carry the two races: after
the clearing of a user's placements whatever row he has is late already, before he
is back, and a row with a role whose deletion is counted or done is raced. `Dead` is where finiteness
is used: a count of zero means that there is no such row.

**TransactionDraft.** `Screens`: no screen is newer than the draft, and one that has
the current version shows the current contents. Reading the row before the items
matters: the other order would break it. `TypeOK` says that the stored total is the
sum of the items. `Sum` is a recursive function, and the library's induction theorems
take an operator and so cannot be used. Induction for a *set* of naturals
(`SetInduction`) can be proved, from the well-foundedness of the intervals `0..n`,
and is enough: with it there is exactly one function that agrees with the recursion
up to an index (`SumsTo`), so appending an item adds it to the sum.

**LockOrder.** `Order` says for each kind of transaction what it has locked and what
it has still to lock (`CompleteAt`, `DeleteAt`, `HandleAt`, `ReserveAt`), that two
processes hold no conflicting locks, and that one handler at most is between its
claim and its end, with the document in processing (`OneClaim`). So while a
handler creates the draft there is none. A transaction in a circle holds a lock and
waits for another, which leaves four kinds (`Inners`): those that hold the
document (`Late` deletions and a handler that is `Creating`), those that wait for
it, and those that wait for the draft with the project locked. The last are in no
circle, since nobody whom a linked draft concerns waits for the project; the
others alternate (`Waits`), so a circle is even, has two members, and joins two
deletions or a completion and a handler.

`SomebodyGoesOn` is the converse: while a transaction runs, the guards of a step of
some running one hold (`MayGoOn`), the rollback of a circle's victim included.
`ProcessesComeOn` gives a process a rank from 0 to 6, which its own steps raise and
nobody lowers. Together they are `EveryTransactionEnds` but for the fairness.

Every safety property that a run checks is thus a theorem. Only model-checked:
liveness (`PendingIsTakenUp`, `EveryTransactionEnds`, the liveness half of
`DeliversAtLeastOnce`), since fairness and ENABLED are outside what the prover
handles.

## 5. Findings

1. `transaction/service.go:499-510`: the deletion of a transaction and its event
   are two database transactions; the event can be lost for ever
   (`DeletionAnnounced`). `DeletionsLost` proves that this is the only way, and that
   every other change has its event.
2. `approval/service.go:258`: two deletions can both pass the check that protects
   the last default rule (`DefaultRulesSurvive`, with deletions that overlap).
   `DefaultsSurvive` proves that nothing else takes it away.
3. `ocrconsumer/service.go:137`, `162`: a document whose handling fails after the
   claim stays in processing; the sweep lists it for ever and `Handle` skips it
   (`ClaimIsFinished`). `StuckIsExplained` and `StuckForEver` prove the causes and
   that nothing but deletion ends it.
4. `document/service.go:398`: a retry of a completed upload to the project is
   refused as a reuse of the key once OCR has linked the document to the draft it
   created, because the row's link is part of the request's fingerprint
   (`CompletedRetryIsAnswered`). `RetriesFindTheirRow` proves that no other
   retry of the upload of a live document is refused for its row.

Observations, which no run is spent on:

- `approval/engine.go:119`, `390-394`: one approver of a step that goes active is
  notified; the others of a parallel step are not (`ActiveApproversNotified`).
- `approval/engine.go:309`: Decide answers `approved` when a sibling still owes a
  decision and the transaction is pending (`AnswerIsTrue`).
- Two circles of waits (`CirclesAreKnown`): a repeated completion of an upload and
  `createDraft`; two deletions of one document of which one read it before OCR
  linked it. PostgreSQL breaks them. For OCR, being the one rolled back means
  finding 3.
- The upsert of a placement compares versions only with a row that is there. An
  edit of a member who has been removed meanwhile inserts him again, and since a
  new row starts at version 1, an edit that saw version 1 of a removed row may
  overwrite the new one. `EditsAreInformed` states what remains.
- A placement written while its role is deleted leaves a row that the listing does
  not show; placing the member again then needs a version nobody can see
  (`DeadRoleMeansRace` states when this can happen).
- A rule created between identity's question and the removal names a former member
  (`OrphanRulesMeanRace`). Approvals already issued are not reassigned at all.
- Submit carries no expected version: what is submitted is the draft as it is, not
  as it was shown.
- The limit of 200 items is checked for edits, not for items that OCR attaches.
- Two updates of a role's permissions that do not change its name lock no common
  row and can leave the union of both sets.

Another stale comment: `document/service.go:422` says the sweep will not cover a
document whose job id could not be saved, but `RetryUnsubmitted` submits it again.

## 6. Not modelled

Payloads, and amounts and confidences beyond what a guard tells apart; the text of
events; ages, intervals and backoff lengths (any may pass at any time);
permission checks and validation, which refuse a request and change nothing; the
HTTP and gRPC layers, configuration, health, telemetry, start-up and shutdown.
Identity, the gateway, Kafka and the object store appear as what the code sees of
them.

Of the parts with state: names of projects and roles, the permissions of a role and
with them its update and `EnsureSeed` (in a project made by `Create`, which seeds
the system roles itself, it finds them and returns). The reminder changes no row
it reads; whether it reaches everybody depends on how many approvals stay open,
which nothing bounds. The two listings that join many tables are reads.

## 7. Plan

Done, in the order of importance: the approval engine with its refinement and
proofs; the rules with members and submits; the OCR pipeline; the outbox; uploads;
placements and roles; the contents of a draft; the order of locks; proofs of every
safety property the runs check, and of the extent of each finding.

What would add most next:

1. A composition of `ApprovalRules` and `ApprovalEngine`, in which the chain of a
   submit is what the two statements returned. The engine takes any nonempty chain
   today, which includes these.
2. Several documents in `OcrPipeline`, enough to fill a sweep's batch, for the
   starvation that finding 3 leads to.
3. The steps of the liveness arguments that need no fairness, as `LockOrderProofs`
   has them, for `PendingIsTakenUp` and for delivery by the outbox: what stays
   possible until it is done.
4. The permissions of a role, if the code comes to promise something of
   simultaneous updates.
