---------------------------- MODULE OcrPipeline ----------------------------
(***************************************************************************)
(* From an uploaded document to the item its OCR result adds to a draft:   *)
(* the upload's call of the OCR gateway (document/service.go), the         *)
(* consumer of the gateway's events (app/consumer.go and                   *)
(* ocrconsumer/service.go), and the sweeper that submits again what was    *)
(* not accepted and asks for results whose event was lost (sweep.go).      *)
(*                                                                         *)
(* Grain.  Handle reads, claims and applies in three transactions, so      *)
(* other handlers, deletes and crashes come in between; whatever it does   *)
(* under row locks is one action.  The document's link to a transaction    *)
(* changes only in Handle after the claim, so the read that follows the    *)
(* claim is taken with what it leads to.  Ages and intervals are           *)
(* abstracted: the sweeper may find a document at any time.  The gateway,  *)
(* the topic and identity are external: the gateway answers a document     *)
(* with one result however often it is submitted or asked, its events may  *)
(* be lost or repeated, and access is not withdrawn while it is leased.    *)
(***************************************************************************)
EXTENDS Integers, FiniteSets

CONSTANTS
  Documents,    \* document rows, numbered in the order of created_at
  OldDrafts,   \* drafts created earlier, for other documents
  NoTx,         \* the link of a document that has no transaction
  Consumers,    \* consumer processes
  Sweepers,     \* worker processes, which sweep
  SweepBatch,   \* LIMIT of a sweep
  MaxFaults     \* bound on faults

ASSUME DocumentsAssumption == Documents \subseteq Nat
ASSUME NamesAssumption ==
  /\ OldDrafts \intersect Documents = {}
  /\ NoTx \notin OldDrafts \union Documents
ASSUME HandlersAssumption == Consumers \intersect Sweepers = {}
ASSUME BatchAssumption == SweepBatch \in Nat \ {0}
ASSUME FaultsAssumption == MaxFaults \in Nat

VARIABLES
  ocr,          \* ocr[d]: ocr_status, "none" before the upload is complete
  deleted,      \* documents with deleted_at
  link,         \* link[d]: transaction_id
  jobKnown,     \* documents with ocr_document_id
  tx,           \* tx[t]: state of a transaction
  booked,       \* booked[d][t]: items Handle has inserted into t for d
  calling,      \* documents somebody is about to submit to the gateway
  answered,     \* documents the gateway accepted, whose job id is not saved
  jobs,         \* documents the gateway has a job for
  result,       \* result[d]: what the gateway found out
  topic,        \* documents with an event that is not committed
  writable,     \* the organization and the uploader may write
  pc,           \* pc[h]: how far handler h is
  on,           \* on[h]: the document handler h is at
  batch,        \* batch[s]: documents sweeper s still has to ask about
  faults        \* crashes, errors, lost and repeated events, freezes so far

rows == <<ocr, deleted, link, jobKnown, tx, booked>>
submits == <<calling, answered, jobs>>
gateway == <<result, topic>>
handlers == <<pc, on, batch>>
vars == <<rows, submits, gateway, writable, handlers, faults>>

Handlers     == Consumers \union Sweepers
Transactions == OldDrafts \union Documents  \* OCR of d creates transaction d
Results      == {"total", "doubtful", "failed"}
Settled      == {"completed", "needs_review", "failed"}

TypeOK ==
  /\ ocr \in [Documents -> {"none", "pending", "processing"} \union Settled]
  /\ deleted \subseteq Documents
  /\ link \in [Documents -> Transactions \union {NoTx}]
  /\ jobKnown \subseteq jobs
  /\ tx \in [Transactions -> {"none", "draft", "submitted", "deleted"}]
  /\ booked \in [Documents -> [Transactions -> Nat]]
  /\ calling \subseteq Documents
  /\ answered \subseteq jobs
  /\ jobs \subseteq Documents
  /\ result \in [Documents -> Results \union {"none"}]
  /\ topic \subseteq {d \in Documents : result[d] # "none"}
  /\ writable \in BOOLEAN
  /\ pc \in [Handlers -> {"idle", "leased", "claimed", "done"}]
  /\ on \in [Handlers -> Documents \union {NoTx}]
  /\ \A h \in Handlers : pc[h] = "idle" <=> on[h] = NoTx
  /\ batch \in [Sweepers -> SUBSET Documents]
  /\ faults \in 0..MaxFaults

Init ==
  /\ ocr = [d \in Documents |-> "none"]
  /\ deleted = {}
  /\ link = [d \in Documents |-> NoTx]
  /\ jobKnown = {}
  /\ tx = [t \in Transactions |-> IF t \in OldDrafts THEN "draft" ELSE "none"]
  /\ booked = [d \in Documents |-> [t \in Transactions |-> 0]]
  /\ calling = {} /\ answered = {} /\ jobs = {}
  /\ result = [d \in Documents |-> "none"]
  /\ topic = {}
  /\ writable = TRUE
  /\ pc = [h \in Handlers |-> "idle"]
  /\ on = [h \in Handlers |-> NoTx]
  /\ batch = [s \in Sweepers |-> {}]
  /\ faults = 0

Fault == faults < MaxFaults /\ faults' = faults + 1

Live(d) == ocr[d] # "none" /\ d \notin deleted

-----------------------------------------------------------------------------
(* Users.                                                                  *)

\* The upload completes, to the project or to a draft, and goes on to submit.
CompleteUpload(d, t) ==
  /\ ocr[d] = "none"
  /\ t # NoTx => tx[t] = "draft"
  /\ ocr' = [ocr EXCEPT ![d] = "pending"]
  /\ link' = [link EXCEPT ![d] = t]
  /\ calling' = calling \union {d}
  /\ UNCHANGED <<deleted, jobKnown, tx, booked, answered, jobs, gateway, writable,
                 handlers, faults>>

DeleteDocument(d) ==
  /\ Live(d)
  /\ link[d] # NoTx => tx[link[d]] = "draft"
  /\ deleted' = deleted \union {d}
  /\ UNCHANGED <<ocr, link, jobKnown, tx, booked, submits, gateway, writable,
                 handlers, faults>>

\* A draft is submitted with a document, which may be one that is not among
\* Documents if the draft was created for it, ...
SubmitTransaction(t) ==
  /\ tx[t] = "draft"
  /\ t \in OldDrafts \/ \E d \in Documents : Live(d) /\ link[d] = t
  /\ tx' = [tx EXCEPT ![t] = "submitted"]
  /\ UNCHANGED <<ocr, deleted, link, jobKnown, booked, submits, gateway, writable,
                 handlers, faults>>

\* ... or deleted, whatever its documents are doing.
DeleteTransaction(t) ==
  /\ tx[t] = "draft"
  /\ tx' = [tx EXCEPT ![t] = "deleted"]
  /\ UNCHANGED <<ocr, deleted, link, jobKnown, booked, submits, gateway, writable,
                 handlers, faults>>

-----------------------------------------------------------------------------
(* Submission: the upload's own, and the sweeper's.                        *)

\* The document id is the idempotency key: the gateway keeps one job for it.
SubmitDocument(d) ==
  /\ d \in calling
  /\ calling' = calling \ {d}
  /\ jobs' = jobs \union {d}
  /\ answered' = answered \union {d}
  /\ UNCHANGED <<rows, gateway, writable, handlers, faults>>

SubmitFailsUnnoticed(d) ==
  /\ d \in calling
  /\ Fault
  /\ calling' = calling \ {d}
  /\ answered' = answered \union {d}
  /\ UNCHANGED <<rows, jobs, gateway, writable, handlers>>

\* The call or its answer is lost; the document stays as it is.
SubmitFails(d) ==
  /\ d \in calling
  /\ Fault
  /\ calling' = calling \ {d}
  /\ jobs' \in {jobs, jobs \union {d}}
  /\ UNCHANGED <<rows, answered, gateway, writable, handlers>>

SetOcrDocumentID(d) ==
  /\ d \in answered
  /\ answered' = answered \ {d}
  /\ jobKnown' = IF Live(d) THEN jobKnown \union {d} ELSE jobKnown
  /\ UNCHANGED <<ocr, deleted, link, tx, booked, calling, jobs, gateway, writable,
                 handlers, faults>>

\* The process dies, or the statement fails.
SetOcrDocumentIDLost(d) ==
  /\ d \in answered
  /\ Fault
  /\ answered' = answered \ {d}
  /\ UNCHANGED <<rows, calling, jobs, gateway, writable, handlers>>

ClaimStaleOCRSubmissions(d) == Live(d) /\ ocr[d] = "pending" /\ d \notin jobKnown

\* The sweeper submits again what waits without a job id.
RetryUnsubmitted(d) ==
  /\ ClaimStaleOCRSubmissions(d)
  /\ d \notin calling \union answered
  /\ writable
  /\ calling' = calling \union {d}
  /\ UNCHANGED <<rows, answered, jobs, gateway, writable, handlers, faults>>

-----------------------------------------------------------------------------
(* The gateway, its topic, and identity.                                   *)

\* A job ends and its event is routed.
RouteResult(d, r) ==
  /\ d \in jobs
  /\ result[d] = "none"
  /\ result' = [result EXCEPT ![d] = r]
  /\ topic' = topic \union {d}
  /\ UNCHANGED <<rows, submits, writable, handlers, faults>>

LoseEvent(d) ==
  /\ d \in topic
  /\ Fault
  /\ topic' = topic \ {d}
  /\ UNCHANGED <<rows, submits, result, writable, handlers>>

RepeatEvent(d) ==
  /\ result[d] # "none"
  /\ Fault
  /\ topic' = topic \union {d}
  /\ UNCHANGED <<rows, submits, result, writable, handlers>>

\* HoldExpenseWriteAccess: what a handler has leased stays writable.
Freeze ==
  /\ writable
  /\ \A h \in Handlers : pc[h] \notin {"leased", "claimed"}
  /\ Fault
  /\ writable' = FALSE
  /\ UNCHANGED <<rows, submits, gateway, handlers>>

Unfreeze ==
  /\ ~writable
  /\ writable' = TRUE
  /\ UNCHANGED <<rows, submits, gateway, handlers, faults>>

-----------------------------------------------------------------------------
(* Handle.                                                                 *)

Enter(h, d, state) ==
  /\ pc' = [pc EXCEPT ![h] = state]
  /\ on' = [on EXCEPT ![h] = IF state = "idle" THEN NoTx ELSE d]

\* A consumer has the record to commit when Handle returns.
Return(h, d) == Enter(h, d, IF h \in Consumers THEN "done" ELSE "idle")

\* Handle reads the document.  Unless it waits for a result and may be
\* written to, that is all: a deferred event is committed like any other.
Begin(h, d) ==
  IF Live(d) /\ ocr[d] = "pending" /\ writable
  THEN Enter(h, d, "leased")
  ELSE Return(h, d)

\* Poll.  After a rebalance two consumers may have the same record.
Receive(c, d) ==
  /\ pc[c] = "idle"
  /\ d \in topic
  /\ Begin(c, d)
  /\ UNCHANGED <<rows, submits, gateway, writable, batch, faults>>

StaleProcessing == {d \in Documents : Live(d) /\ ocr[d] = "processing" /\ d \in jobKnown}

\* ListStaleOCRDocuments.
Stale == {d \in Documents : Live(d) /\ ocr[d] \in {"pending", "processing"} /\ d \in jobKnown}

Oldest(ds) == {d \in ds : Cardinality({e \in ds : e < d}) < SweepBatch}

ListStale(s) ==
  /\ pc[s] = "idle" /\ batch[s] = {}
  /\ Stale # {}
  /\ batch' = [batch EXCEPT ![s] = Oldest(Stale)]
  /\ UNCHANGED <<rows, submits, gateway, writable, pc, on, faults>>

\* The sweeper asks for the status of d and handles a terminal one.
Ask(s, d) ==
  /\ pc[s] = "idle"
  /\ d \in batch[s]
  /\ batch' = [batch EXCEPT ![s] = @ \ {d}]
  /\ IF result[d] = "none" THEN UNCHANGED <<pc, on>> ELSE Begin(s, d)
  /\ UNCHANGED <<rows, submits, gateway, writable, faults>>

ClaimAnyUnsettled(h) ==
  /\ pc[h] = "leased"
  /\ LET d == on[h]
     IN  IF Live(d)
         THEN ocr' = [ocr EXCEPT ![d] = "processing"] /\ Enter(h, d, "claimed")
         ELSE Return(h, d) /\ UNCHANGED ocr
  /\ UNCHANGED <<deleted, link, jobKnown, tx, booked, submits, gateway, writable,
                 batch, faults>>

\* ClaimDocumentForOCR, which commits on its own.
Claim(h) ==
  /\ pc[h] = "leased"
  /\ LET d == on[h]
     IN  IF Live(d) /\ ocr[d] = "pending"
         THEN ocr' = [ocr EXCEPT ![d] = "processing"] /\ Enter(h, d, "claimed")
         ELSE Return(h, d) /\ UNCHANGED ocr
  /\ UNCHANGED <<deleted, link, jobKnown, tx, booked, submits, gateway, writable,
                 batch, faults>>

AppliesIgnoringDelete(h, d) == pc[h] = "claimed" /\ d = on[h] /\ ocr[d] = "processing"

\* The document handler h has claimed and finds as it left it.
Applies(h, d) == pc[h] = "claimed" /\ d = on[h] /\ Live(d) /\ ocr[d] = "processing"

Settle(h, d, status) ==
  /\ ocr' = [ocr EXCEPT ![d] = status]
  /\ Return(h, d)
  /\ UNCHANGED <<deleted, jobKnown, submits, gateway, writable, batch, faults>>

FailDocumentOCR(h, d) ==
  /\ Applies(h, d)
  /\ result[d] = "failed"
  /\ Settle(h, d, "failed")
  /\ UNCHANGED <<link, tx, booked>>

TakesItemsUnlessDeleted(t) == tx[t] # "deleted"

\* Items are added to drafts only.
TakesItems(t) == tx[t] = "draft"

Book(d, t) == booked' = [booked EXCEPT ![d][t] = @ + 1]

AttachItem(h, d) ==
  /\ Applies(h, d)
  /\ result[d] = "total"
  /\ link[d] # NoTx
  /\ TakesItems(link[d])
  /\ Book(d, link[d])
  /\ Settle(h, d, "completed")
  /\ UNCHANGED <<link, tx>>

\* The transaction takes no items, the result has no usable total, or the sum
\* would overflow.
AttachForReview(h, d) ==
  /\ Applies(h, d)
  /\ result[d] \in {"total", "doubtful"}
  /\ link[d] # NoTx
  /\ tx[link[d]] # "deleted"
  /\ Settle(h, d, "needs_review")
  /\ UNCHANGED <<link, tx, booked>>

CreateDraftUnlinked(h, d) ==
  /\ Applies(h, d)
  /\ result[d] = "total"
  /\ link[d] = NoTx
  /\ tx' = [tx EXCEPT ![d] = "draft"]
  /\ Book(d, d)
  /\ Settle(h, d, "completed")
  /\ UNCHANGED link

CreateDraft(h, d) ==
  /\ Applies(h, d)
  /\ result[d] = "total"
  /\ link[d] = NoTx
  /\ tx' = [tx EXCEPT ![d] = "draft"]
  /\ link' = [link EXCEPT ![d] = d]
  /\ Book(d, d)
  /\ Settle(h, d, "completed")

\* There is no usable total, or the project has been archived.
ParkForReview(h, d) ==
  /\ Applies(h, d)
  /\ result[d] \in {"total", "doubtful"}
  /\ link[d] = NoTx
  /\ Settle(h, d, "needs_review")
  /\ UNCHANGED <<link, tx, booked>>

\* The document is gone or settled, which is nothing to do, or its transaction
\* is deleted, an error that a consumer dead-letters and a sweeper skips.
GiveUp(h, d) ==
  /\ pc[h] = "claimed" /\ d = on[h]
  /\ \/ ~(Live(d) /\ ocr[d] = "processing")
     \/ result[d] # "failed" /\ link[d] # NoTx /\ tx[link[d]] = "deleted"
  /\ Return(h, d)
  /\ UNCHANGED <<rows, submits, gateway, writable, batch, faults>>

Apply(h) ==
  \E d \in Documents :
    \/ FailDocumentOCR(h, d) \/ AttachItem(h, d) \/ AttachForReview(h, d)
    \/ CreateDraft(h, d) \/ ParkForReview(h, d) \/ GiveUp(h, d)

\* A statement fails: the record is dead-lettered, the sweeper goes on.
HandleFails(h) ==
  /\ pc[h] \in {"leased", "claimed"}
  /\ Fault
  /\ Return(h, on[h])
  /\ UNCHANGED <<rows, submits, gateway, writable, batch>>

CommitRecord(c) ==
  /\ pc[c] = "done"
  /\ topic' = topic \ {on[c]}
  /\ Enter(c, on[c], "idle")
  /\ UNCHANGED <<rows, submits, result, writable, batch, faults>>

\* The process dies and is restarted; its record is delivered again.
Crash(h) ==
  /\ pc[h] # "idle"
  /\ Fault
  /\ Enter(h, on[h], "idle")
  /\ batch' = [s \in Sweepers |-> IF s = h THEN {} ELSE batch[s]]
  /\ UNCHANGED <<rows, submits, gateway, writable>>

-----------------------------------------------------------------------------
Users ==
  \/ \E d \in Documents, t \in Transactions \union {NoTx} : CompleteUpload(d, t)
  \/ \E d \in Documents : DeleteDocument(d)
  \/ \E t \in Transactions : SubmitTransaction(t) \/ DeleteTransaction(t)

Submission ==
  \E d \in Documents :
    \/ SubmitDocument(d) \/ SubmitFails(d)
    \/ SetOcrDocumentID(d) \/ SetOcrDocumentIDLost(d) \/ RetryUnsubmitted(d)

Environment ==
  \/ \E d \in Documents, r \in Results : RouteResult(d, r)
  \/ \E d \in Documents : LoseEvent(d) \/ RepeatEvent(d)
  \/ Freeze \/ Unfreeze

Handling ==
  \/ \E c \in Consumers : CommitRecord(c) \/ \E d \in Documents : Receive(c, d)
  \/ \E s \in Sweepers : ListStale(s) \/ \E d \in Documents : Ask(s, d)
  \/ \E h \in Handlers : Claim(h) \/ Apply(h) \/ HandleFails(h) \/ Crash(h)

Next == Users \/ Submission \/ Environment \/ Handling

\* Requests and processes run on, tickers tick, and the gateway ends its jobs.
\* Nothing makes a user act, and an organization is not frozen for ever.
Fairness ==
  /\ \A d \in Documents :
       /\ WF_vars(SubmitDocument(d)) /\ WF_vars(SetOcrDocumentID(d))
       /\ WF_vars(RetryUnsubmitted(d))
       /\ WF_vars(\E r \in Results : RouteResult(d, r))
  /\ WF_vars(Unfreeze)
  /\ \A c \in Consumers :
       WF_vars(CommitRecord(c)) /\ WF_vars(\E d \in Documents : Receive(c, d))
  /\ \A s \in Sweepers :
       WF_vars(ListStale(s)) /\ WF_vars(\E d \in Documents : Ask(s, d))
  /\ \A h \in Handlers : WF_vars(Claim(h)) /\ WF_vars(Apply(h))

Spec == Init /\ [][Next]_vars /\ Fairness

-----------------------------------------------------------------------------
(* Properties.                                                             *)

Bookings(d) == {t \in Transactions : booked[d][t] > 0}

\* A result is booked once at most, and in one transaction: repeated events,
\* rebalanced consumers and a sweeper that races with them never add a second
\* item or create a second draft.
BookedOnce ==
  \A d \in Documents :
    /\ \A t \in Transactions : booked[d][t] <= 1
    /\ Cardinality(Bookings(d)) <= 1

\* The document and its transaction agree: a document is completed exactly when
\* its total was booked in the transaction it is linked to, and a document that
\* is to be reviewed or failed has left no item behind.
CompletedIsBooked ==
  \A d \in Documents :
    Bookings(d) = IF ocr[d] = "completed" THEN {link[d]} ELSE {}

\* Handle never changes what an approver is asked to approve: an item goes only
\* into a transaction that is a draft, though it may be submitted or deleted
\* while Handle is between its claim and its last step.
OnlyDraftsGrow ==
  [][\A d \in Documents, t \in Transactions :
       booked'[d][t] # booked[d][t] => tx[t] \in {"none", "draft"} /\ tx'[t] = "draft"]_vars

\* What became of a document is final, and nothing becomes of a deleted one.
OutcomeIsFinal ==
  [][\A d \in Documents :
       (ocr[d] \in Settled \/ d \in deleted) =>
         /\ ocr'[d] = ocr[d]
         /\ link'[d] = link[d]
         /\ booked'[d] = booked[d]]_vars

\* An uploaded document does not wait for ever, whether its submission, the
\* answer, or the event was lost, or its organization was frozen meanwhile.
PendingIsTakenUp ==
  \A d \in Documents :
    ocr[d] = "pending" ~> (ocr[d] # "pending" \/ d \in deleted)

\* Stated by sweep.go:120-123: the sweep applies terminal answers, and what
\* failed for a document "the next tick covers".
ClaimIsFinished ==
  \A d \in Documents :
    ocr[d] = "processing" ~> (ocr[d] \in Settled \/ d \in deleted)
=============================================================================
