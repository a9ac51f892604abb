--------------------------- MODULE DocumentUpload --------------------------
(***************************************************************************)
(* Uploads to one project by one user (internal/service/document): an      *)
(* upload reserves a document row under its idempotency key, stores the    *)
(* object and completes the row, and may be repeated, at any time and      *)
(* concurrently, until somebody is answered.  Meanwhile the project is     *)
(* archived or deleted, OCR turns documents into drafts, and drafts and    *)
(* documents are submitted and deleted.                                    *)
(*                                                                         *)
(* Grain.  Reserving and completing are two database transactions that     *)
(* lock the project; storing the object comes between them.  The reads     *)
(* before each of the three are taken with it: they can only refuse, and   *)
(* the two transactions check again what they rely on.  A document's       *)
(* submission to OCR is OcrPipeline's subject.                             *)
(***************************************************************************)
EXTENDS Integers

CONSTANTS
  Keys,         \* idempotency keys
  Contents,     \* name, size, type and hash of what is uploaded
  Documents,    \* bound on the document rows; OCR of d creates transaction d
  Requests,     \* upload requests that can be in flight at once
  None

ASSUME NoneAssumption ==
  None \notin Keys \union Contents \union Documents \union {"withdrawn"}

VARIABLES
  project,      \* "open", "archived" or "deleted"
  tx,           \* tx[t]: state of a transaction of the project
  key,          \* key[d]: idempotency_key, None if there is no row d
  content,      \* content[d]: file_name, file_size, mime_type and file_hash
  link,         \* link[d]: transaction_id
  complete,     \* documents with upload_complete
  deleted,      \* documents with deleted_at
  stored,       \* stored[d]: the object at the storage path of d
  announced,    \* announced[d]: document.created events written for d
  pending,      \* requests in flight and how far they are
  answers       \* successful answers so far

row == <<key, content, link>>
vars == <<project, tx, row, complete, deleted, stored, announced, pending, answers>>

Targets == Documents \union {None}     \* a transaction, or the project itself
Uploads ==
  [request: Requests, key: Keys, target: Targets, content: Contents,
   at: {"reserve", "put", "complete"}, doc: Targets]
Answers == [key: Keys, target: Targets, content: Contents, doc: Documents]

Reserved == {d \in Documents : key[d] # None}

TypeOK ==
  /\ project \in {"open", "archived", "deleted"}
  /\ tx \in [Documents -> {"none", "draft", "submitted", "deleted"}]
  /\ key \in [Documents -> Keys \union {None}]
  /\ content \in [Documents -> Contents \union {None}]
  /\ link \in [Documents -> Targets]
  /\ complete \subseteq Reserved
  /\ deleted \subseteq complete
  /\ stored \in [Documents -> Contents \union {None}]
  /\ announced \in [Documents -> Nat]
  /\ pending \subseteq Uploads
  /\ \A u \in pending : IF u.at = "reserve" THEN u.doc = None ELSE u.doc \in Reserved
  /\ answers \subseteq Answers

Init ==
  /\ project = "open"
  /\ tx = [t \in Documents |-> "none"]
  /\ key = [d \in Documents |-> None]
  /\ content = [d \in Documents |-> None]
  /\ link = [d \in Documents |-> None]
  /\ complete = {} /\ deleted = {}
  /\ stored = [d \in Documents |-> None]
  /\ announced = [d \in Documents |-> 0]
  /\ pending = {} /\ answers = {}

Live(d) == d \in complete \ deleted

-----------------------------------------------------------------------------
(* The upload.                                                             *)

UnderKey(k) == {d \in Documents : key[d] = k}

SameTarget(d, u) == link[d] = u.target

\* sameUploadRequest: the row's link is compared with the request's target.
Same(d, u) == content[d] = u.content /\ link[d] = u.target

TakesDocumentsUnlessDeleted(t) == t # None => tx[t] \notin {"none", "deleted"}

\* A document may be added to the project, or to a draft of it.
TakesDocuments(t) == t # None => tx[t] = "draft"

Answer(u, d) ==
  answers' = answers \union
    {[key |-> u.key, target |-> u.target, content |-> u.content, doc |-> d]}

GoOn(u, at, d) == pending' = (pending \ {u}) \union {[u EXCEPT !.at = at, !.doc = d]}

\* A request arrives, and its key is looked up.
Arrive(u) ==
  /\ u.at = "reserve" /\ u.doc = None
  /\ \A v \in pending : v.request # u.request
  /\ project # "deleted"
  /\ u.target # None => tx[u.target] \notin {"none", "deleted"}
  /\ \A d \in UnderKey(u.key) : Same(d, u) /\ d \notin deleted

\* Its upload is complete already, which is the answer whatever has become of
\* the project and of the transaction, ...
AnswerCompleted(u) ==
  /\ Arrive(u)
  /\ \E d \in UnderKey(u.key) \intersect complete : Answer(u, d)
  /\ UNCHANGED <<project, tx, row, complete, deleted, stored, announced, pending>>

\* ... or it is to be done.
Start(u) ==
  /\ Arrive(u)
  /\ UnderKey(u.key) \intersect complete = {}
  /\ project = "open"
  /\ TakesDocuments(u.target)
  /\ pending' = pending \union {u}
  /\ UNCHANGED <<project, tx, row, complete, deleted, stored, announced, answers>>

\* ReserveDocumentUpload inserts the row, ...
Reserve(u, d) ==
  /\ u \in pending /\ u.at = "reserve"
  /\ project = "open"
  /\ UnderKey(u.key) = {} /\ d \notin Reserved
  /\ key' = [key EXCEPT ![d] = u.key]
  /\ content' = [content EXCEPT ![d] = u.content]
  /\ link' = [link EXCEPT ![d] = u.target]
  /\ GoOn(u, "put", d)
  /\ UNCHANGED <<project, tx, complete, deleted, stored, announced, answers>>

\* ... or the row that another request has inserted is found, and the request
\* is answered with it or stores the object as well.
Join(u, d) ==
  /\ u \in pending /\ u.at = "reserve"
  /\ project = "open"
  /\ d \in UnderKey(u.key)
  /\ Same(d, u) /\ d \notin deleted
  /\ IF d \in complete
     THEN Answer(u, d) /\ pending' = pending \ {u}
     ELSE GoOn(u, "put", d) /\ UNCHANGED answers
  /\ UNCHANGED <<project, tx, row, complete, deleted, stored, announced>>

Put(u) ==
  /\ u \in pending /\ u.at = "put"
  /\ project = "open"
  /\ TakesDocuments(u.target)
  /\ stored' = [stored EXCEPT ![u.doc] = u.content]
  /\ GoOn(u, "complete", u.doc)
  /\ UNCHANGED <<project, tx, row, complete, deleted, announced, answers>>

CompleteAgain(u) ==
  /\ u \in pending /\ u.at = "complete"
  /\ project = "open"
  /\ TakesDocuments(u.target)
  /\ u.doc \notin deleted
  /\ complete' = complete \union {u.doc}
  /\ announced' = [announced EXCEPT ![u.doc] = @ + 1]
  /\ Answer(u, u.doc)
  /\ pending' = pending \ {u}
  /\ UNCHANGED <<project, tx, row, deleted, stored>>

\* The second transaction completes the row, unless another request has.
Complete(u) ==
  /\ u \in pending /\ u.at = "complete"
  /\ project = "open"
  /\ TakesDocuments(u.target)
  /\ u.doc \notin deleted
  /\ complete' = complete \union {u.doc}
  /\ announced' = IF u.doc \in complete THEN announced
                  ELSE [announced EXCEPT ![u.doc] = @ + 1]
  /\ Answer(u, u.doc)
  /\ pending' = pending \ {u}
  /\ UNCHANGED <<project, tx, row, deleted, stored>>

\* A check refuses the request, a step fails, or the process dies.
Abandon(u) ==
  /\ u \in pending
  /\ pending' = pending \ {u}
  /\ UNCHANGED <<project, tx, row, complete, deleted, stored, announced, answers>>

-----------------------------------------------------------------------------
(* What else happens to the project, its transactions and documents.       *)

DeleteReserved(d) ==
  /\ d \in Reserved \ deleted
  /\ TakesDocuments(link[d])
  /\ deleted' = deleted \union {d}
  /\ UNCHANGED <<project, tx, row, complete, stored, announced, pending, answers>>

DeleteDocument(d) ==
  /\ Live(d)
  /\ TakesDocuments(link[d])
  /\ deleted' = deleted \union {d}
  /\ UNCHANGED <<project, tx, row, complete, stored, announced, pending, answers>>

\* The OCR consumer creates a draft for a document of the project.
CreateDraft(d) ==
  /\ Live(d)
  /\ link[d] = None /\ tx[d] = "none"
  /\ project = "open"
  /\ tx' = [tx EXCEPT ![d] = "draft"]
  /\ link' = [link EXCEPT ![d] = d]
  /\ UNCHANGED <<project, key, content, complete, deleted, stored, announced,
                 pending, answers>>

SubmitTransaction(t) ==
  /\ tx[t] = "draft"
  /\ \E d \in Documents : Live(d) /\ link[d] = t
  /\ tx' = [tx EXCEPT ![t] = "submitted"]
  /\ UNCHANGED <<project, row, complete, deleted, stored, announced, pending, answers>>

DeleteTransaction(t) ==
  /\ tx[t] = "draft"
  /\ tx' = [tx EXCEPT ![t] = "deleted"]
  /\ UNCHANGED <<project, row, complete, deleted, stored, announced, pending, answers>>

SetProject(from, to) ==
  /\ project \in from
  /\ project' = to
  /\ UNCHANGED <<tx, row, complete, deleted, stored, announced, pending, answers>>

ArchiveProject == SetProject({"open"}, "archived")

UnarchiveProject == SetProject({"archived"}, "open")

DeleteProjectWithoutUploads ==
  /\ \A t \in Documents : tx[t] \in {"none", "deleted"}
  /\ \A d \in Documents : ~Live(d)
  /\ SetProject({"open", "archived"}, "deleted")

\* It has no transactions, and no document rows of whatever state.
DeleteProject ==
  /\ \A t \in Documents : tx[t] \in {"none", "deleted"}
  /\ Reserved = {}
  /\ SetProject({"open", "archived"}, "deleted")

-----------------------------------------------------------------------------
Next ==
  \/ \E u \in Uploads : AnswerCompleted(u) \/ Start(u)
  \/ \E u \in pending : Put(u) \/ Complete(u) \/ Abandon(u)
  \/ \E u \in pending, d \in Documents : Reserve(u, d) \/ Join(u, d)
  \/ \E d \in Documents : DeleteDocument(d) \/ CreateDraft(d)
  \/ \E t \in Documents : SubmitTransaction(t) \/ DeleteTransaction(t)
  \/ ArchiveProject \/ UnarchiveProject \/ DeleteProject

Spec == Init /\ [][Next]_vars

-----------------------------------------------------------------------------
(* Properties.                                                             *)

\* A complete document is backed by the object it describes, although several
\* requests store objects under one path and some never finish.
StoredIsDescribed == \A d \in complete : stored[d] = content[d]

\* What has been submitted keeps its documents: an upload that began while the
\* transaction was a draft does not slip in, and no document is taken out.
EvidenceIsFrozen ==
  [][\A t \in Documents : tx[t] = "submitted" =>
       {d \in Documents : Live(d) /\ link[d] = t}' =
       {d \in Documents : Live(d) /\ link[d] = t}]_vars

\* A deleted project has neither document rows nor transactions, however far
\* an upload was when it was deleted; an archived one gains none.
ClosedProjectTakesNothing ==
  [][/\ project = "deleted" => Reserved = {} /\ Reserved' = {}
     /\ project # "open" =>
          /\ complete' = complete
          /\ \A t \in Documents : tx[t] = "none" => tx'[t] = "none"]_vars

OutcomeOf(k) ==
  IF \E d \in UnderKey(k) : d \in complete
  THEN LET d == CHOOSE d \in UnderKey(k) : d \in complete
       IN  IF d \in deleted THEN "withdrawn" ELSE content[d]
  ELSE None

AnnouncedOf(k) ==
  LET counts == {announced[d] : d \in UnderKey(k)}
  IN  IF counts = {} THEN 0 ELSE CHOOSE n \in counts : \A m \in counts : m <= n

Promise == INSTANCE IdempotentUpload WITH
  outcome <- [k \in Keys |-> OutcomeOf(k)],
  announced <- [k \in Keys |-> AnnouncedOf(k)],
  answers <- {<<a.key, a.content>> : a \in answers}

\* However often and however concurrently an upload is repeated, it takes
\* effect and is announced once, and only the same content is answered.
UploadsOnce == Promise!Spec

\* Stated by service.go:160-161: "a completed retry can return its result".
\* Here: whoever was answered would be answered again, unless the document was
\* deleted.
CompletedRetryIsAnswered ==
  \A a \in answers : a.doc \notin deleted => Same(a.doc, a)
=============================================================================
