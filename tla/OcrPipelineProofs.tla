------------------------- MODULE OcrPipelineProofs -------------------------
(***************************************************************************)
(* Theorems about OcrPipeline for every set of documents, drafts,          *)
(* consumers and sweepers, every batch size and every number of faults:    *)
(* its safety.                                                             *)
(***************************************************************************)
EXTENDS OcrPipeline, FiniteSetTheorems, TLAPS

-----------------------------------------------------------------------------
(* Type correctness, by parts.                                             *)

RowTypes ==
  /\ ocr \in [Documents -> {"none", "pending", "processing"} \union Settled]
  /\ deleted \subseteq Documents
  /\ link \in [Documents -> Transactions \union {NoTx}]
  /\ tx \in [Transactions -> {"none", "draft", "submitted", "deleted"}]
  /\ booked \in [Documents -> [Transactions -> Nat]]

SubmitTypes ==
  /\ jobKnown \subseteq jobs
  /\ calling \subseteq Documents
  /\ answered \subseteq jobs
  /\ jobs \subseteq Documents

GatewayTypes ==
  /\ result \in [Documents -> Results \union {"none"}]
  /\ topic \subseteq {d \in Documents : result[d] # "none"}
  /\ writable \in BOOLEAN
  /\ faults \in 0..MaxFaults

HandlerTypes ==
  /\ pc \in [Handlers -> {"idle", "leased", "claimed", "done"}]
  /\ on \in [Handlers -> Documents \union {NoTx}]
  /\ \A h \in Handlers : pc[h] = "idle" <=> on[h] = NoTx

BatchTypes == batch \in [Sweepers -> SUBSET Documents]

LEMMA TypeParts ==
  /\ TypeOK <=> RowTypes /\ SubmitTypes /\ GatewayTypes /\ HandlerTypes /\ BatchTypes
  /\ TypeOK' <=> RowTypes' /\ SubmitTypes' /\ GatewayTypes' /\ HandlerTypes' /\ BatchTypes'
BY DEF TypeOK, RowTypes, SubmitTypes, GatewayTypes, HandlerTypes, BatchTypes

LEMMA FaultTypes ==
  ASSUME GatewayTypes, Fault, UNCHANGED <<result, topic, writable>>
  PROVE  GatewayTypes'
BY FaultsAssumption DEF GatewayTypes, Fault

LEMMA EnterTypes ==
  ASSUME HandlerTypes, NEW h \in Handlers, NEW d \in Documents,
         NEW state \in {"idle", "leased", "claimed", "done"}, Enter(h, d, state)
  PROVE  HandlerTypes'
<1>1. d # NoTx
  BY NamesAssumption
<1>2. /\ pc' = [pc EXCEPT ![h] = state]
      /\ on' = [on EXCEPT ![h] = IF state = "idle" THEN NoTx ELSE d]
  BY DEF Enter
<1> QED
  BY <1>1, <1>2 DEF HandlerTypes

LEMMA ReturnTypes ==
  ASSUME HandlerTypes, NEW h \in Handlers, NEW d \in Documents, Return(h, d)
  PROVE  HandlerTypes'
<1>1. Enter(h, d, IF h \in Consumers THEN "done" ELSE "idle")
  BY DEF Return
<1>2. CASE h \in Consumers
  BY <1>1, <1>2, EnterTypes
<1>3. CASE h \notin Consumers
  BY <1>1, <1>3, EnterTypes
<1> QED
  BY <1>2, <1>3

LEMMA BeginTypes ==
  ASSUME HandlerTypes, NEW h \in Handlers, NEW d \in Documents, Begin(h, d)
  PROVE  HandlerTypes'
BY EnterTypes, ReturnTypes DEF Begin

\* A handler that is not idle is at a document.
LEMMA OnTypes ==
  ASSUME HandlerTypes, NEW h \in Handlers, pc[h] # "idle"
  PROVE  on[h] \in Documents
BY DEF HandlerTypes

LEMMA Unchanged ==
  /\ UNCHANGED rows => UNCHANGED <<ocr, deleted, link, jobKnown, tx, booked>>
  /\ UNCHANGED submits => UNCHANGED <<calling, answered, jobs>>
  /\ UNCHANGED gateway => UNCHANGED <<result, topic>>
  /\ UNCHANGED handlers => UNCHANGED <<pc, on, batch>>
BY DEF rows, submits, gateway, handlers

LEMMA SameTypes ==
  /\ RowTypes /\ UNCHANGED <<ocr, deleted, link, tx, booked>> => RowTypes'
  /\ SubmitTypes /\ UNCHANGED <<jobKnown, calling, answered, jobs>> => SubmitTypes'
  /\ GatewayTypes /\ UNCHANGED <<result, topic, writable, faults>> => GatewayTypes'
  /\ HandlerTypes /\ UNCHANGED <<pc, on>> => HandlerTypes'
  /\ BatchTypes /\ UNCHANGED batch => BatchTypes'
BY DEF RowTypes, SubmitTypes, GatewayTypes, HandlerTypes, BatchTypes

LEMMA UsersTypes ==
  ASSUME TypeOK, Users
  PROVE  TypeOK'
<1> DEFINE Half ==
      /\ UNCHANGED <<jobKnown, answered, jobs, result, topic, writable, pc, on, batch, faults>>
      /\ RowTypes' /\ calling' \subseteq Documents
<1>1. RowTypes /\ SubmitTypes /\ GatewayTypes /\ HandlerTypes /\ BatchTypes
  BY TypeParts
<1>2. Half
  <2>1. ASSUME NEW d \in Documents, NEW t \in Transactions \union {NoTx}, CompleteUpload(d, t)
        PROVE  Half
    BY <1>1, <2>1, Unchanged DEF CompleteUpload, RowTypes, SubmitTypes
  <2>2. ASSUME NEW d \in Documents, DeleteDocument(d)
        PROVE  Half
    BY <1>1, <2>2, Unchanged DEF DeleteDocument, RowTypes, SubmitTypes
  <2>3. ASSUME NEW t \in Transactions, SubmitTransaction(t) \/ DeleteTransaction(t)
        PROVE  Half
    BY <1>1, <2>3, Unchanged DEF SubmitTransaction, DeleteTransaction, RowTypes, SubmitTypes
  <2> QED
    BY <2>1, <2>2, <2>3 DEF Users
<1>3. SubmitTypes'
  BY <1>1, <1>2 DEF SubmitTypes
<1> QED
  BY <1>1, <1>2, <1>3, SameTypes, TypeParts

LEMMA SubmissionTypes ==
  ASSUME TypeOK, Submission
  PROVE  TypeOK'
<1>1. RowTypes /\ SubmitTypes /\ GatewayTypes /\ HandlerTypes /\ BatchTypes
  BY TypeParts
<1>2. PICK d \in Documents :
        \/ SubmitDocument(d) \/ SubmitFails(d)
        \/ SetOcrDocumentID(d) \/ SetOcrDocumentIDLost(d) \/ RetryUnsubmitted(d)
  BY DEF Submission
<1>3. UNCHANGED <<ocr, deleted, link, tx, booked, result, topic, writable, pc, on, batch>>
  BY <1>2, Unchanged DEF SubmitDocument, SubmitFails, SetOcrDocumentID,
                         SetOcrDocumentIDLost, RetryUnsubmitted
<1>4. SubmitTypes'
  BY <1>1, <1>2, Unchanged DEF SubmitTypes, SubmitDocument, SubmitFails, SetOcrDocumentID,
                               SetOcrDocumentIDLost, RetryUnsubmitted
<1>5. GatewayTypes'
  <2>1. Fault \/ faults' = faults
    BY <1>2 DEF SubmitDocument, SubmitFails, SetOcrDocumentID, SetOcrDocumentIDLost,
                RetryUnsubmitted
  <2> QED
    BY <1>1, <1>3, <2>1, FaultTypes, SameTypes
<1> QED
  BY <1>1, <1>3, <1>4, <1>5, SameTypes, TypeParts

LEMMA EnvironmentTypes ==
  ASSUME TypeOK, Environment
  PROVE  TypeOK'
<1>1. RowTypes /\ SubmitTypes /\ GatewayTypes /\ HandlerTypes /\ BatchTypes
  BY TypeParts
<1>2. UNCHANGED <<ocr, deleted, link, jobKnown, tx, booked, calling, answered, jobs, pc, on, batch>>
  BY Unchanged DEF Environment, RouteResult, LoseEvent, RepeatEvent, Freeze, Unfreeze
<1>3. GatewayTypes'
  <2>1. ASSUME NEW d \in Documents, NEW r \in Results, RouteResult(d, r)
        PROVE  GatewayTypes'
    <3>1. /\ result' = [result EXCEPT ![d] = r] /\ topic' = topic \union {d}
          /\ UNCHANGED <<writable, faults>>
      BY <2>1 DEF RouteResult
    <3>2. r # "none"
      BY DEF Results
    <3> QED
      BY <1>1, <3>1, <3>2 DEF GatewayTypes
  <2>2. ASSUME NEW d \in Documents, LoseEvent(d) \/ RepeatEvent(d)
        PROVE  GatewayTypes'
    BY <1>1, <2>2, FaultsAssumption DEF GatewayTypes, LoseEvent, RepeatEvent, Fault
  <2>3. CASE Freeze \/ Unfreeze
    <3>1. UNCHANGED <<result, topic>> /\ writable' \in BOOLEAN
      BY <2>3, Unchanged DEF Freeze, Unfreeze
    <3>2. faults' = faults \/ Fault
      BY <2>3 DEF Freeze, Unfreeze
    <3> QED
      BY <1>1, <3>1, <3>2, FaultsAssumption DEF GatewayTypes, Fault
  <2> QED
    BY <2>1, <2>2, <2>3 DEF Environment
<1> QED
  BY <1>1, <1>2, <1>3, SameTypes, TypeParts

\* The steps of Handle that settle a document.
Settling(h, d) ==
  \/ FailDocumentOCR(h, d) \/ AttachItem(h, d) \/ AttachForReview(h, d)
  \/ CreateDraft(h, d) \/ ParkForReview(h, d)

LEMMA ApplyTypes ==
  ASSUME TypeOK, NEW h \in Handlers, Apply(h)
  PROVE  TypeOK'
<1>1. RowTypes /\ SubmitTypes /\ GatewayTypes /\ HandlerTypes /\ BatchTypes
  BY TypeParts
<1>2. PICK d \in Documents : Settling(h, d) \/ GiveUp(h, d)
  BY DEF Apply, Settling
<1>3. /\ Return(h, d)
      /\ UNCHANGED <<deleted, jobKnown, calling, answered, jobs, result, topic, writable,
                     batch, faults>>
  BY <1>2, Unchanged DEF Settling, GiveUp, FailDocumentOCR, AttachItem, AttachForReview,
                         CreateDraft, ParkForReview, Settle
<1>4. RowTypes'
  <2>1. CASE GiveUp(h, d)
    BY <1>1, <2>1, Unchanged, SameTypes DEF GiveUp
  <2>2. CASE FailDocumentOCR(h, d) \/ AttachForReview(h, d) \/ ParkForReview(h, d)
    BY <1>1, <2>2 DEF RowTypes, FailDocumentOCR, AttachForReview, ParkForReview, Settle, Settled
  <2>3. CASE AttachItem(h, d)
    <3>1. /\ ocr' = [ocr EXCEPT ![d] = "completed"]
          /\ booked' = [booked EXCEPT ![d][link[d]] = @ + 1]
          /\ link[d] # NoTx /\ UNCHANGED <<deleted, link, tx>>
      BY <2>3 DEF AttachItem, Settle, Book
    <3>2. link[d] \in Transactions
      BY <1>1, <3>1 DEF RowTypes
    <3>3. booked' \in [Documents -> [Transactions -> Nat]]
      BY <1>1, <3>1, <3>2 DEF RowTypes
    <3> QED
      BY <1>1, <3>1, <3>3 DEF RowTypes, Settled
  <2>4. CASE CreateDraft(h, d)
    <3>1. /\ ocr' = [ocr EXCEPT ![d] = "completed"]
          /\ booked' = [booked EXCEPT ![d][d] = @ + 1]
          /\ tx' = [tx EXCEPT ![d] = "draft"] /\ link' = [link EXCEPT ![d] = d]
          /\ deleted' = deleted
      BY <2>4 DEF CreateDraft, Settle, Book
    <3>2. d \in Transactions
      BY DEF Transactions
    <3>3. booked' \in [Documents -> [Transactions -> Nat]]
      BY <1>1, <3>1, <3>2 DEF RowTypes
    <3>4. tx' \in [Transactions -> {"none", "draft", "submitted", "deleted"}]
      BY <1>1, <3>1, <3>2 DEF RowTypes
    <3>5. link' \in [Documents -> Transactions \union {NoTx}]
      BY <1>1, <3>1, <3>2 DEF RowTypes
    <3>6. ocr' \in [Documents -> {"none", "pending", "processing"} \union Settled]
      BY <1>1, <3>1 DEF RowTypes, Settled
    <3> QED
      BY <1>1, <3>1, <3>3, <3>4, <3>5, <3>6 DEF RowTypes
  <2> QED
    BY <1>2, <2>1, <2>2, <2>3, <2>4 DEF Settling
<1> QED
  BY <1>1, <1>3, <1>4, ReturnTypes, SameTypes, TypeParts

LEMMA HandlingTypes ==
  ASSUME TypeOK, Handling
  PROVE  TypeOK'
<1>1. RowTypes /\ SubmitTypes /\ GatewayTypes /\ HandlerTypes /\ BatchTypes
  BY TypeParts
<1>2. Consumers \subseteq Handlers /\ Sweepers \subseteq Handlers
  BY DEF Handlers
<1>3. ASSUME NEW c \in Consumers, CommitRecord(c)
      PROVE  TypeOK'
  <2>1. HandlerTypes'
    BY <1>1, <1>2, <1>3, OnTypes, EnterTypes DEF CommitRecord
  <2>2. GatewayTypes'
    BY <1>1, <1>3 DEF CommitRecord, GatewayTypes
  <2> QED
    BY <1>1, <1>3, <2>1, <2>2, Unchanged, SameTypes, TypeParts DEF CommitRecord
<1>4. ASSUME NEW c \in Consumers, NEW d \in Documents, Receive(c, d)
      PROVE  TypeOK'
  <2>1. HandlerTypes'
    BY <1>1, <1>2, <1>4, BeginTypes DEF Receive
  <2> QED
    BY <1>1, <1>4, <2>1, Unchanged, SameTypes, TypeParts DEF Receive
<1>5. ASSUME NEW s \in Sweepers, ListStale(s)
      PROVE  TypeOK'
  <2>1. BatchTypes'
    BY <1>1, <1>5 DEF ListStale, BatchTypes, Oldest, Stale
  <2> QED
    BY <1>1, <1>5, <2>1, Unchanged, SameTypes, TypeParts DEF ListStale
<1>6. ASSUME NEW s \in Sweepers, NEW d \in Documents, Ask(s, d)
      PROVE  TypeOK'
  <2>1. BatchTypes'
    BY <1>1, <1>6 DEF Ask, BatchTypes
  <2>2. HandlerTypes'
    BY <1>1, <1>2, <1>6, BeginTypes, SameTypes DEF Ask
  <2> QED
    BY <1>1, <1>6, <2>1, <2>2, Unchanged, SameTypes, TypeParts DEF Ask
<1>7. ASSUME NEW h \in Handlers, Claim(h)
      PROVE  TypeOK'
  <2>1. on[h] \in Documents
    BY <1>1, <1>7, OnTypes DEF Claim
  <2>2. /\ \/ ocr' = [ocr EXCEPT ![on[h]] = "processing"] /\ Enter(h, on[h], "claimed")
           \/ Return(h, on[h]) /\ ocr' = ocr
        /\ UNCHANGED <<deleted, link, jobKnown, tx, booked, submits, gateway, writable,
                       batch, faults>>
    BY <1>7 DEF Claim
  <2>3. HandlerTypes'
    BY <1>1, <2>1, <2>2, EnterTypes, ReturnTypes
  <2>4. RowTypes'
    BY <1>1, <2>1, <2>2 DEF RowTypes
  <2> QED
    BY <1>1, <2>2, <2>3, <2>4, Unchanged, SameTypes, TypeParts
<1>8. ASSUME NEW h \in Handlers, HandleFails(h)
      PROVE  TypeOK'
  <2>1. HandlerTypes'
    BY <1>1, <1>8, OnTypes, ReturnTypes DEF HandleFails
  <2>2. GatewayTypes'
    BY <1>1, <1>8, Unchanged, FaultTypes DEF HandleFails
  <2> QED
    BY <1>1, <1>8, <2>1, <2>2, Unchanged, SameTypes, TypeParts DEF HandleFails
<1>9. ASSUME NEW h \in Handlers, Crash(h)
      PROVE  TypeOK'
  <2>1. HandlerTypes'
    BY <1>1, <1>9, OnTypes, EnterTypes DEF Crash
  <2>2. GatewayTypes'
    BY <1>1, <1>9, Unchanged, FaultTypes DEF Crash
  <2>3. BatchTypes'
    BY <1>1, <1>9 DEF Crash, BatchTypes
  <2> QED
    BY <1>1, <1>9, <2>1, <2>2, <2>3, Unchanged, SameTypes, TypeParts DEF Crash
<1> QED
  BY <1>3, <1>4, <1>5, <1>6, <1>7, <1>8, <1>9, ApplyTypes DEF Handling

\* Every variable keeps its type.
THEOREM TypeCorrect == Spec => []TypeOK
<1>1. Init => TypeOK
  BY FaultsAssumption DEF Init, TypeOK, Transactions
<1>2. TypeOK /\ [Next]_vars => TypeOK'
  <2>1. ASSUME UNCHANGED vars, TypeOK
        PROVE  TypeOK'
    BY <2>1 DEF vars, rows, submits, gateway, handlers, TypeOK
  <2> QED
    BY <2>1, UsersTypes, SubmissionTypes, EnvironmentTypes, HandlingTypes DEF Next
<1> QED
  BY <1>1, <1>2, PTL DEF Spec

-----------------------------------------------------------------------------
(* Bookings.                                                               *)

\* Inductive: what is booked is in order; a draft that OCR creates stems from a
\* completed document; what is deleted was uploaded.
Books ==
  /\ TypeOK
  /\ \A d \in Documents, t \in Transactions : booked[d][t] <= 1
  /\ CompletedIsBooked
  /\ \A d \in Documents : tx[d] # "none" => ocr[d] = "completed"
  /\ \A d \in deleted : ocr[d] # "none"

\* What a step may do to the rows.
Upload(d, t) ==
  /\ ocr[d] = "none" /\ ocr' = [ocr EXCEPT ![d] = "pending"]
  /\ link' = [link EXCEPT ![d] = t] /\ UNCHANGED <<deleted, tx, booked>>

Discard(d) ==
  /\ ocr[d] # "none" /\ deleted' = deleted \union {d}
  /\ UNCHANGED <<ocr, link, tx, booked>>

Move(t, state) ==
  /\ tx[t] = "draft" /\ tx' = [tx EXCEPT ![t] = state]
  /\ UNCHANGED <<ocr, deleted, link, booked>>

Take(d) ==
  /\ ocr[d] = "pending" /\ d \notin deleted
  /\ ocr' = [ocr EXCEPT ![d] = "processing"]
  /\ UNCHANGED <<deleted, link, tx, booked>>

Part(d, state) ==
  /\ ocr[d] = "processing" /\ d \notin deleted
  /\ ocr' = [ocr EXCEPT ![d] = state]
  /\ UNCHANGED <<deleted, link, tx, booked>>

Attach(d) ==
  /\ ocr[d] = "processing" /\ d \notin deleted
  /\ link[d] # NoTx /\ tx[link[d]] = "draft"
  /\ booked' = [booked EXCEPT ![d][link[d]] = @ + 1]
  /\ ocr' = [ocr EXCEPT ![d] = "completed"]
  /\ UNCHANGED <<deleted, link, tx>>

Draft(d) ==
  /\ ocr[d] = "processing" /\ d \notin deleted
  /\ booked' = [booked EXCEPT ![d][d] = @ + 1]
  /\ tx' = [tx EXCEPT ![d] = "draft"] /\ link' = [link EXCEPT ![d] = d]
  /\ ocr' = [ocr EXCEPT ![d] = "completed"]
  /\ deleted' = deleted

LEMMA RowSteps ==
  ASSUME TypeOK, Next
  PROVE  \/ UNCHANGED <<ocr, deleted, link, tx, booked>>
         \/ \E d \in Documents, t \in Transactions \union {NoTx} : Upload(d, t)
         \/ \E d \in Documents :
              \/ Discard(d) \/ Take(d) \/ Attach(d) \/ Draft(d)
              \/ \E state \in {"failed", "needs_review"} : Part(d, state)
         \/ \E t \in Transactions, state \in {"submitted", "deleted"} : Move(t, state)
<1>1. ASSUME NEW d \in Documents, NEW t \in Transactions \union {NoTx}, CompleteUpload(d, t)
      PROVE  Upload(d, t)
  BY <1>1 DEF CompleteUpload, Upload
<1>2. ASSUME NEW d \in Documents, DeleteDocument(d)
      PROVE  Discard(d)
  BY <1>2 DEF DeleteDocument, Discard, Live
<1>3. ASSUME NEW t \in Transactions, SubmitTransaction(t) \/ DeleteTransaction(t)
      PROVE  \E state \in {"submitted", "deleted"} : Move(t, state)
  BY <1>3 DEF SubmitTransaction, DeleteTransaction, Move
<1>4. ASSUME Submission \/ Environment
      PROVE  UNCHANGED <<ocr, deleted, link, tx, booked>>
  BY <1>4, Unchanged
     DEF Submission, SubmitDocument, SubmitFails, SetOcrDocumentID, SetOcrDocumentIDLost,
         RetryUnsubmitted, Environment, RouteResult, LoseEvent, RepeatEvent, Freeze, Unfreeze
<1>5. ASSUME NEW h \in Handlers, Claim(h)
      PROVE  \/ UNCHANGED <<ocr, deleted, link, tx, booked>>
             \/ \E d \in Documents : Take(d)
  <2>1. on[h] \in Documents
    BY <1>5, TypeParts, OnTypes DEF Claim
  <2> QED
    BY <1>5, <2>1 DEF Claim, Take, Live
<1>6. ASSUME NEW h \in Handlers, NEW d \in Documents, FailDocumentOCR(h, d)
      PROVE  Part(d, "failed")
  BY <1>6 DEF FailDocumentOCR, Applies, Live, Settle, Part
<1>7. ASSUME NEW h \in Handlers, NEW d \in Documents, AttachForReview(h, d) \/ ParkForReview(h, d)
      PROVE  Part(d, "needs_review")
  BY <1>7 DEF AttachForReview, ParkForReview, Applies, Live, Settle, Part
<1>8. ASSUME NEW h \in Handlers, NEW d \in Documents, AttachItem(h, d)
      PROVE  Attach(d)
  BY <1>8 DEF AttachItem, Applies, Live, Settle, TakesItems, Book, Attach
<1>9. ASSUME NEW h \in Handlers, NEW d \in Documents, CreateDraft(h, d)
      PROVE  Draft(d)
  BY <1>9 DEF CreateDraft, Applies, Live, Settle, Book, Draft
<1>10. ASSUME NEW h \in Handlers, NEW d \in Documents, GiveUp(h, d)
       PROVE  UNCHANGED <<ocr, deleted, link, tx, booked>>
  BY <1>10, Unchanged DEF GiveUp
<1>11. ASSUME NEW h \in Handlers, HandleFails(h) \/ Crash(h)
       PROVE  UNCHANGED <<ocr, deleted, link, tx, booked>>
  BY <1>11, Unchanged DEF HandleFails, Crash
<1>12. ASSUME NEW c \in Consumers, CommitRecord(c) \/ \E d \in Documents : Receive(c, d)
       PROVE  UNCHANGED <<ocr, deleted, link, tx, booked>>
  BY <1>12, Unchanged DEF CommitRecord, Receive
<1>13. ASSUME NEW s \in Sweepers, ListStale(s) \/ \E d \in Documents : Ask(s, d)
       PROVE  UNCHANGED <<ocr, deleted, link, tx, booked>>
  BY <1>13, Unchanged DEF ListStale, Ask
<1>14. CASE Users
  BY <1>1, <1>2, <1>3, <1>14 DEF Users
<1>15. ASSUME NEW h \in Handlers, Apply(h)
       PROVE  \/ UNCHANGED <<ocr, deleted, link, tx, booked>>
              \/ \E d \in Documents :
                   \/ Attach(d) \/ Draft(d)
                   \/ \E state \in {"failed", "needs_review"} : Part(d, state)
  BY <1>6, <1>7, <1>8, <1>9, <1>10, <1>15 DEF Apply
<1>16. CASE Handling
  BY <1>5, <1>11, <1>12, <1>13, <1>15, <1>16 DEF Handling
<1> QED
  BY <1>4, <1>14, <1>16 DEF Next

\* A document that has become final stays as it is, and only a draft gets items.
LEMMA FinalStep ==
  ASSUME Books, Next
  PROVE  /\ \A d \in Documents :
              ocr[d] \in Settled \/ d \in deleted =>
                ocr'[d] = ocr[d] /\ link'[d] = link[d] /\ booked'[d] = booked[d]
         /\ \A d \in Documents, t \in Transactions :
              booked'[d][t] # booked[d][t] => tx[t] \in {"none", "draft"} /\ tx'[t] = "draft"
<1> DEFINE Goal == /\ \A d \in Documents :
                        ocr[d] \in Settled \/ d \in deleted =>
                          ocr'[d] = ocr[d] /\ link'[d] = link[d] /\ booked'[d] = booked[d]
                   /\ \A d \in Documents, t \in Transactions :
                        booked'[d][t] # booked[d][t] =>
                          tx[t] \in {"none", "draft"} /\ tx'[t] = "draft"
<1>0. RowTypes /\ Documents \subseteq Transactions
  BY TypeParts DEF Books, Transactions
<1>1. CASE UNCHANGED <<ocr, deleted, link, tx, booked>>
  BY <1>1
<1>2. ASSUME NEW d \in Documents, NEW t \in Transactions \union {NoTx}, Upload(d, t)
      PROVE  Goal
  BY <1>0, <1>2 DEF Upload, RowTypes, Books, Settled
<1>3. ASSUME NEW d \in Documents, Discard(d)
      PROVE  Goal
  BY <1>3 DEF Discard
<1>4. ASSUME NEW d \in Documents, NEW state,
             Take(d) \/ Part(d, state)
      PROVE  Goal
  BY <1>0, <1>4 DEF Take, Part, RowTypes, Settled
<1>5. ASSUME NEW d \in Documents, Attach(d)
      PROVE  Goal
  <2>1. \A e \in Documents : e # d => ocr'[e] = ocr[e] /\ booked'[e] = booked[e]
    BY <1>0, <1>5 DEF Attach, RowTypes
  <2>2. \A t \in Transactions : t # link[d] => booked'[d][t] = booked[d][t]
    BY <1>0, <1>5 DEF Attach, RowTypes
  <2> QED
    BY <1>5, <2>1, <2>2 DEF Attach, Settled
<1>6. ASSUME NEW d \in Documents, Draft(d)
      PROVE  Goal
  <2>1. \A e \in Documents : e # d =>
          ocr'[e] = ocr[e] /\ link'[e] = link[e] /\ booked'[e] = booked[e]
    BY <1>0, <1>6 DEF Draft, RowTypes
  <2>2. \A t \in Transactions : t # d => booked'[d][t] = booked[d][t]
    BY <1>0, <1>6 DEF Draft, RowTypes
  <2>3. tx[d] = "none" /\ tx'[d] = "draft"
    BY <1>0, <1>6 DEF Draft, RowTypes, Books
  <2> QED
    BY <1>6, <2>1, <2>2, <2>3 DEF Draft, Settled
<1>7. ASSUME NEW t \in Transactions, NEW state, Move(t, state)
      PROVE  Goal
  BY <1>7 DEF Move
<1> QED
  BY <1>1, <1>2, <1>3, <1>4, <1>5, <1>6, <1>7, RowSteps DEF Books

LEMMA BooksStep ==
  ASSUME Books, TypeOK', Next
  PROVE  Books'
<1>0. RowTypes /\ RowTypes' /\ Documents \subseteq Transactions
  BY TypeParts DEF Books, Transactions
<1>1. CASE UNCHANGED <<ocr, deleted, link, tx, booked>>
  BY <1>1 DEF Books, CompletedIsBooked, Bookings
<1>2. ASSUME NEW d \in Documents, NEW t \in Transactions \union {NoTx}, Upload(d, t)
      PROVE  Books'
  <2>1. \A e \in Documents : e # d => ocr'[e] = ocr[e] /\ link'[e] = link[e]
    BY <1>0, <1>2 DEF Upload, RowTypes
  <2>2. ocr'[d] = "pending" /\ ocr[d] = "none" /\ UNCHANGED <<deleted, tx, booked>>
    BY <1>0, <1>2 DEF Upload, RowTypes
  <2>3. CompletedIsBooked'
    BY <2>1, <2>2 DEF Books, CompletedIsBooked, Bookings
  <2>4. deleted \subseteq Documents
    BY <1>0 DEF RowTypes
  <2> QED
    BY <2>1, <2>2, <2>3, <2>4 DEF Books
<1>3. ASSUME NEW d \in Documents, Discard(d)
      PROVE  Books'
  BY <1>3 DEF Discard, Books, CompletedIsBooked, Bookings
<1>4. ASSUME NEW d \in Documents,
             Take(d) \/ \E state \in {"failed", "needs_review"} : Part(d, state)
      PROVE  Books'
  <2>1. \A e \in Documents : e # d => ocr'[e] = ocr[e]
    BY <1>0, <1>4 DEF Take, Part, RowTypes
  <2>2. /\ ocr'[d] \in {"processing", "failed", "needs_review"}
        /\ ocr[d] \in {"pending", "processing"}
        /\ UNCHANGED <<deleted, link, tx, booked>>
    BY <1>0, <1>4 DEF Take, Part, RowTypes
  <2>3. CompletedIsBooked'
    BY <2>1, <2>2 DEF Books, CompletedIsBooked, Bookings
  <2>4. deleted \subseteq Documents
    BY <1>0 DEF RowTypes
  <2> QED
    BY <2>1, <2>2, <2>3, <2>4 DEF Books
<1>5. ASSUME NEW d \in Documents, Attach(d) \/ Draft(d)
      PROVE  Books'
  <2>1. PICK t \in Transactions :
          /\ booked' = [booked EXCEPT ![d][t] = @ + 1]
          /\ link' = [link EXCEPT ![d] = t]
          /\ \A e \in Documents : tx'[e] # tx[e] => e = d
    <3>1. CASE Attach(d)
      <4>1. link[d] \in Transactions /\ link' = [link EXCEPT ![d] = link[d]]
        BY <1>0, <3>1 DEF Attach, RowTypes
      <4> QED
        BY <3>1, <4>1 DEF Attach
    <3>2. CASE Draft(d)
      BY <1>0, <3>2 DEF Draft, RowTypes
    <3> QED
      BY <1>5, <3>1, <3>2
  <2>2. ocr[d] = "processing" /\ ocr' = [ocr EXCEPT ![d] = "completed"] /\ deleted' = deleted
    BY <1>5 DEF Attach, Draft
  <2>3. \A e \in Documents : e # d =>
          ocr'[e] = ocr[e] /\ link'[e] = link[e] /\ booked'[e] = booked[e]
    BY <1>0, <2>1, <2>2 DEF RowTypes
  <2>4. ocr'[d] = "completed" /\ link'[d] = t
    BY <1>0, <2>1, <2>2 DEF RowTypes
  <2>5. \A r \in Transactions : booked[d][r] = 0
    <3>1. Bookings(d) = {}
      BY <2>2 DEF Books, CompletedIsBooked
    <3> QED
      BY <1>0, <3>1 DEF Bookings, RowTypes
  <2>6. \A r \in Transactions : booked'[d][r] = IF r = t THEN 1 ELSE 0
    BY <1>0, <2>1, <2>5 DEF RowTypes
  <2>7. CompletedIsBooked'
    <3>1. Bookings(d)' = {t}
      BY <2>6 DEF Bookings
    <3>2. \A e \in Documents : e # d => Bookings(e)' = Bookings(e)
      BY <2>3 DEF Bookings
    <3> QED
      BY <2>3, <2>4, <3>1, <3>2 DEF Books, CompletedIsBooked
  <2>8. \A e \in Documents, r \in Transactions : booked'[e][r] <= 1
    BY <2>3, <2>6 DEF Books
  <2>9. \A e \in Documents : tx'[e] # "none" => ocr'[e] = "completed"
    BY <2>1, <2>3, <2>4 DEF Books
  <2>10. \A e \in deleted' : ocr'[e] # "none"
    BY <1>0, <2>2, <2>3, <2>4 DEF Books, RowTypes
  <2> QED
    BY <2>7, <2>8, <2>9, <2>10 DEF Books
<1>6. ASSUME NEW t \in Transactions, NEW state, Move(t, state)
      PROVE  Books'
  <2>1. \A d \in Documents : tx'[d] # "none" => tx[d] # "none"
    BY <1>0, <1>6 DEF Move, RowTypes
  <2> QED
    BY <1>6, <2>1 DEF Move, Books, CompletedIsBooked, Bookings
<1> QED
  BY <1>1, <1>2, <1>3, <1>4, <1>5, <1>6, RowSteps DEF Books

LEMMA BooksAlways == Spec => []Books
<1>1. Init => Books
  <2> SUFFICES ASSUME Init
               PROVE  Books
    OBVIOUS
  <2>1. TypeOK
    BY FaultsAssumption DEF Init, TypeOK, Transactions
  <2>2. Documents \subseteq Transactions /\ \A d \in Documents : d \notin OldDrafts
    BY NamesAssumption DEF Transactions
  <2>3. \A d \in Documents : Bookings(d) = {}
    BY DEF Init, Bookings
  <2> QED
    BY <2>1, <2>2, <2>3 DEF Init, Books, CompletedIsBooked
<1>2. Books /\ TypeOK' /\ [Next]_vars => Books'
  <2>1. ASSUME UNCHANGED vars, Books, TypeOK'
        PROVE  Books'
    BY <2>1 DEF vars, rows, Books, CompletedIsBooked, Bookings
  <2> QED
    BY <2>1, BooksStep
<1> QED
  BY <1>1, <1>2, TypeCorrect, PTL DEF Spec

\* A document is booked where it is linked when it is completed, and nowhere
\* otherwise.
THEOREM CompletedAndBooked == Spec => []CompletedIsBooked
<1>1. Books => CompletedIsBooked
  BY DEF Books
<1> QED
  BY <1>1, BooksAlways, PTL

\* No document is booked twice.
THEOREM NeverBookedTwice == Spec => []BookedOnce
<1>1. ASSUME Books, NEW d \in Documents
      PROVE  Cardinality(Bookings(d)) <= 1
  <2>1. Bookings(d) = {} \/ Bookings(d) = {link[d]}
    BY <1>1 DEF Books, CompletedIsBooked
  <2>2. Cardinality({}) = 0 /\ Cardinality({link[d]}) = 1
    BY FS_EmptySet, FS_Singleton
  <2> QED
    BY <2>1, <2>2
<1>2. Books => BookedOnce
  BY <1>1 DEF Books, BookedOnce
<1> QED
  BY <1>2, BooksAlways, PTL

\* Only a draft gets an item from OCR.
THEOREM SubmittedStayWhole == Spec => OnlyDraftsGrow
<1>1. Books /\ [Next]_vars =>
        [\A d \in Documents, t \in Transactions :
           booked'[d][t] # booked[d][t] => tx[t] \in {"none", "draft"} /\ tx'[t] = "draft"]_vars
  BY FinalStep
<1> QED
  BY <1>1, BooksAlways, PTL DEF Spec, OnlyDraftsGrow

\* What a document has become, it stays.
THEOREM OutcomesStay == Spec => OutcomeIsFinal
<1>1. Books /\ [Next]_vars =>
        [\A d \in Documents :
           (ocr[d] \in Settled \/ d \in deleted) =>
             /\ ocr'[d] = ocr[d]
             /\ link'[d] = link[d]
             /\ booked'[d] = booked[d]]_vars
  BY FinalStep
<1> QED
  BY <1>1, BooksAlways, PTL DEF Spec, OutcomeIsFinal

-----------------------------------------------------------------------------
(* Claims.  A document in processing is in the hands of one handler, or    *)
(* stuck.                                                                  *)

HasClaimed(h, d) == pc[h] = "claimed" /\ on[h] = d

\* Nobody has claimed a document but one that is in processing, and nobody
\* else has claimed that.
OneClaimant ==
  \A h \in Handlers, d \in Documents : HasClaimed(h, d) =>
    /\ ocr[d] = "processing"
    /\ \A g \in Handlers : HasClaimed(g, d) => g = h

Stuck(d) ==
  /\ Live(d) /\ ocr[d] = "processing"
  /\ \A h \in Handlers : ~HasClaimed(h, d)

\* Nobody lets go of a live document he has claimed but by a failure of his, or
\* because its transaction has been deleted.
StuckHasCause ==
  [][\A d \in Documents : ~Stuck(d) /\ Stuck(d)' =>
       \E h \in Handlers :
         /\ HasClaimed(h, d)
         /\ \/ HandleFails(h) \/ Crash(h)
            \/ link[d] # NoTx /\ tx[link[d]] = "deleted"]_vars

\* Nobody takes up a document that is stuck; it can only be deleted.
StuckStays == [][\A d \in Documents : Stuck(d) => Stuck(d)' \/ d \in deleted']_vars

\* What a step may do to claims.
HandsStay ==
  /\ \A h \in Handlers, d \in Documents : HasClaimed(h, d)' <=> HasClaimed(h, d)
  /\ \A d \in Documents : ocr'[d] = "processing" <=> ocr[d] = "processing"

Claims(h, d) ==
  /\ pc[h] = "leased" /\ ocr[d] = "pending" /\ d \notin deleted
  /\ ocr' = [ocr EXCEPT ![d] = "processing"] /\ UNCHANGED <<deleted, link, tx>>
  /\ pc' = [pc EXCEPT ![h] = "claimed"] /\ on' = [on EXCEPT ![h] = d]

Leaves(h, d) ==
  /\ HasClaimed(h, d)
  /\ \A g \in Handlers, e \in Documents :
       HasClaimed(g, e)' <=> HasClaimed(g, e) /\ g # h
  /\ \A e \in Documents \ {d} : ocr'[e] = ocr[e]

\* ... with the document settled, or left as it was.
Settles(h, d) == Leaves(h, d) /\ ocr'[d] \in Settled

Drops(h, d) ==
  /\ Leaves(h, d)
  /\ ocr' = ocr
  /\ \/ HandleFails(h) \/ Crash(h)
     \/ ~(Live(d) /\ ocr[d] = "processing")
     \/ link[d] # NoTx /\ tx[link[d]] = "deleted"

\* Handler h goes to some state but claimed.
LEMMA EnterHands ==
  ASSUME HandlerTypes, NEW h \in Handlers, NEW d \in Documents,
         NEW state \in {"idle", "leased", "done"}, Enter(h, d, state)
  PROVE  \A g \in Handlers, e \in Documents :
           HasClaimed(g, e)' <=> HasClaimed(g, e) /\ g # h
BY DEF HandlerTypes, Enter, HasClaimed

LEMMA ReturnHands ==
  ASSUME HandlerTypes, NEW h \in Handlers, NEW d \in Documents, Return(h, d)
  PROVE  \A g \in Handlers, e \in Documents :
           HasClaimed(g, e)' <=> HasClaimed(g, e) /\ g # h
<1>1. Enter(h, d, "idle") \/ Enter(h, d, "done")
  BY DEF Return
<1> QED
  BY <1>1, EnterHands

LEMMA BeginHands ==
  ASSUME HandlerTypes, NEW h \in Handlers, NEW d \in Documents, pc[h] = "idle", Begin(h, d)
  PROVE  \A g \in Handlers, e \in Documents : HasClaimed(g, e)' <=> HasClaimed(g, e)
<1>1. Enter(h, d, "leased") \/ Return(h, d)
  BY DEF Begin
<1>2. \A e \in Documents : ~HasClaimed(h, e)
  BY DEF HasClaimed
<1> QED
  BY <1>1, <1>2, EnterHands, ReturnHands

LEMMA ClaimSteps ==
  ASSUME TypeOK, Next
  PROVE  \/ HandsStay
         \/ \E h \in Handlers, d \in Documents : Claims(h, d) \/ Settles(h, d) \/ Drops(h, d)
<1>0. RowTypes /\ HandlerTypes /\ GatewayTypes
  BY TypeParts
<1>1. ASSUME UNCHANGED <<pc, on>>, \A d \in Documents : ocr'[d] = "processing" <=> ocr[d] = "processing"
      PROVE  HandsStay
  BY <1>1 DEF HandsStay, HasClaimed
<1>2. CASE Users
  <2>1. UNCHANGED <<pc, on>>
    BY <1>2, Unchanged DEF Users, CompleteUpload, DeleteDocument, SubmitTransaction,
                           DeleteTransaction
  <2>2. ASSUME NEW d \in Documents, NEW t, CompleteUpload(d, t), NEW e \in Documents
        PROVE  ocr'[e] = "processing" <=> ocr[e] = "processing"
    BY <1>0, <2>2 DEF CompleteUpload, RowTypes
  <2>3. ASSUME \/ \E d \in Documents : DeleteDocument(d)
               \/ \E t \in Transactions : SubmitTransaction(t) \/ DeleteTransaction(t)
        PROVE  ocr' = ocr
    BY <2>3 DEF DeleteDocument, SubmitTransaction, DeleteTransaction
  <2> QED
    BY <1>1, <1>2, <2>1, <2>2, <2>3 DEF Users
<1>3. CASE Submission \/ Environment
  <2>1. UNCHANGED <<pc, on, ocr>>
    BY <1>3, Unchanged
       DEF Submission, SubmitDocument, SubmitFails, SetOcrDocumentID, SetOcrDocumentIDLost,
           RetryUnsubmitted, Environment, RouteResult, LoseEvent, RepeatEvent, Freeze, Unfreeze
  <2> QED
    BY <1>1, <2>1
<1>4. ASSUME NEW c \in Consumers, CommitRecord(c)
      PROVE  HandsStay
  <2>1. c \in Handlers /\ on[c] \in Documents /\ Enter(c, on[c], "idle") /\ ocr' = ocr
    BY <1>0, <1>4, OnTypes, Unchanged DEF CommitRecord, Handlers
  <2>2. \A e \in Documents : ~HasClaimed(c, e)
    BY <1>4 DEF CommitRecord, HasClaimed
  <2> QED
    BY <1>0, <2>1, <2>2, EnterHands DEF HandsStay
<1>5. ASSUME NEW c \in Consumers, NEW d \in Documents, Receive(c, d)
      PROVE  HandsStay
  <2>1. c \in Handlers /\ pc[c] = "idle" /\ Begin(c, d) /\ ocr' = ocr
    BY <1>5, Unchanged DEF Receive, Handlers
  <2> QED
    BY <1>0, <2>1, BeginHands DEF HandsStay
<1>6. ASSUME NEW s \in Sweepers, ListStale(s) \/ \E d \in Documents : Ask(s, d)
      PROVE  HandsStay
  <2>1. s \in Handlers /\ pc[s] = "idle" /\ ocr' = ocr
    BY <1>6, Unchanged DEF ListStale, Ask, Handlers
  <2>2. UNCHANGED <<pc, on>> \/ \E d \in Documents : Begin(s, d)
    BY <1>6 DEF ListStale, Ask
  <2> QED
    BY <1>0, <1>1, <2>1, <2>2, BeginHands DEF HandsStay
<1>7. ASSUME NEW h \in Handlers, Claim(h)
      PROVE  HandsStay \/ \E d \in Documents : Claims(h, d)
  <2>1. pc[h] = "leased" /\ on[h] \in Documents
    BY <1>0, <1>7, OnTypes DEF Claim
  <2>2. CASE Live(on[h]) /\ ocr[on[h]] = "pending"
    <3>1. Claims(h, on[h])
      BY <1>7, <2>2 DEF Claim, Claims, Live, Enter
    <3> QED
      BY <2>1, <3>1
  <2>3. CASE ~(Live(on[h]) /\ ocr[on[h]] = "pending")
    <3>1. Return(h, on[h]) /\ ocr' = ocr
      BY <1>7, <2>3 DEF Claim
    <3>2. \A e \in Documents : ~HasClaimed(h, e)
      BY <2>1 DEF HasClaimed
    <3> QED
      BY <1>0, <2>1, <3>1, <3>2, ReturnHands DEF HandsStay
  <2> QED
    BY <2>2, <2>3
<1>8. ASSUME NEW h \in Handlers, Apply(h)
      PROVE  \E d \in Documents : Settles(h, d) \/ Drops(h, d)
  <2>1. PICK d \in Documents : Settling(h, d) \/ GiveUp(h, d)
    BY <1>8 DEF Apply, Settling
  <2>2. HasClaimed(h, d) /\ Return(h, d)
    BY <2>1 DEF Settling, GiveUp, FailDocumentOCR, AttachItem, AttachForReview,
                CreateDraft, ParkForReview, Settle, Applies, HasClaimed
  <2>3. CASE Settling(h, d)
    <3>1. \E state \in Settled : ocr' = [ocr EXCEPT ![d] = state]
      BY <2>3 DEF Settling, FailDocumentOCR, AttachItem, AttachForReview, CreateDraft,
                  ParkForReview, Settle, Settled
    <3>2. ocr'[d] \in Settled /\ \A e \in Documents \ {d} : ocr'[e] = ocr[e]
      BY <1>0, <3>1 DEF RowTypes
    <3> QED
      BY <1>0, <2>2, <3>2, ReturnHands DEF Settles, Leaves
  <2>4. CASE GiveUp(h, d)
    <3>1. /\ ocr' = ocr
          /\ \/ ~(Live(d) /\ ocr[d] = "processing")
             \/ link[d] # NoTx /\ tx[link[d]] = "deleted"
      BY <2>4, Unchanged DEF GiveUp
    <3> QED
      BY <1>0, <2>2, <3>1, ReturnHands DEF Drops, Leaves
  <2> QED
    BY <2>1, <2>3, <2>4
<1>9. ASSUME NEW h \in Handlers, HandleFails(h) \/ Crash(h)
      PROVE  HandsStay \/ \E d \in Documents : Drops(h, d)
  <2>1. on[h] \in Documents /\ (Return(h, on[h]) \/ Enter(h, on[h], "idle"))
    BY <1>0, <1>9, OnTypes DEF HandleFails, Crash
  <2>2. ocr' = ocr
    BY <1>9, Unchanged DEF HandleFails, Crash
  <2>3. \A g \in Handlers, e \in Documents : HasClaimed(g, e)' <=> HasClaimed(g, e) /\ g # h
    BY <1>0, <2>1, EnterHands, ReturnHands
  <2>4. CASE HasClaimed(h, on[h])
    BY <1>9, <2>1, <2>2, <2>3, <2>4 DEF Drops, Leaves
  <2>5. CASE ~HasClaimed(h, on[h])
    <3>1. \A e \in Documents : ~HasClaimed(h, e)
      BY <2>5 DEF HasClaimed
    <3> QED
      BY <2>2, <2>3, <3>1 DEF HandsStay
  <2> QED
    BY <2>4, <2>5
<1> QED
  BY <1>2, <1>3, <1>4, <1>5, <1>6, <1>7, <1>8, <1>9 DEF Next, Handling

LEMMA ClaimantStep == TypeOK /\ OneClaimant /\ [Next]_vars => OneClaimant'
<1> SUFFICES ASSUME TypeOK, OneClaimant, [Next]_vars
             PROVE  OneClaimant'
  OBVIOUS
<1>0. RowTypes /\ HandlerTypes
  BY TypeParts
<1>1. CASE UNCHANGED vars \/ HandsStay
  <2>1. HandsStay
    BY <1>1 DEF vars, rows, handlers, HandsStay, HasClaimed
  <2> QED
    BY <2>1 DEF HandsStay, OneClaimant
<1>2. ASSUME NEW h \in Handlers, NEW d \in Documents, Claims(h, d)
      PROVE  OneClaimant'
  <2>1. \A g \in Handlers : ~HasClaimed(g, d)
    BY <1>2 DEF Claims, OneClaimant
  <2>2. \A g \in Handlers, e \in Documents :
          HasClaimed(g, e)' <=> IF g = h THEN e = d ELSE HasClaimed(g, e)
    BY <1>0, <1>2 DEF Claims, HandlerTypes, HasClaimed
  <2>3. ocr'[d] = "processing" /\ \A e \in Documents : e # d => ocr'[e] = ocr[e]
    BY <1>0, <1>2 DEF Claims, RowTypes
  <2> QED
    BY <2>1, <2>2, <2>3 DEF OneClaimant
<1>3. ASSUME NEW h \in Handlers, NEW d \in Documents, Settles(h, d) \/ Drops(h, d)
      PROVE  OneClaimant'
  <2>1. /\ HasClaimed(h, d)
        /\ \A g \in Handlers, e \in Documents : HasClaimed(g, e)' <=> HasClaimed(g, e) /\ g # h
        /\ \A e \in Documents \ {d} : ocr'[e] = ocr[e]
    BY <1>3 DEF Settles, Drops, Leaves
  <2>2. \A g \in Handlers : ~HasClaimed(g, d)'
    BY <2>1 DEF OneClaimant
  <2> QED
    BY <2>1, <2>2 DEF OneClaimant
<1> QED
  BY <1>1, <1>2, <1>3, ClaimSteps

\* However often an event is delivered, to whatever consumers, and whatever the
\* sweepers ask about meanwhile: no two handlers apply the result of a document.
THEOREM ClaimsAreExclusive == Spec => []OneClaimant
<1>1. Init => OneClaimant
  BY DEF Init, OneClaimant, HasClaimed
<1> QED
  BY <1>1, ClaimantStep, TypeCorrect, PTL DEF Spec

\* Deleted is for ever.
LEMMA DeletedStay == TypeOK /\ Next => deleted \subseteq deleted'
BY RowSteps DEF Upload, Discard, Move, Take, Part, Attach, Draft

LEMMA StuckStep ==
  ASSUME TypeOK, Next, NEW d \in Documents
  PROVE  /\ Stuck(d) => Stuck(d)' \/ d \in deleted'
         /\ ~Stuck(d) /\ Stuck(d)' =>
              \E h \in Handlers :
                /\ HasClaimed(h, d)
                /\ \/ HandleFails(h) \/ Crash(h)
                   \/ link[d] # NoTx /\ tx[link[d]] = "deleted"
<1> DEFINE Cause == \E h \in Handlers :
                      /\ HasClaimed(h, d)
                      /\ \/ HandleFails(h) \/ Crash(h)
                         \/ link[d] # NoTx /\ tx[link[d]] = "deleted"
           Goal == /\ Stuck(d) => Stuck(d)' \/ d \in deleted'
                   /\ ~Stuck(d) /\ Stuck(d)' => Cause
<1>0. RowTypes /\ HandlerTypes /\ deleted \subseteq deleted'
  BY TypeParts, DeletedStay
<1>1. CASE HandsStay
  BY <1>0, <1>1 DEF HandsStay, Stuck, Live
<1>2. ASSUME NEW h \in Handlers, NEW e \in Documents, Claims(h, e)
      PROVE  Goal
  <2>1. \A f \in Documents : f # e => ocr'[f] = ocr[f]
    BY <1>0, <1>2 DEF Claims, RowTypes
  <2>2. \A g \in Handlers, f \in Documents :
          HasClaimed(g, f)' <=> IF g = h THEN f = e ELSE HasClaimed(g, f)
    BY <1>0, <1>2 DEF Claims, HandlerTypes, HasClaimed
  <2>3. \A f \in Documents : ~HasClaimed(h, f)
    BY <1>2 DEF Claims, HasClaimed
  <2>4. CASE d = e
    BY <1>2, <2>2, <2>4 DEF Claims, Stuck
  <2>5. CASE d # e
    <3>1. Stuck(d)' <=> Stuck(d)
      BY <1>2, <2>1, <2>2, <2>3, <2>5 DEF Claims, Stuck, Live
    <3> QED
      BY <1>2, <3>1 DEF Claims
  <2> QED
    BY <2>4, <2>5
<1>3. ASSUME NEW h \in Handlers, NEW e \in Documents, Settles(h, e)
      PROVE  Goal
  <2>1. CASE d = e
    BY <1>3, <2>1 DEF Settles, Leaves, Stuck, Settled
  <2>2. CASE d # e
    <3>0. ~HasClaimed(h, d)
      BY <1>3, <2>2 DEF Settles, Leaves, HasClaimed
    <3>1. \A g \in Handlers : HasClaimed(g, d)' <=> HasClaimed(g, d)
      BY <1>3, <3>0 DEF Settles, Leaves
    <3>2. ocr'[d] = ocr[d]
      BY <1>3, <2>2 DEF Settles, Leaves
    <3> QED
      BY <1>0, <3>1, <3>2 DEF Stuck, Live
  <2> QED
    BY <2>1, <2>2
<1>4. ASSUME NEW h \in Handlers, NEW e \in Documents, Drops(h, e)
      PROVE  Goal
  <2>1. CASE d = e
    <3>1. ~Stuck(d) /\ HasClaimed(h, d)
      BY <1>4, <2>1 DEF Drops, Leaves, Stuck
    <3>2. Stuck(d)' => Live(d) /\ ocr[d] = "processing"
      BY <1>0, <1>4 DEF Drops, Stuck, Live
    <3> QED
      BY <1>4, <2>1, <3>1, <3>2 DEF Drops
  <2>2. CASE d # e
    <3>0. ~HasClaimed(h, d)
      BY <1>4, <2>2 DEF Drops, Leaves, HasClaimed
    <3>1. \A g \in Handlers : HasClaimed(g, d)' <=> HasClaimed(g, d)
      BY <1>4, <3>0 DEF Drops, Leaves
    <3> QED
      BY <1>0, <1>4, <3>1 DEF Drops, Stuck, Live
  <2> QED
    BY <2>1, <2>2
<1> QED
  BY <1>0, <1>1, <1>2, <1>3, <1>4, ClaimSteps

\* A document is left in processing, with nobody at it, only where its handler
\* dies or fails between its claim and its last step, or finds its transaction
\* deleted ...
THEOREM StuckIsExplained == Spec => StuckHasCause
<1>1. TypeOK /\ [Next]_vars =>
        [\A d \in Documents : ~Stuck(d) /\ Stuck(d)' =>
           \E h \in Handlers :
             /\ HasClaimed(h, d)
             /\ \/ HandleFails(h) \/ Crash(h)
                \/ link[d] # NoTx /\ tx[link[d]] = "deleted"]_vars
  BY StuckStep
<1> QED
  BY <1>1, TypeCorrect, PTL DEF Spec, StuckHasCause

\* ... and then for ever: no event, sweep or restart takes it up again.
THEOREM StuckForEver == Spec => StuckStays
<1>1. TypeOK /\ [Next]_vars =>
        [\A d \in Documents : Stuck(d) => Stuck(d)' \/ d \in deleted']_vars
  BY StuckStep
<1> QED
  BY <1>1, TypeCorrect, PTL DEF Spec, StuckStays
=============================================================================
