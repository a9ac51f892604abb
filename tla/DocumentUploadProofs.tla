------------------------ MODULE DocumentUploadProofs ------------------------
(***************************************************************************)
(* Theorems about DocumentUpload for every set of keys, contents, document *)
(* rows and requests in flight: its safety, and that it implements         *)
(* IdempotentUpload.                                                       *)
(***************************************************************************)
EXTENDS DocumentUpload, TLAPS

\* What requests know of the row they work on: it is theirs to complete, and
\* describes the object they have stored.
Row(u) ==
  u.at # "reserve" =>
    /\ key[u.doc] = u.key /\ content[u.doc] = u.content
    /\ u.doc \notin complete => link[u.doc] = u.target
    /\ u.at = "complete" => stored[u.doc] = content[u.doc]

\* Inductive: a key has one row, only completed rows were announced, completed
\* rows have their object, and a deleted project has no rows.
Rows ==
  /\ TypeOK
  /\ \A d, e \in Reserved : key[d] = key[e] => d = e
  /\ \A d \in Reserved : content[d] \in Contents
  /\ \A u \in pending : Row(u)
  /\ \A d \in Documents \ complete : announced[d] = 0
  /\ StoredIsDescribed
  /\ project = "deleted" => Reserved = {}

LEMMA KeysAreThere == None \notin Keys /\ None \notin Contents /\ None \notin Documents
BY NoneAssumption

LEMMA PendingTypes ==
  ASSUME Rows, NEW u \in pending
  PROVE  /\ u \in Uploads /\ u.key \in Keys /\ u.target \in Targets /\ u.content \in Contents
         /\ u.at = "reserve" => u.doc = None
         /\ u.at # "reserve" => u.doc \in Reserved /\ u.doc \in Documents
BY DEF Rows, TypeOK, Uploads, Reserved

LEMMA GoOnTypes ==
  ASSUME Rows, NEW u \in pending, NEW at \in {"put", "complete"}, NEW d \in Documents
  PROVE  LET v == [u EXCEPT !.at = at, !.doc = d]
         IN  /\ v \in Uploads /\ v.at = at /\ v.doc = d
             /\ v.key = u.key /\ v.target = u.target /\ v.content = u.content
<1>1. u \in Uploads
  BY PendingTypes
<1> QED
  BY <1>1 DEF Uploads, Targets

\* Answers and requests that go away disturb nothing.
LEMMA AnswerTypes ==
  ASSUME Rows, NEW u, u.key \in Keys, u.target \in Targets, u.content \in Contents,
         NEW d \in Documents, Answer(u, d)
  PROVE  answers' \subseteq Answers
BY DEF Rows, TypeOK, Answer, Answers

LEMMA RequestSteps ==
  ASSUME Rows,
         UNCHANGED <<project, tx, row, complete, deleted, stored, announced>>,
         answers' \subseteq Answers,
         \A u \in pending' : u \in pending \/
            (u \in Uploads /\ Row(u) /\ IF u.at = "reserve" THEN u.doc = None
                                                           ELSE u.doc \in Reserved)
  PROVE  Rows'
<1>1. UNCHANGED <<project, tx, key, content, link, complete, deleted, stored, announced>>
  BY DEF row
<1>2. Reserved' = Reserved
  BY <1>1 DEF Reserved
<1>3. \A u : Row(u)' <=> Row(u)
  BY <1>1 DEF Row
<1>4. \A u \in pending' : Row(u)
  BY DEF Rows
<1>5. \A u \in pending' : u \in Uploads
  BY DEF Rows, TypeOK
<1>6. \A u \in pending' : IF u.at = "reserve" THEN u.doc = None ELSE u.doc \in Reserved
  BY DEF Rows, TypeOK
<1>7. TypeOK'
  BY <1>1, <1>2, <1>5, <1>6 DEF Rows, TypeOK
<1>8. StoredIsDescribed'
  BY <1>1 DEF Rows, StoredIsDescribed
<1> QED
  BY <1>1, <1>2, <1>3, <1>4, <1>7, <1>8 DEF Rows

LEMMA ReserveStep ==
  ASSUME Rows, NEW u \in pending, NEW d \in Documents, Reserve(u, d)
  PROVE  Rows'
<1> DEFINE v == [u EXCEPT !.at = "put", !.doc = d]
<1>1. /\ u.at = "reserve" /\ project = "open" /\ UnderKey(u.key) = {} /\ d \notin Reserved
      /\ key' = [key EXCEPT ![d] = u.key]
      /\ content' = [content EXCEPT ![d] = u.content]
      /\ link' = [link EXCEPT ![d] = u.target]
      /\ pending' = (pending \ {u}) \union {v}
      /\ UNCHANGED <<project, tx, complete, deleted, stored, announced, answers>>
  BY DEF Reserve, GoOn
<1>2. /\ v \in Uploads /\ v.at = "put" /\ v.doc = d
      /\ v.key = u.key /\ v.target = u.target /\ v.content = u.content
  BY GoOnTypes
<1> HIDE DEF v
<1>3. u.key \in Keys /\ u.target \in Targets /\ u.content \in Contents /\ u.key # None
  BY PendingTypes, KeysAreThere
<1>4. \A e \in Documents :
        /\ key'[e] = IF e = d THEN u.key ELSE key[e]
        /\ content'[e] = IF e = d THEN u.content ELSE content[e]
        /\ link'[e] = IF e = d THEN u.target ELSE link[e]
  BY <1>1 DEF Rows, TypeOK
<1>5. Reserved' = Reserved \union {d}
  BY <1>3, <1>4 DEF Reserved
<1>6. TypeOK'
  <2>1. /\ key' \in [Documents -> Keys \union {None}]
        /\ content' \in [Documents -> Contents \union {None}]
        /\ link' \in [Documents -> Targets]
    BY <1>1, <1>3 DEF Rows, TypeOK
  <2>2. pending' \subseteq Uploads
    BY <1>1, <1>2 DEF Rows, TypeOK
  <2>3. \A w \in pending' : IF w.at = "reserve" THEN w.doc = None ELSE w.doc \in Reserved'
    BY <1>1, <1>2, <1>5 DEF Rows, TypeOK
  <2> QED
    BY <1>1, <1>5, <2>1, <2>2, <2>3 DEF Rows, TypeOK
<1>7. \A e, f \in Reserved' : key'[e] = key'[f] => e = f
  <2>1. \A e \in Reserved : key[e] # u.key
    BY <1>1 DEF UnderKey, Reserved
  <2> QED
    BY <1>1, <1>4, <1>5, <2>1 DEF Rows, Reserved
<1>8. \A e \in Reserved' : content'[e] \in Contents
  BY <1>3, <1>4, <1>5 DEF Rows, Reserved
<1>9. ASSUME NEW w \in pending'
      PROVE  Row(w)'
  <2>1. CASE w = v
    BY <1>2, <1>4, <2>1 DEF Row
  <2>2. CASE w \in pending
    <3>1. w.at # "reserve" => w.doc \in Reserved /\ w.doc # d /\ w.doc \in Documents
      BY <1>1, <2>2, PendingTypes
    <3> QED
      BY <1>1, <1>4, <2>2, <3>1 DEF Rows, Row
  <2> QED
    BY <1>1, <2>1, <2>2
<1>10. StoredIsDescribed'
  BY <1>1, <1>4 DEF Rows, TypeOK, StoredIsDescribed, Reserved
<1> QED
  BY <1>1, <1>6, <1>7, <1>8, <1>9, <1>10 DEF Rows

LEMMA PutStep ==
  ASSUME Rows, NEW u \in pending, Put(u)
  PROVE  Rows'
<1> DEFINE v == [u EXCEPT !.at = "complete", !.doc = u.doc]
<1>1. /\ u.at = "put"
      /\ stored' = [stored EXCEPT ![u.doc] = u.content]
      /\ pending' = (pending \ {u}) \union {v}
      /\ UNCHANGED <<project, tx, key, content, link, complete, deleted, announced, answers>>
  BY DEF Put, GoOn, row
<1>2. u.doc \in Reserved /\ u.doc \in Documents /\ u.content \in Contents
  BY <1>1, PendingTypes
<1>3. /\ v \in Uploads /\ v.at = "complete" /\ v.doc = u.doc
      /\ v.key = u.key /\ v.target = u.target /\ v.content = u.content
  BY <1>2, GoOnTypes
<1> HIDE DEF v
<1>4. content[u.doc] = u.content /\ key[u.doc] = u.key
      /\ (u.doc \notin complete => link[u.doc] = u.target)
  BY <1>1 DEF Rows, Row
<1>5. /\ stored' \in [Documents -> Contents \union {None}]
      /\ \A d \in Documents : stored'[d] = IF d = u.doc THEN content[d] ELSE stored[d]
  BY <1>1, <1>2, <1>4 DEF Rows, TypeOK
<1>6. Reserved' = Reserved
  BY <1>1 DEF Reserved
<1>7. TypeOK'
  <2>1. pending' \subseteq Uploads
    BY <1>1, <1>3 DEF Rows, TypeOK
  <2>2. \A w \in pending' : IF w.at = "reserve" THEN w.doc = None ELSE w.doc \in Reserved'
    BY <1>1, <1>2, <1>3, <1>6 DEF Rows, TypeOK
  <2> QED
    BY <1>1, <1>5, <1>6, <2>1, <2>2 DEF Rows, TypeOK
<1>8. ASSUME NEW w \in pending'
      PROVE  Row(w)'
  <2>1. CASE w = v
    BY <1>1, <1>2, <1>3, <1>4, <1>5, <2>1 DEF Row
  <2>2. CASE w \in pending
    <3>1. w.at # "reserve" => w.doc \in Documents
      BY <2>2, PendingTypes
    <3> QED
      BY <1>1, <1>5, <2>2, <3>1 DEF Rows, Row
  <2> QED
    BY <1>1, <2>1, <2>2
<1>9. StoredIsDescribed'
  BY <1>1, <1>5 DEF Rows, TypeOK, StoredIsDescribed, Reserved
<1> QED
  BY <1>1, <1>6, <1>7, <1>8, <1>9 DEF Rows

LEMMA CompleteStep ==
  ASSUME Rows, NEW u \in pending, Complete(u)
  PROVE  Rows'
<1>1. /\ u.at = "complete"
      /\ complete' = complete \union {u.doc}
      /\ announced' = IF u.doc \in complete THEN announced
                      ELSE [announced EXCEPT ![u.doc] = @ + 1]
      /\ Answer(u, u.doc) /\ pending' = pending \ {u}
      /\ UNCHANGED <<project, tx, key, content, link, deleted, stored>>
  BY DEF Complete, row
<1>2. u.doc \in Reserved /\ u.doc \in Documents
  BY <1>1, PendingTypes
<1>3. Reserved' = Reserved
  BY <1>1 DEF Reserved
<1>4. TypeOK'
  <2>1. answers' \subseteq Answers
    BY <1>1, <1>2, PendingTypes, AnswerTypes
  <2>2. announced' \in [Documents -> Nat]
    BY <1>1, <1>2 DEF Rows, TypeOK
  <2> QED
    BY <1>1, <1>2, <1>3, <2>1, <2>2 DEF Rows, TypeOK
<1>5. \A w \in pending' : Row(w)'
  BY <1>1 DEF Rows, Row
<1>6. StoredIsDescribed'
  BY <1>1 DEF Rows, Row, StoredIsDescribed
<1>7. \A d \in Documents \ complete' : announced'[d] = 0
  BY <1>1 DEF Rows, TypeOK
<1> QED
  BY <1>1, <1>3, <1>4, <1>5, <1>6, <1>7 DEF Rows

LEMMA CreateDraftStep ==
  ASSUME Rows, NEW d \in Documents, CreateDraft(d)
  PROVE  Rows'
<1>1. /\ d \in complete
      /\ tx' = [tx EXCEPT ![d] = "draft"] /\ link' = [link EXCEPT ![d] = d]
      /\ UNCHANGED <<project, key, content, complete, deleted, stored, announced,
                     pending, answers>>
  BY DEF CreateDraft, Live
<1>2. Reserved' = Reserved
  BY <1>1 DEF Reserved
<1>3. TypeOK'
  BY <1>1, <1>2 DEF Rows, TypeOK, Targets
<1>4. \A e \in Documents : e # d => link'[e] = link[e]
  BY <1>1 DEF Rows, TypeOK
<1>5. ASSUME NEW w \in pending'
      PROVE  Row(w)'
  <2>1. w.at # "reserve" => w.doc \in Documents
    BY <1>1, PendingTypes
  <2> QED
    BY <1>1, <1>4, <2>1 DEF Rows, Row
<1>6. StoredIsDescribed'
  BY <1>1 DEF Rows, StoredIsDescribed
<1> QED
  BY <1>1, <1>2, <1>3, <1>5, <1>6 DEF Rows

\* Projects, transactions and documents come and go.
LEMMA OtherSteps ==
  ASSUME Rows,
         \/ \E d \in Documents : DeleteDocument(d)
         \/ \E t \in Documents : SubmitTransaction(t) \/ DeleteTransaction(t)
         \/ ArchiveProject \/ UnarchiveProject \/ DeleteProject
  PROVE  Rows'
<1>1. /\ UNCHANGED <<key, content, link, complete, stored, announced, pending, answers>>
      /\ tx' \in [Documents -> {"none", "draft", "submitted", "deleted"}]
      /\ deleted' \subseteq complete
      /\ project' \in {"open", "archived", "deleted"}
      /\ project' = "deleted" => Reserved = {}
  BY DEF Rows, TypeOK, DeleteDocument, Live, SubmitTransaction, DeleteTransaction,
         ArchiveProject, UnarchiveProject, DeleteProject, SetProject, row
<1>2. Reserved' = Reserved
  BY <1>1 DEF Reserved
<1>3. TypeOK'
  BY <1>1, <1>2 DEF Rows, TypeOK
<1>4. \A u \in pending' : Row(u)'
  BY <1>1 DEF Rows, Row
<1>5. StoredIsDescribed'
  BY <1>1 DEF Rows, StoredIsDescribed
<1> QED
  BY <1>1, <1>2, <1>3, <1>4, <1>5 DEF Rows

LEMMA RowsStep ==
  ASSUME Rows, Next
  PROVE  Rows'
<1>1. ASSUME NEW u \in Uploads, AnswerCompleted(u)
      PROVE  Rows'
  <2>1. PICK d \in Documents : Answer(u, d)
    BY <1>1 DEF AnswerCompleted, UnderKey
  <2>2. answers' \subseteq Answers
    BY <2>1, AnswerTypes DEF Uploads
  <2> QED
    BY <1>1, <2>2, RequestSteps DEF AnswerCompleted
<1>2. ASSUME NEW u \in Uploads, Start(u)
      PROVE  Rows'
  <2>1. /\ u.at = "reserve" /\ u.doc = None /\ pending' = pending \union {u}
        /\ answers' \subseteq Answers
        /\ UNCHANGED <<project, tx, row, complete, deleted, stored, announced>>
    BY <1>2 DEF Start, Arrive, Rows, TypeOK
  <2> QED
    BY <2>1, RequestSteps DEF Row
<1>3. ASSUME NEW u \in pending, NEW d \in Documents, Join(u, d)
      PROVE  Rows'
  <2> DEFINE v == [u EXCEPT !.at = "put", !.doc = d]
  <2>1. /\ d \in UnderKey(u.key) /\ content[d] = u.content /\ link[d] = u.target
        /\ UNCHANGED <<project, tx, row, complete, deleted, stored, announced>>
    BY <1>3 DEF Join, Same
  <2>2. key[d] = u.key /\ u.key # None /\ d \in Reserved
    BY <2>1, PendingTypes, KeysAreThere DEF UnderKey, Reserved
  <2>3. CASE d \in complete
    <3>1. Answer(u, d) /\ pending' = pending \ {u}
      BY <1>3, <2>3 DEF Join
    <3>2. answers' \subseteq Answers
      BY <3>1, PendingTypes, AnswerTypes
    <3> QED
      BY <2>1, <3>1, <3>2, RequestSteps
  <2>4. CASE d \notin complete
    <3>1. pending' = (pending \ {u}) \union {v} /\ answers' = answers
      BY <1>3, <2>4 DEF Join, GoOn
    <3>2. /\ v \in Uploads /\ v.at = "put" /\ v.doc = d
          /\ v.key = u.key /\ v.target = u.target /\ v.content = u.content
      BY GoOnTypes
    <3> HIDE DEF v
    <3>3. Row(v)
      BY <2>1, <2>2, <3>2 DEF Row
    <3>4. answers' \subseteq Answers
      BY <3>1 DEF Rows, TypeOK
    <3> QED
      BY <2>1, <2>2, <3>1, <3>2, <3>3, <3>4, RequestSteps
  <2> QED
    BY <2>3, <2>4
<1>4. ASSUME NEW u \in pending, Abandon(u)
      PROVE  Rows'
  <2>1. /\ pending' = pending \ {u} /\ answers' \subseteq Answers
        /\ UNCHANGED <<project, tx, row, complete, deleted, stored, announced>>
    BY <1>4 DEF Abandon, Rows, TypeOK
  <2> QED
    BY <2>1, RequestSteps
<1> QED
  BY <1>1, <1>2, <1>3, <1>4, ReserveStep, PutStep, CompleteStep, CreateDraftStep, OtherSteps
     DEF Next

LEMMA RowsAlways == Spec => []Rows
<1>1. Init => Rows
  BY DEF Init, Rows, TypeOK, Reserved, StoredIsDescribed, Targets
<1>2. Rows /\ [Next]_vars => Rows'
  <2>1. ASSUME UNCHANGED vars, Rows
        PROVE  Rows'
    <3>1. /\ UNCHANGED <<project, tx, row, complete, deleted, stored, announced>>
          /\ answers' \subseteq Answers /\ pending' = pending
      BY <2>1 DEF vars, Rows, TypeOK
    <3> QED
      BY <2>1, <3>1, RequestSteps
  <2> QED
    BY <2>1, RowsStep
<1> QED
  BY <1>1, <1>2, PTL DEF Spec

\* Every variable keeps its type.
THEOREM TypeCorrect == Spec => []TypeOK
<1>1. Rows => TypeOK
  BY DEF Rows
<1> QED
  BY <1>1, RowsAlways, PTL

\* A complete document has the object it describes.
THEOREM ObjectsMatch == Spec => []StoredIsDescribed
<1>1. Rows => StoredIsDescribed
  BY DEF Rows
<1> QED
  BY <1>1, RowsAlways, PTL

-----------------------------------------------------------------------------
(* What is submitted or closed.                                            *)

Evidence(t) == {d \in Documents : Live(d) /\ link[d] = t}

LEMMA EvidenceStep ==
  ASSUME Rows, Next, NEW t \in Documents, tx[t] = "submitted"
  PROVE  Evidence(t)' = Evidence(t)
<1>1. CASE UNCHANGED <<link, complete, deleted>>
  BY <1>1 DEF Evidence, Live
<1>2. ASSUME NEW u \in pending, NEW d \in Documents, Reserve(u, d)
      PROVE  Evidence(t)' = Evidence(t)
  <2>1. /\ d \notin complete /\ link' = [link EXCEPT ![d] = u.target]
        /\ UNCHANGED <<complete, deleted>>
    BY <1>2 DEF Reserve, Rows, TypeOK
  <2> QED
    BY <2>1 DEF Rows, TypeOK, Evidence, Live
<1>3. ASSUME NEW u \in pending, Complete(u)
      PROVE  Evidence(t)' = Evidence(t)
  <2>1. /\ u.at = "complete" /\ TakesDocuments(u.target)
        /\ complete' = complete \union {u.doc} /\ UNCHANGED <<link, deleted>>
    BY <1>3 DEF Complete, row
  <2>2. u.target # t
    BY <2>1, KeysAreThere DEF TakesDocuments
  <2>3. u.doc \in complete \/ link[u.doc] # t
    BY <2>1, <2>2 DEF Rows, Row
  <2> QED
    BY <2>1, <2>3 DEF Evidence, Live
<1>4. ASSUME NEW d \in Documents, DeleteDocument(d)
      PROVE  Evidence(t)' = Evidence(t)
  <2>1. /\ TakesDocuments(link[d]) /\ deleted' = deleted \union {d}
        /\ UNCHANGED <<link, complete>>
    BY <1>4 DEF DeleteDocument, row
  <2>2. link[d] # t
    BY <2>1, KeysAreThere DEF TakesDocuments
  <2> QED
    BY <2>1, <2>2 DEF Evidence, Live
<1>5. ASSUME NEW d \in Documents, CreateDraft(d)
      PROVE  Evidence(t)' = Evidence(t)
  <2>1. /\ link[d] = None /\ tx[d] = "none" /\ link' = [link EXCEPT ![d] = d]
        /\ UNCHANGED <<complete, deleted>>
    BY <1>5 DEF CreateDraft
  <2>2. d # t /\ link[d] # t
    BY <2>1, KeysAreThere
  <2> QED
    BY <2>1, <2>2 DEF Rows, TypeOK, Evidence, Live
<1>6. \/ UNCHANGED <<link, complete, deleted>>
      \/ \E u \in pending : Complete(u) \/ \E d \in Documents : Reserve(u, d)
      \/ \E d \in Documents : DeleteDocument(d) \/ CreateDraft(d)
  BY DEF Next, AnswerCompleted, Start, Put, Abandon, Join, SubmitTransaction,
         DeleteTransaction, ArchiveProject, UnarchiveProject, DeleteProject, SetProject, row
<1> QED
  BY <1>1, <1>2, <1>3, <1>4, <1>5, <1>6

\* The documents of a submitted transaction are what they were when it was
\* submitted.
THEOREM EvidenceStays == Spec => EvidenceIsFrozen
<1>1. Rows /\ [Next]_vars =>
        [\A t \in Documents : tx[t] = "submitted" =>
           {d \in Documents : Live(d) /\ link[d] = t}' =
           {d \in Documents : Live(d) /\ link[d] = t}]_vars
  BY EvidenceStep DEF Evidence
<1> QED
  BY <1>1, RowsAlways, PTL DEF Spec, EvidenceIsFrozen

\* A project that is closed takes neither documents nor transactions.
THEOREM ClosedIsClosed == Spec => ClosedProjectTakesNothing
<1>1. ASSUME Rows, Next, project = "deleted"
      PROVE  Reserved = {} /\ Reserved' = {}
  <2>1. Reserved = {}
    BY <1>1 DEF Rows
  <2>2. key' = key
    BY <1>1 DEF Next, AnswerCompleted, Start, Reserve, Join, Put, Complete, Abandon,
       DeleteDocument, CreateDraft, SubmitTransaction, DeleteTransaction, ArchiveProject,
       UnarchiveProject, DeleteProject, SetProject, row
  <2> QED
    BY <2>1, <2>2 DEF Reserved
<1>2. ASSUME Rows, Next, project # "open"
      PROVE  /\ complete' = complete
             /\ \A t \in Documents : tx[t] = "none" => tx'[t] = "none"
  BY <1>2 DEF Rows, TypeOK, Next, AnswerCompleted, Start, Reserve, Join, Put, Complete,
     Abandon, DeleteDocument, CreateDraft, SubmitTransaction, DeleteTransaction,
     ArchiveProject, UnarchiveProject, DeleteProject, SetProject, row
<1>3. Rows /\ [Next]_vars =>
        [/\ project = "deleted" => Reserved = {} /\ Reserved' = {}
         /\ project # "open" =>
              /\ complete' = complete
              /\ \A t \in Documents : tx[t] = "none" => tx'[t] = "none"]_vars
  BY <1>1, <1>2
<1> QED
  BY <1>3, RowsAlways, PTL DEF Spec, ClosedProjectTakesNothing

-----------------------------------------------------------------------------
(* The refinement: a key's row is what becomes of the key.                 *)

\* What row d says of its key.
Outcome(d) ==
  IF d \in complete THEN IF d \in deleted THEN "withdrawn" ELSE content[d] ELSE None

LEMMA NoRow ==
  ASSUME NEW k, UnderKey(k) = {}
  PROVE  OutcomeOf(k) = None /\ AnnouncedOf(k) = 0
<1>1. {announced[d] : d \in UnderKey(k)} = {}
  OBVIOUS
<1> QED
  BY <1>1 DEF OutcomeOf, AnnouncedOf

LEMMA OneRow ==
  ASSUME Rows, NEW d \in Reserved
  PROVE  /\ key[d] \in Keys /\ UnderKey(key[d]) = {d}
         /\ OutcomeOf(key[d]) = Outcome(d) /\ AnnouncedOf(key[d]) = announced[d]
<1>1. d \in Documents /\ key[d] # None /\ key[d] \in Keys
  BY DEF Rows, TypeOK, Reserved
<1>2. UnderKey(key[d]) = {d}
  BY <1>1 DEF Rows, UnderKey, Reserved
<1>3. OutcomeOf(key[d]) = Outcome(d)
  BY <1>2 DEF OutcomeOf, Outcome
<1>4. AnnouncedOf(key[d]) = announced[d]
  <2>1. {announced[e] : e \in UnderKey(key[d])} = {announced[d]}
    BY <1>2
  <2>2. announced[d] \in Nat
    BY <1>1 DEF Rows, TypeOK
  <2> QED
    BY <2>1, <2>2 DEF AnnouncedOf
<1> QED
  BY <1>1, <1>2, <1>3, <1>4

\* Every key has one row or none.
LEMMA KeyCases ==
  ASSUME Rows, NEW k \in Keys
  PROVE  UnderKey(k) = {} \/ \E d \in Reserved : key[d] = k
BY KeysAreThere DEF UnderKey, Reserved

\* What the map shows: of key k, and of the answers.
Seen(k) == <<OutcomeOf(k), AnnouncedOf(k)>>
Told == {<<a.key, a.content>> : a \in answers}

LEMMA SeenSame ==
  ASSUME UNCHANGED <<key, content, complete, deleted, announced>>, NEW k
  PROVE  OutcomeOf(k)' = OutcomeOf(k) /\ AnnouncedOf(k)' = AnnouncedOf(k)
BY DEF OutcomeOf, AnnouncedOf, UnderKey

LEMMA AnswerTold ==
  ASSUME NEW u, NEW d, Answer(u, d)
  PROVE  Told' = Told \union {<<u.key, u.content>>}
<1> DEFINE a == [key |-> u.key, target |-> u.target, content |-> u.content, doc |-> d]
<1>1. answers' = answers \union {a} /\ a.key = u.key /\ a.content = u.content
  BY DEF Answer
<1> HIDE DEF a
<1> QED
  BY <1>1 DEF Told

\* An answer for a row that is complete and not deleted.
LEMMA AgainStep ==
  ASSUME Rows, NEW u, u.key \in Keys, u.content \in Contents, NEW d \in complete \ deleted,
         key[d] = u.key, content[d] = u.content, Answer(u, d),
         UNCHANGED <<key, content, complete, deleted, announced>>
  PROVE  Promise!Next
<1>1. d \in Reserved
  BY DEF Rows, TypeOK
<1>2. OutcomeOf(u.key) = u.content
  BY <1>1, OneRow DEF Outcome
<1>3. Told' = Told \union {<<u.key, u.content>>}
  BY AnswerTold
<1>4. \A k \in Keys : OutcomeOf(k)' = OutcomeOf(k) /\ AnnouncedOf(k)' = AnnouncedOf(k)
  BY SeenSame
<1>5. Promise!AnswerAgain(u.key, u.content)
  BY <1>2, <1>3, <1>4 DEF Promise!AnswerAgain, Promise!Answer, Told
<1> QED
  BY <1>5 DEF Promise!Next

LEMMA AcceptStep ==
  ASSUME Rows, Rows', NEW u \in pending, Complete(u), u.doc \notin complete
  PROVE  Promise!Next
<1> DEFINE d == u.doc
<1>1. /\ u.at = "complete" /\ d \notin deleted
      /\ complete' = complete \union {d}
      /\ announced' = [announced EXCEPT ![d] = @ + 1]
      /\ Answer(u, d) /\ UNCHANGED <<key, content, deleted>>
  BY DEF Complete, row
<1>2. d \in Reserved /\ d \in Documents /\ key[d] = u.key /\ content[d] = u.content
  BY <1>1, PendingTypes DEF Rows, Row
<1>3. u.key \in Keys /\ u.content \in Contents
  BY PendingTypes
<1>4. Reserved' = Reserved
  BY <1>1 DEF Reserved
<1>5. OutcomeOf(u.key) = None /\ AnnouncedOf(u.key) = announced[d]
  BY <1>2, OneRow DEF Outcome
<1>6. OutcomeOf(u.key)' = u.content /\ AnnouncedOf(u.key)' = announced[d] + 1
  <2>1. d \in Reserved' /\ key'[d] = u.key
    BY <1>1, <1>2, <1>4
  <2>2. OutcomeOf(u.key)' = Outcome(d)' /\ AnnouncedOf(u.key)' = announced'[d]
    <3>1. UnderKey(u.key)' = {d}
      BY <1>1, <1>2, OneRow DEF UnderKey
    <3>2. OutcomeOf(u.key)' = Outcome(d)'
      BY <3>1 DEF OutcomeOf, Outcome
    <3>3. {announced[e] : e \in UnderKey(u.key)}' = {announced'[d]} /\ announced'[d] \in Nat
      BY <1>2, <3>1 DEF Rows, TypeOK
    <3>4. AnnouncedOf(u.key)' = announced'[d]
      BY <3>3 DEF AnnouncedOf
    <3> QED
      BY <3>2, <3>4
  <2>3. announced'[d] = announced[d] + 1
    BY <1>1, <1>2 DEF Rows, TypeOK
  <2> QED
    BY <1>1, <1>2, <2>2, <2>3 DEF Outcome
<1>7. \A k \in Keys \ {u.key} : OutcomeOf(k)' = OutcomeOf(k) /\ AnnouncedOf(k)' = AnnouncedOf(k)
  <2> SUFFICES ASSUME NEW k \in Keys \ {u.key}
               PROVE  OutcomeOf(k)' = OutcomeOf(k) /\ AnnouncedOf(k)' = AnnouncedOf(k)
    OBVIOUS
  <2>1. UnderKey(k)' = UnderKey(k) /\ d \notin UnderKey(k) /\ UnderKey(k) \subseteq Documents
    BY <1>1, <1>2 DEF UnderKey
  <2>2. \A e \in UnderKey(k) : (e \in complete' <=> e \in complete) /\ announced'[e] = announced[e]
    BY <1>1, <2>1 DEF Rows, TypeOK
  <2>3. OutcomeOf(k)' = OutcomeOf(k)
    <3>1. CASE UnderKey(k) = {}
      BY <2>1, <3>1 DEF OutcomeOf
    <3>2. ASSUME NEW e \in Reserved, key[e] = k
          PROVE  OutcomeOf(k)' = OutcomeOf(k)
      <4>1. UnderKey(k) = {e}
        BY <3>2, OneRow
      <4> QED
        BY <1>1, <2>1, <2>2, <4>1 DEF OutcomeOf
    <3> QED
      BY <3>1, <3>2, KeyCases
  <2>4. AnnouncedOf(k)' = AnnouncedOf(k)
    <3>1. CASE UnderKey(k) = {}
      <4>1. {announced[e] : e \in UnderKey(k)}' = {}
        BY <2>1, <3>1
      <4> QED
        BY <3>1, <4>1, NoRow DEF AnnouncedOf
    <3>2. ASSUME NEW e \in Reserved, key[e] = k
          PROVE  AnnouncedOf(k)' = AnnouncedOf(k)
      <4>1. UnderKey(k) = {e} /\ AnnouncedOf(k) = announced[e] /\ announced'[e] = announced[e]
        BY <2>2, <3>2, OneRow
      <4>2. {announced[f] : f \in UnderKey(k)}' = {announced[e]} /\ announced[e] \in Nat
        BY <2>1, <4>1 DEF Rows, TypeOK, Reserved
      <4>3. AnnouncedOf(k)' = announced[e]
        BY <4>2 DEF AnnouncedOf
      <4> QED
        BY <4>1, <4>3
    <3> QED
      BY <3>1, <3>2, KeyCases
  <2> QED
    BY <2>3, <2>4
<1>8. Told' = Told \union {<<u.key, u.content>>}
  BY <1>1, AnswerTold
<1>9. Promise!Accept(u.key, u.content)
  BY <1>3, <1>5, <1>6, <1>7, <1>8 DEF Promise!Accept, Promise!Answer, Told
<1> QED
  BY <1>3, <1>9 DEF Promise!Next

LEMMA WithdrawStep ==
  ASSUME Rows, NEW d \in Documents, DeleteDocument(d)
  PROVE  Promise!Next
<1>1. /\ d \in complete /\ d \notin deleted /\ deleted' = deleted \union {d}
      /\ UNCHANGED <<key, content, complete, announced, answers>>
  BY DEF DeleteDocument, Live, row
<1>2. d \in Reserved
  BY <1>1 DEF Rows, TypeOK
<1> DEFINE j == key[d]
<1>3. /\ j \in Keys /\ UnderKey(j) = {d} /\ OutcomeOf(j) = content[d]
      /\ content[d] \in Contents
  BY <1>1, <1>2, OneRow DEF Outcome, Rows
<1>4. \A k \in Keys : UnderKey(k)' = UnderKey(k) /\ AnnouncedOf(k)' = AnnouncedOf(k)
  BY <1>1 DEF UnderKey, AnnouncedOf
<1>5. OutcomeOf(j)' = "withdrawn"
  BY <1>1, <1>3, <1>4 DEF OutcomeOf
<1>6. ASSUME NEW k \in Keys, k # j
      PROVE  OutcomeOf(k)' = OutcomeOf(k)
  <2>1. CASE UnderKey(k) = {}
    BY <1>4, <2>1 DEF OutcomeOf
  <2>2. ASSUME NEW e \in Reserved, key[e] = k
        PROVE  OutcomeOf(k)' = OutcomeOf(k)
    <3>1. UnderKey(k) = {e} /\ e # d
      BY <1>6, <2>2, OneRow
    <3> QED
      BY <1>1, <1>4, <3>1 DEF OutcomeOf
  <2> QED
    BY <2>1, <2>2, KeyCases
<1>7. Promise!Withdraw(j)
  BY <1>1, <1>3, <1>4, <1>5, <1>6 DEF Promise!Withdraw
<1> QED
  BY <1>3, <1>7 DEF Promise!Next

LEMMA PromiseStep ==
  ASSUME Rows, Rows', Next
  PROVE  [Promise!Next]_(Promise!vars)
<1>1. CASE UNCHANGED <<key, content, complete, deleted, announced, answers>>
  <2>1. \A k \in Keys : OutcomeOf(k)' = OutcomeOf(k) /\ AnnouncedOf(k)' = AnnouncedOf(k)
    BY <1>1, SeenSame
  <2> QED
    BY <1>1, <2>1 DEF Promise!vars
<1>2. ASSUME NEW u \in Uploads, AnswerCompleted(u)
      PROVE  Promise!Next
  <2>1. PICK d \in UnderKey(u.key) \intersect complete : Answer(u, d)
    BY <1>2 DEF AnswerCompleted
  <2>2. /\ content[d] = u.content /\ d \notin deleted /\ key[d] = u.key
        /\ UNCHANGED <<key, content, complete, deleted, announced>>
    BY <1>2, <2>1 DEF AnswerCompleted, Arrive, Same, UnderKey, row
  <2> QED
    BY <2>1, <2>2, AgainStep DEF Uploads
<1>3. ASSUME NEW u \in pending, NEW d \in Documents, Join(u, d), d \in complete
      PROVE  Promise!Next
  <2>1. /\ content[d] = u.content /\ d \notin deleted /\ key[d] = u.key /\ Answer(u, d)
        /\ UNCHANGED <<key, content, complete, deleted, announced>>
    BY <1>3 DEF Join, Same, UnderKey, row
  <2> QED
    BY <1>3, <2>1, AgainStep, PendingTypes
<1>4. ASSUME NEW u \in pending, Complete(u)
      PROVE  Promise!Next
  <2>1. CASE u.doc \in complete
    <3>1. /\ u.at = "complete" /\ u.doc \notin deleted /\ Answer(u, u.doc)
          /\ complete' = complete /\ UNCHANGED <<key, content, deleted, announced>>
      BY <1>4, <2>1 DEF Complete, row
    <3>2. key[u.doc] = u.key /\ content[u.doc] = u.content
      BY <3>1 DEF Rows, Row
    <3> QED
      BY <2>1, <3>1, <3>2, AgainStep, PendingTypes
  <2>2. CASE u.doc \notin complete
    BY <1>4, <2>2, AcceptStep
  <2> QED
    BY <2>1, <2>2
<1>5. ASSUME NEW u \in pending, NEW d \in Documents, Reserve(u, d)
      PROVE  UNCHANGED Promise!vars
  <2>1. /\ UnderKey(u.key) = {} /\ d \notin Reserved
        /\ key' = [key EXCEPT ![d] = u.key] /\ content' = [content EXCEPT ![d] = u.content]
        /\ UNCHANGED <<complete, deleted, announced, answers>>
    BY <1>5 DEF Reserve
  <2>2. d \notin complete /\ announced[d] = 0 /\ key[d] = None
    BY <2>1 DEF Rows, TypeOK, Reserved
  <2>3. UnderKey(u.key)' = {d}
    BY <2>1 DEF UnderKey, Rows, TypeOK
  <2>4. OutcomeOf(u.key)' = OutcomeOf(u.key) /\ AnnouncedOf(u.key)' = AnnouncedOf(u.key)
    <3>1. OutcomeOf(u.key)' = None
      BY <2>1, <2>2, <2>3 DEF OutcomeOf
    <3>2. {announced[e] : e \in UnderKey(u.key)}' = {0}
      BY <2>1, <2>2, <2>3
    <3>3. AnnouncedOf(u.key)' = 0
      BY <3>2 DEF AnnouncedOf
    <3> QED
      BY <2>1, <3>1, <3>3, NoRow
  <2>5. ASSUME NEW k \in Keys, k # u.key
        PROVE  OutcomeOf(k)' = OutcomeOf(k) /\ AnnouncedOf(k)' = AnnouncedOf(k)
    <3>1. UnderKey(k)' = UnderKey(k) /\ d \notin UnderKey(k) /\ UnderKey(k) \subseteq Documents
      BY <2>1, <2>2, <2>5, KeysAreThere DEF UnderKey, Rows, TypeOK
    <3>2. \A e \in UnderKey(k) : content'[e] = content[e]
      BY <2>1, <3>1 DEF Rows, TypeOK
    <3>3. AnnouncedOf(k)' = AnnouncedOf(k)
      BY <2>1, <3>1 DEF AnnouncedOf
    <3>4. OutcomeOf(k)' = OutcomeOf(k)
      <4>1. CASE UnderKey(k) = {}
        BY <3>1, <4>1 DEF OutcomeOf
      <4>2. ASSUME NEW e \in Reserved, key[e] = k
            PROVE  OutcomeOf(k)' = OutcomeOf(k)
        <5>1. UnderKey(k) = {e}
          BY <4>2, OneRow
        <5> QED
          BY <2>1, <3>1, <3>2, <5>1 DEF OutcomeOf
      <4> QED
        BY <4>1, <4>2, KeyCases
    <3> QED
      BY <3>3, <3>4
  <2>6. \A k \in Keys : OutcomeOf(k)' = OutcomeOf(k) /\ AnnouncedOf(k)' = AnnouncedOf(k)
    BY <2>4, <2>5
  <2> QED
    BY <2>1, <2>6 DEF Promise!vars
<1>6. \/ UNCHANGED <<key, content, complete, deleted, announced, answers>>
      \/ \E u \in Uploads : AnswerCompleted(u)
      \/ \E u \in pending : Complete(u)
      \/ \E u \in pending, d \in Documents : Reserve(u, d) \/ (Join(u, d) /\ d \in complete)
      \/ \E d \in Documents : DeleteDocument(d)
  BY DEF Next, Start, Put, Abandon, Join, CreateDraft, SubmitTransaction, DeleteTransaction,
         ArchiveProject, UnarchiveProject, DeleteProject, SetProject, row
<1> QED
  BY <1>1, <1>2, <1>3, <1>4, <1>5, <1>6, WithdrawStep

\* Uploads under a key take effect once and are announced once, whoever
\* repeats them, and only their own content is answered.
THEOREM UploadsTakeEffectOnce == Spec => UploadsOnce
<1>1. Init => Promise!Init
  <2> SUFFICES ASSUME Init
               PROVE  Promise!Init
    OBVIOUS
  <2>1. \A k \in Keys : UnderKey(k) = {}
    BY KeysAreThere DEF Init, UnderKey
  <2>2. \A k \in Keys : OutcomeOf(k) = None /\ AnnouncedOf(k) = 0
    BY <2>1, NoRow
  <2> QED
    BY <2>2 DEF Init, Promise!Init
<1>2. Rows /\ Rows' /\ [Next]_vars => [Promise!Next]_(Promise!vars)
  <2>1. ASSUME UNCHANGED vars
        PROVE  UNCHANGED Promise!vars
    <3>1. UNCHANGED <<key, content, complete, deleted, announced, answers>>
      BY <2>1 DEF vars, row
    <3>2. \A k \in Keys : OutcomeOf(k)' = OutcomeOf(k) /\ AnnouncedOf(k)' = AnnouncedOf(k)
      BY <3>1, SeenSame
    <3> QED
      BY <3>1, <3>2 DEF Promise!vars
  <2> QED
    BY <2>1, PromiseStep
<1> QED
  BY <1>1, <1>2, RowsAlways, PTL DEF Spec, UploadsOnce, Promise!Spec

-----------------------------------------------------------------------------
(* Which retries are refused.                                              *)

\* Row d was uploaded to target, and is linked to it or to its own draft.
LinkedFor(d, target) == link[d] = target \/ (target = None /\ link[d] = d)

\* Every answer speaks of a row that is complete and as it was uploaded, but
\* that OCR may have linked it to a draft of its own.
AnswersHold ==
  \A a \in answers :
    /\ a.doc \in complete /\ UnderKey(a.key) = {a.doc}
    /\ content[a.doc] = a.content
    /\ LinkedFor(a.doc, a.target)

\* Inductive: so do requests on their way.
Links ==
  /\ \A u \in pending : u.at # "reserve" => LinkedFor(u.doc, u.target)
  /\ \A a \in answers :
       /\ a.doc \in complete /\ key[a.doc] = a.key /\ content[a.doc] = a.content
       /\ LinkedFor(a.doc, a.target)

LEMMA LinksInit == Init => Links
BY DEF Init, Links

\* A step that leaves the links alone, or sets one of a row that had none.
LEMMA LinksKept ==
  ASSUME Rows, Links,
         \A d \in Reserved : /\ key'[d] = key[d] /\ content'[d] = content[d]
                             /\ link'[d] = link[d] \/ (link[d] = None /\ link'[d] = d),
         complete \subseteq complete',
         \A u \in pending' : u \in pending \/ u.at = "reserve" \/ LinkedFor(u.doc, u.target)',
         \A a \in answers' : a \in answers \/
           /\ a.doc \in complete' /\ key'[a.doc] = a.key /\ content'[a.doc] = a.content
           /\ LinkedFor(a.doc, a.target)'
  PROVE  Links'
<1>1. ASSUME NEW d \in Reserved, NEW target, LinkedFor(d, target)
      PROVE  LinkedFor(d, target)'
  <2>1. CASE link'[d] = link[d]
    BY <1>1, <2>1 DEF LinkedFor
  <2>2. CASE link[d] = None /\ link'[d] = d
    <3>1. d # None
      BY KeysAreThere DEF Reserved
    <3> QED
      BY <1>1, <2>2, <3>1 DEF LinkedFor
  <2> QED
    BY <1>1, <2>1, <2>2
<1>2. ASSUME NEW u \in pending', u.at # "reserve"
      PROVE  LinkedFor(u.doc, u.target)'
  <2>1. CASE u \in pending
    BY <1>1, <1>2, <2>1, PendingTypes DEF Links
  <2> QED
    BY <1>2, <2>1
<1>3. ASSUME NEW a \in answers'
      PROVE  /\ a.doc \in complete' /\ key'[a.doc] = a.key /\ content'[a.doc] = a.content
             /\ LinkedFor(a.doc, a.target)'
  <2>1. CASE a \in answers
    <3>1. /\ a.doc \in complete /\ key[a.doc] = a.key /\ content[a.doc] = a.content
          /\ LinkedFor(a.doc, a.target)
      BY <2>1 DEF Links
    <3>2. a.doc \in Reserved
      BY <3>1 DEF Rows, TypeOK
    <3> QED
      BY <1>1, <3>1, <3>2
  <2> QED
    BY <1>3, <2>1
<1> QED
  BY <1>2, <1>3 DEF Links

LEMMA AnswerHolds ==
  ASSUME NEW u, NEW d, Answer(u, d), NEW a \in answers', a \notin answers
  PROVE  a.doc = d /\ a.key = u.key /\ a.target = u.target /\ a.content = u.content
BY DEF Answer

LEMMA LinksStep ==
  ASSUME Rows, Links, Next
  PROVE  Links'
<1>0. \A d \in Reserved : d \in Documents /\ d # None
  BY KeysAreThere DEF Reserved
<1>1. ASSUME UNCHANGED <<row, answers>>, complete \subseteq complete',
             \A u \in pending' : u \in pending \/ u.at = "reserve" \/ LinkedFor(u.doc, u.target)
      PROVE  Links'
  <2>1. UNCHANGED <<key, content, link>> /\ \A d, t : LinkedFor(d, t)' <=> LinkedFor(d, t)
    BY <1>1 DEF row, LinkedFor
  <2> QED
    BY <1>1, <2>1, LinksKept
<1>2. ASSUME NEW u, NEW d \in Documents, Answer(u, d), UNCHANGED row,
             pending' \subseteq pending, complete \subseteq complete', d \in complete',
             key[d] = u.key, content[d] = u.content, LinkedFor(d, u.target)
      PROVE  Links'
  <2>1. UNCHANGED <<key, content, link>> /\ \A e, t : LinkedFor(e, t)' <=> LinkedFor(e, t)
    BY <1>2 DEF row, LinkedFor
  <2>2. \A a \in answers' : a \in answers \/
          /\ a.doc \in complete' /\ key'[a.doc] = a.key /\ content'[a.doc] = a.content
          /\ LinkedFor(a.doc, a.target)'
    BY <1>2, <2>1, AnswerHolds
  <2> QED
    BY <1>2, <2>1, <2>2, LinksKept
<1>3. ASSUME NEW u \in Uploads, AnswerCompleted(u)
      PROVE  Links'
  <2>1. PICK d \in UnderKey(u.key) \intersect complete : Answer(u, d)
    BY <1>3 DEF AnswerCompleted
  <2>2. d \in Documents /\ key[d] = u.key /\ content[d] = u.content /\ LinkedFor(d, u.target)
    BY <1>3, <2>1 DEF AnswerCompleted, Arrive, Same, UnderKey, LinkedFor
  <2> QED
    BY <1>2, <1>3, <2>1, <2>2 DEF AnswerCompleted
<1>4. ASSUME NEW u \in Uploads, Start(u)
      PROVE  Links'
  BY <1>1, <1>4 DEF Start, Arrive
<1>5. ASSUME NEW u \in pending, NEW d \in Documents, Reserve(u, d)
      PROVE  Links'
  <2> DEFINE v == [u EXCEPT !.at = "put", !.doc = d]
  <2>1. /\ d \notin Reserved /\ link' = [link EXCEPT ![d] = u.target]
        /\ key' = [key EXCEPT ![d] = u.key] /\ content' = [content EXCEPT ![d] = u.content]
        /\ pending' = (pending \ {u}) \union {v} /\ UNCHANGED <<complete, answers>>
    BY <1>5 DEF Reserve, GoOn
  <2>2. v.doc = d /\ v.target = u.target
    BY GoOnTypes
  <2> HIDE DEF v
  <2>3. link'[d] = u.target
    BY <2>1 DEF Rows, TypeOK
  <2>4. LinkedFor(v.doc, v.target)'
    BY <2>2, <2>3 DEF LinkedFor
  <2>5. \A e \in Reserved : key'[e] = key[e] /\ content'[e] = content[e] /\ link'[e] = link[e]
    BY <1>0, <2>1 DEF Rows, TypeOK
  <2> QED
    BY <2>1, <2>4, <2>5, LinksKept
<1>6. ASSUME NEW u \in pending, NEW d \in Documents, Join(u, d)
      PROVE  Links'
  <2>1. /\ key[d] = u.key /\ content[d] = u.content /\ LinkedFor(d, u.target)
        /\ UNCHANGED <<row, complete>>
    BY <1>6 DEF Join, Same, UnderKey, LinkedFor
  <2>2. CASE d \in complete
    BY <1>2, <1>6, <2>1, <2>2 DEF Join
  <2>3. CASE d \notin complete
    <3> DEFINE v == [u EXCEPT !.at = "put", !.doc = d]
    <3>1. pending' = (pending \ {u}) \union {v} /\ answers' = answers
      BY <1>6, <2>3 DEF Join, GoOn
    <3>2. v.doc = d /\ v.target = u.target
      BY GoOnTypes
    <3> HIDE DEF v
    <3> QED
      BY <1>1, <2>1, <3>1, <3>2
  <2> QED
    BY <2>2, <2>3
<1>7. ASSUME NEW u \in pending, Put(u)
      PROVE  Links'
  <2> DEFINE v == [u EXCEPT !.at = "complete", !.doc = u.doc]
  <2>1. /\ u.at = "put" /\ pending' = (pending \ {u}) \union {v}
        /\ UNCHANGED <<row, complete, answers>>
    BY <1>7 DEF Put, GoOn
  <2>2. v.doc = u.doc /\ v.target = u.target
    BY <2>1, PendingTypes, GoOnTypes
  <2>3. LinkedFor(u.doc, u.target)
    BY <2>1 DEF Links
  <2> HIDE DEF v
  <2> QED
    BY <1>1, <2>1, <2>2, <2>3
<1>8. ASSUME NEW u \in pending, Complete(u)
      PROVE  Links'
  <2>1. /\ u.at = "complete" /\ complete' = complete \union {u.doc} /\ Answer(u, u.doc)
        /\ pending' = pending \ {u} /\ UNCHANGED row
    BY <1>8 DEF Complete
  <2>2. /\ u.doc \in Documents /\ key[u.doc] = u.key /\ content[u.doc] = u.content
        /\ LinkedFor(u.doc, u.target)
    BY <2>1, PendingTypes DEF Rows, Row, Links
  <2> QED
    BY <1>2, <2>1, <2>2
<1>9. ASSUME NEW d \in Documents, CreateDraft(d)
      PROVE  Links'
  <2>1. /\ link[d] = None /\ link' = [link EXCEPT ![d] = d]
        /\ UNCHANGED <<key, content, complete, pending, answers>>
    BY <1>9 DEF CreateDraft
  <2>2. \A e \in Reserved : link'[e] = link[e] \/ (link[e] = None /\ link'[e] = e)
    BY <1>0, <2>1 DEF Rows, TypeOK
  <2> QED
    BY <2>1, <2>2, LinksKept
<1>10. ASSUME UNCHANGED <<row, complete, answers>>, pending' \subseteq pending
       PROVE  Links'
  BY <1>1, <1>10
<1> QED
  BY <1>3, <1>4, <1>5, <1>6, <1>7, <1>8, <1>9, <1>10
     DEF Next, Abandon, DeleteDocument, SubmitTransaction, DeleteTransaction, ArchiveProject,
         UnarchiveProject, DeleteProject, SetProject

\* A retry of an answered upload finds one row under its key, complete and with
\* the same content.  It is refused only where the document has been deleted or
\* was uploaded to the project and OCR has created a draft for it: an upload to
\* a draft is answered as long as its document is there.
THEOREM RetriesFindTheirRow == Spec => []AnswersHold
<1>1. Rows /\ Links /\ [Next]_vars => Links'
  <2>1. ASSUME UNCHANGED vars, Links
        PROVE  Links'
    BY <2>1 DEF vars, row, Links, LinkedFor
  <2> QED
    BY <2>1, LinksStep
<1>2. Rows /\ Links => AnswersHold
  <2> SUFFICES ASSUME Rows, Links, NEW a \in answers
               PROVE  /\ a.doc \in complete /\ UnderKey(a.key) = {a.doc}
                      /\ content[a.doc] = a.content
                      /\ LinkedFor(a.doc, a.target)
    BY DEF AnswersHold
  <2>1. a.doc \in Reserved /\ key[a.doc] = a.key
    BY DEF Rows, TypeOK, Links
  <2> QED
    BY <2>1, OneRow DEF Links
<1> QED
  BY <1>1, <1>2, LinksInit, RowsAlways, PTL DEF Spec
=============================================================================
