------------------------------ MODULE LockOrder ------------------------------
(***************************************************************************)
(* The order in which the transactions around one upload take row locks    *)
(* (document/service.go, ocrconsumer/service.go, project/service.go and    *)
(* the locking queries).  Three rows matter: the project P, the draft T    *)
(* and the document D.  Nobody ever holds a lock outside a transaction;    *)
(* within one, a lock once taken is kept until commit or rollback, and     *)
(* Postgres rolls back one of a set of transactions that wait in a circle. *)
(*                                                                         *)
(* Grain.  Taking a lock, with the checks the code makes on the row then,  *)
(* is one action; commit is another.  A process runs one transaction: a    *)
(* request, or the handling of one event.  Whatever a transaction does     *)
(* besides is left out, and a transaction that locks one row and no other, *)
(* which no circle can go through, is one action.                          *)
(***************************************************************************)
EXTENDS Sequences, FiniteSets

CONSTANTS
  Completes,     \* uploads of the document that have reserved it and stored it
  Handlers,      \* consumers and sweepers with its OCR result
  Deletes,       \* requests to delete it
  Reserves       \* reservations of other documents for the draft

ASSUME KindsAssumption ==
  /\ Completes \intersect UNION {Handlers, Deletes, Reserves} = {}
  /\ Handlers \intersect UNION {Deletes, Reserves} = {}
  /\ Deletes \intersect Reserves = {}

VARIABLES
  doc,        \* the row D, and whether its upload was to the draft T
  draft,      \* the status of T, or none
  open,       \* P takes documents and drafts
  pc,         \* idle, claimed, running or done
  plan,       \* locks a running transaction has still to take
  held        \* locks it has

rows == <<doc, draft, open>>
vars == <<doc, draft, open, pc, plan, held>>

Processes == UNION {Completes, Handlers, Deletes, Reserves}

\* Lock modes: FOR UPDATE, the lock of an UPDATE that leaves the key alone,
\* and the lock a foreign key takes on the row it refers to.
Locks == {"P", "T", "D"} \X {"update", "nokey", "share"}
P == <<"P", "update">>
T == <<"T", "update">>
D == <<"D", "update">>

TypeOK ==
  /\ doc \in [target: BOOLEAN, complete: BOOLEAN, linked: BOOLEAN,
              deleted: BOOLEAN, ocr: {"pending", "processing", "completed", "needs_review"}]
  /\ ~doc.complete => doc.ocr = "pending" /\ ~doc.deleted
  /\ draft \in {"none", "draft", "pending_approval", "deleted"}
  /\ doc.linked <=> draft # "none"
  /\ open \in BOOLEAN
  /\ pc \in [Processes -> {"idle", "claimed", "running", "done"}]
  /\ plan \in [Processes -> Seq(Locks)]
  /\ held \in [Processes -> SUBSET Locks]
  /\ \A a \in Processes : pc[a] # "running" => plan[a] = <<>> /\ held[a] = {}

\* An upload to the project, or to a draft that is there.
Init ==
  /\ \E target \in BOOLEAN :
       /\ doc = [target |-> target, complete |-> FALSE, linked |-> target,
                 deleted |-> FALSE, ocr |-> "pending"]
       /\ draft = IF target THEN "draft" ELSE "none"
  /\ open = TRUE
  /\ pc = [a \in Processes |-> "idle"]
  /\ plan = [a \in Processes |-> <<>>]
  /\ held = [a \in Processes |-> {}]

-----------------------------------------------------------------------------
(* Locks. *)

\* Only a foreign key's lock goes with another's, or with an UPDATE.
Compatible(m, n) ==
  \/ m = "share" /\ n \in {"share", "nokey"}
  \/ n = "share" /\ m \in {"share", "nokey"}

Blocks(b, lock) ==
  \E l \in held[b] : l[1] = lock[1] /\ ~Compatible(l[2], lock[2])

Free(lock) == \A b \in Processes : ~Blocks(b, lock)
MayLock(a, lock) == \A b \in Processes \ {a} : ~Blocks(b, lock)

WaitsFor(a, b) == a # b /\ plan[a] # <<>> /\ Blocks(b, Head(plan[a]))

\* Three rows make no circle of more than three.
InCircle(a) ==
  \E b \in Processes :
    WaitsFor(a, b) /\ (WaitsFor(b, a) \/ \E c \in Processes : WaitsFor(b, c) /\ WaitsFor(c, a))

-----------------------------------------------------------------------------
(* What a transaction locks, in order, as far as it knows at its beginning. *)

\* upload, completion: the draft only if the request is for the draft.
CompletePlan == IF doc.target THEN <<P, T, D>> ELSE <<P, D>>

DocumentFirst == <<D>>

\* Delete reads the document before its transaction and locks the draft it
\* finds linked there first.
DeletePlan == IF doc.linked THEN <<T, D>> ELSE <<D>>

\* attach to the draft, or createDraft; keeping a result that failed or has no
\* total is one UPDATE.
HandlePlans == {IF doc.linked THEN <<T, D>> ELSE <<D, P>>, << <<"D", "nokey">> >>}

ReservePlan == <<P, <<"T", "share">>>>

Plans(a) ==
  CASE a \in Completes -> {CompletePlan}
    [] a \in Deletes -> {DeletePlan}
    [] a \in Handlers -> HandlePlans
    [] a \in Reserves -> {ReservePlan}

\* What the reads before the transaction have to find.
MayBegin(a) ==
  CASE a \in Deletes -> pc[a] = "idle" /\ doc.complete /\ ~doc.deleted
    [] a \in Handlers -> pc[a] = "claimed" /\ MayLock(a, D)
    [] a \in Reserves -> pc[a] = "idle" /\ draft = "draft"
    [] OTHER -> pc[a] = "idle"

\* What the code finds on the row it has just locked makes it roll back ...
Refused(a, lock) ==
  CASE lock[1] = "P" -> a \in Completes \union Reserves /\ ~open
    [] lock[1] = "T" -> \/ a \notin Reserves /\ draft = "deleted"
                        \/ a \in Completes \union Deletes /\ draft # "draft"
    [] lock[1] = "D" -> \/ doc.deleted
                        \/ a \in Handlers /\ doc.ocr # "processing"

\* ... or lock the draft that OCR has linked since the document was read.
Found(a, lock) ==
  IF a \in Deletes /\ lock = D /\ doc.linked /\ T \notin held[a] THEN <<T>> ELSE <<>>

-----------------------------------------------------------------------------
(* Processes. *)

KeepLocks(a) ==
  /\ pc' = [pc EXCEPT ![a] = "done"]
  /\ plan' = [plan EXCEPT ![a] = <<>>]
  /\ UNCHANGED held

\* ExecTx commits or rolls back, on every path.
Finish(a) ==
  /\ pc' = [pc EXCEPT ![a] = "done"]
  /\ plan' = [plan EXCEPT ![a] = <<>>]
  /\ held' = [held EXCEPT ![a] = {}]

ClaimReserved(a) ==
  /\ a \in Handlers /\ pc[a] = "idle" /\ MayLock(a, D)
  /\ ~doc.deleted /\ doc.ocr = "pending"
  /\ doc' = [doc EXCEPT !.ocr = "processing"]
  /\ pc' = [pc EXCEPT ![a] = "claimed"]
  /\ UNCHANGED <<draft, open, plan, held>>

\* The claim of a handler, a statement of its own.
Claim(a) ==
  /\ a \in Handlers /\ pc[a] = "idle" /\ MayLock(a, D)
  /\ doc.complete /\ ~doc.deleted /\ doc.ocr = "pending"
  /\ doc' = [doc EXCEPT !.ocr = "processing"]
  /\ pc' = [pc EXCEPT ![a] = "claimed"]
  /\ UNCHANGED <<draft, open, plan, held>>

Begin(a) ==
  /\ MayBegin(a)
  /\ pc' = [pc EXCEPT ![a] = "running"]
  /\ \E s \in Plans(a) : plan' = [plan EXCEPT ![a] = s]
  /\ UNCHANGED <<rows, held>>

Lock(a) ==
  /\ plan[a] # <<>>
  /\ LET lock == Head(plan[a]) IN
       /\ MayLock(a, lock) /\ ~Refused(a, lock)
       /\ a \in Handlers /\ lock = P => open
       /\ held' = [held EXCEPT ![a] = @ \union {lock}]
       /\ plan' = [plan EXCEPT ![a] = Tail(@) \o Found(a, lock)]
  /\ UNCHANGED <<rows, pc>>

Refuse(a) ==
  /\ plan[a] # <<>> /\ MayLock(a, Head(plan[a])) /\ Refused(a, Head(plan[a]))
  /\ Finish(a)
  /\ UNCHANGED rows

\* createDraft finds no open project to lock and keeps the result for review.
Park(a) ==
  /\ a \in Handlers /\ plan[a] = <<P>> /\ ~open
  /\ doc' = [doc EXCEPT !.ocr = "needs_review"]
  /\ Finish(a)
  /\ UNCHANGED <<draft, open>>

Ready(a) == pc[a] = "running" /\ plan[a] = <<>>

CommitComplete(a) ==
  /\ a \in Completes /\ Ready(a)
  /\ doc' = [doc EXCEPT !.complete = TRUE]
  /\ Finish(a)
  /\ UNCHANGED <<draft, open>>

CommitDelete(a) ==
  /\ a \in Deletes /\ Ready(a)
  /\ doc' = [doc EXCEPT !.deleted = TRUE]
  /\ Finish(a)
  /\ UNCHANGED <<draft, open>>

\* attach books or, in a draft that is none any more, parks; createDraft links.
CommitHandle(a) ==
  /\ a \in Handlers /\ Ready(a)
  /\ \/ /\ T \in held[a]
        /\ doc' = [doc EXCEPT !.ocr = IF draft = "draft" THEN "completed" ELSE "needs_review"]
        /\ UNCHANGED draft
     \/ /\ P \in held[a]
        /\ doc' = [doc EXCEPT !.ocr = "completed", !.linked = TRUE]
        /\ draft' = "draft"
     \/ /\ held[a] = {<<"D", "nokey">>}
        /\ doc' = [doc EXCEPT !.ocr = "needs_review"]
        /\ UNCHANGED draft
  /\ Finish(a)
  /\ UNCHANGED open

CommitReserve(a) ==
  /\ a \in Reserves /\ Ready(a)
  /\ Finish(a)
  /\ UNCHANGED rows

\* Postgres rolls back one transaction of a circle.
BreakDeadlock(a) ==
  /\ InCircle(a)
  /\ Finish(a)
  /\ UNCHANGED rows

\* The process, its connection or its client goes away.
Crash(a) ==
  /\ pc[a] \in {"claimed", "running"}
  /\ Finish(a)
  /\ UNCHANGED rows

Commit(a) ==
  \/ CommitComplete(a) \/ CommitDelete(a) \/ CommitHandle(a)
  \/ CommitReserve(a)

Step(a) == Begin(a) \/ Lock(a) \/ Refuse(a) \/ Park(a) \/ Commit(a) \/ BreakDeadlock(a)

Submit ==
  /\ Free(T) /\ draft = "draft"
  /\ draft' = "pending_approval"
  /\ UNCHANGED <<doc, open, pc, plan, held>>

\* Deleting a draft and archiving a project are single UPDATEs.
DeleteTransaction ==
  /\ Free(<<"T", "nokey">>) /\ draft = "draft"
  /\ draft' = "deleted"
  /\ UNCHANGED <<doc, open, pc, plan, held>>

ArchiveProject ==
  /\ Free(<<"P", "nokey">>) /\ open
  /\ open' = FALSE
  /\ UNCHANGED <<doc, draft, pc, plan, held>>

Next ==
  \/ \E a \in Processes : Claim(a) \/ Step(a) \/ Crash(a)
  \/ Submit \/ DeleteTransaction \/ ArchiveProject

\* While some transaction that has begun can go on, some such transaction does.
\* Nobody needs more: each process runs one of them.
Spec == Init /\ [][Next]_vars /\ WF_vars(\E a \in Processes : pc[a] # "idle" /\ Step(a))

-----------------------------------------------------------------------------
(* Properties. *)

\* The comment of GetDocumentForProcessing (documents.sql:79-81) says how the
\* order is meant.  Transactions wait in a circle only where a second upload
\* with the same key completes the document while OCR creates its draft, or
\* where one of two deletions of a document has read it before OCR linked it.
CirclesAreKnown ==
  \A a \in Processes : InCircle(a) =>
    \E b \in Processes :
      /\ WaitsFor(a, b) /\ WaitsFor(b, a)
      /\ \/ {a, b} \subseteq Deletes
         \/ {a, b} \cap Completes # {} /\ {a, b} \cap Handlers # {}

\* Whoever has begun comes to an end: locks are given back, and a circle does
\* not outlast the deadlock detector.
EveryTransactionEnds ==
  <>[](\A a \in Processes : pc[a] # "running")
=============================================================================
