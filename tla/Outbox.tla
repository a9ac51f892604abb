------------------------------- MODULE Outbox ------------------------------
(***************************************************************************)
(* The outbox and its publishers: rows of outbox_events are claimed in     *)
(* batches by the workers' one second loop (internal/app/worker.go), sent  *)
(* to Kafka and marked (internal/service/outbox/service.go).               *)
(*                                                                         *)
(* Grain.  Each SQL statement runs on its own, outside a transaction, so   *)
(* claiming, sending and marking are three actions of a worker and another *)
(* worker, a crash or the expiry of a lock may come between them.  Marking *)
(* does not look at locked_by.  A claim returns its batch in no particular *)
(* order, so any event of it may be sent next.  Time is abstracted: a lock *)
(* or a backoff may end at any moment.                                     *)
(***************************************************************************)
EXTENDS Integers, FiniteSets

CONSTANTS
  Events,       \* outbox rows, numbered in the order of (created_at, id)
  Workers,      \* publisher processes
  BatchSize,    \* LIMIT of a claim
  MaxFaults     \* bound on faults

ASSUME EventsAssumption == Events \subseteq Nat
ASSUME WorkersAssumption == IsFiniteSet(Workers)
ASSUME BatchAssumption == BatchSize \in Nat \ {0}
ASSUME FaultsAssumption == MaxFaults \in Nat

VARIABLES
  emitted,      \* rows whose emitting transaction has committed
  published,    \* rows with published_at
  locked,       \* rows with a locked_at less than five minutes old
  resting,      \* rows whose next_attempt_at is in the future
  batch,        \* batch[w]: rows claimed by w that it has not finished with
  sent,         \* sent[w]: the row w sent and has not marked yet, if any
  acked,        \* acked[w]: whether the send of that row was acknowledged
  delivered,    \* delivered[e]: times the broker has taken e
  faults        \* crashes, failed sends, failed marks and overrun locks so far

rows == <<emitted, published, locked, resting>>
workers == <<batch, sent, acked>>
vars == <<rows, workers, delivered, faults>>

TypeOK ==
  /\ emitted \subseteq Events
  /\ published \subseteq emitted
  /\ locked \subseteq emitted
  /\ resting \subseteq emitted
  /\ batch \in [Workers -> SUBSET Events]
  /\ sent \in [Workers -> SUBSET Events]
  /\ acked \in [Workers -> BOOLEAN]
  /\ delivered \in [Events -> Nat]
  /\ faults \in 0..MaxFaults

Init ==
  /\ emitted = {} /\ published = {} /\ locked = {} /\ resting = {}
  /\ batch = [w \in Workers |-> {}]
  /\ sent = [w \in Workers |-> {}]
  /\ acked = [w \in Workers |-> FALSE]
  /\ delivered = [e \in Events |-> 0]
  /\ faults = 0

Fault == faults < MaxFaults /\ faults' = faults + 1

-----------------------------------------------------------------------------
\* A transaction that emitted e commits.  Commits come in any order.
Emit(e) ==
  /\ e \notin emitted
  /\ emitted' = emitted \union {e}
  /\ UNCHANGED <<published, locked, resting, workers, delivered, faults>>

ClaimableUncommitted == Events \ (published \union locked \union resting)
ClaimableIgnoringLocks == emitted \ (published \union resting)

Claimable == emitted \ (published \union locked \union resting)

\* The BatchSize oldest of the rows es.
Oldest(es) == {e \in es : Cardinality({f \in es : f < e}) < BatchSize}

Idle(w) == batch[w] = {}

\* A worker takes the next batch when it is through with the last one.
Claim(w) ==
  /\ Idle(w)
  /\ Claimable # {}
  /\ batch' = [batch EXCEPT ![w] = Oldest(Claimable)]
  /\ locked' = locked \union Oldest(Claimable)
  /\ UNCHANGED <<emitted, published, resting, sent, acked, delivered, faults>>

Send(w, e, ok) ==
  /\ e \in batch[w]
  /\ sent[w] = {}
  /\ sent' = [sent EXCEPT ![w] = {e}]
  /\ acked' = [acked EXCEPT ![w] = ok]
  /\ UNCHANGED <<rows, batch>>

\* The broker takes the record and acknowledges it.
Publish(w, e) ==
  /\ Send(w, e, TRUE)
  /\ delivered' = [delivered EXCEPT ![e] = @ + 1]
  /\ UNCHANGED faults

PublishFailsSilently(w, e) ==
  /\ Send(w, e, TRUE)
  /\ Fault
  /\ delivered' \in {delivered, [delivered EXCEPT ![e] = @ + 1]}

\* Publish returns an error.  The broker may have taken the record all the same.
PublishFails(w, e) ==
  /\ Send(w, e, FALSE)
  /\ Fault
  /\ delivered' \in {delivered, [delivered EXCEPT ![e] = @ + 1]}

\* The worker goes on to the next row of its batch.
Finish(w) ==
  /\ batch' = [batch EXCEPT ![w] = @ \ sent[w]]
  /\ sent' = [sent EXCEPT ![w] = {}]
  /\ UNCHANGED acked

MarkPublished(w) ==
  /\ sent[w] # {} /\ acked[w]
  /\ published' = published \union sent[w]
  /\ locked' = locked \ sent[w]
  /\ Finish(w)
  /\ UNCHANGED <<emitted, resting, delivered, faults>>

\* The row is released and rests, unless another worker has published it.
MarkFailed(w) ==
  /\ sent[w] # {} /\ ~acked[w]
  /\ locked' = locked \ (sent[w] \ published)
  /\ resting' = resting \union (sent[w] \ published)
  /\ Finish(w)
  /\ UNCHANGED <<emitted, published, delivered, faults>>

\* The statement that marks the row fails: the row stays locked.
MarkLost(w) ==
  /\ sent[w] # {}
  /\ Fault
  /\ Finish(w)
  /\ UNCHANGED <<rows, delivered>>

\* The process dies or is shut down; it restarts with nothing claimed.
Crash(w) ==
  /\ ~Idle(w)
  /\ Fault
  /\ batch' = [batch EXCEPT ![w] = {}]
  /\ sent' = [sent EXCEPT ![w] = {}]
  /\ UNCHANGED <<rows, acked, delivered>>

Held(e) == \E w \in Workers : e \in batch[w]

LocksNeverExpire(e) == FALSE /\ UNCHANGED vars

\* Five minutes pass after a claim whose worker is no longer there ...
ExpireLock(e) ==
  /\ e \in locked
  /\ ~Held(e)
  /\ locked' = locked \ {e}
  /\ UNCHANGED <<emitted, published, resting, workers, delivered, faults>>

\* ... or is still busy with its batch.
OverrunLock(e) ==
  /\ e \in locked
  /\ Held(e)
  /\ Fault
  /\ locked' = locked \ {e}
  /\ UNCHANGED <<emitted, published, resting, workers, delivered>>

\* next_attempt_at passes.
Rested(e) ==
  /\ e \in resting
  /\ resting' = resting \ {e}
  /\ UNCHANGED <<emitted, published, locked, workers, delivered, faults>>

Next ==
  \/ \E e \in Events : Emit(e) \/ ExpireLock(e) \/ OverrunLock(e) \/ Rested(e)
  \/ \E w \in Workers, e \in Events : Publish(w, e) \/ PublishFails(w, e)
  \/ \E w \in Workers :
       Claim(w) \/ MarkPublished(w) \/ MarkFailed(w) \/ MarkLost(w) \/ Crash(w)

\* The workers' loop keeps ticking, and time passes.
Fairness ==
  /\ \A w \in Workers :
       /\ WF_vars(Claim(w))
       /\ WF_vars(\E e \in Events : Publish(w, e))
       /\ WF_vars(MarkPublished(w) \/ MarkFailed(w))
  /\ \A e \in Events : WF_vars(ExpireLock(e)) /\ WF_vars(Rested(e))

Spec == Init /\ [][Next]_vars /\ Fairness

-----------------------------------------------------------------------------
(* Properties.                                                             *)

\* A row is marked published only after the broker took its event: no crash,
\* lost answer or second worker can retire an event nobody received.
PublishedWasDelivered == \A e \in published : delivered[e] > 0

\* Without faults an event is delivered once, and each fault (a crash, a failed
\* send or mark, a worker slower than its lock) costs at most one duplicate of
\* it, although a late mark may release the lock of another worker.
DuplicatesNeedFaults == \A e \in Events : delivered[e] <= 1 + faults

Channel == INSTANCE AtLeastOnce WITH
  delivered <- {e \in Events : delivered[e] > 0},
  retired <- published

\* The publishers implement at-least-once delivery, liveness included: what is
\* emitted is delivered and retired, whatever crashes and locks do on the way.
DeliversAtLeastOnce == Channel!Spec
=============================================================================
