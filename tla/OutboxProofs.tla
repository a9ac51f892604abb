---------------------------- MODULE OutboxProofs ----------------------------
(***************************************************************************)
(* Theorems about Outbox for every set of events and of workers, every     *)
(* batch size and every number of faults: its safety, and the safety half  *)
(* of its refinement of AtLeastOnce.                                       *)
(***************************************************************************)
EXTENDS Outbox, FiniteSetTheorems, TLAPS

-----------------------------------------------------------------------------
(* Type correctness, and what a worker holds.                              *)

\* Inductive: what is claimed was emitted, and a worker has sent at most one
\* row, which is one of its batch.
Holdings ==
  /\ TypeOK
  /\ \A w \in Workers :
       /\ batch[w] \subseteq emitted
       /\ sent[w] \subseteq batch[w]
       /\ \A e, f \in sent[w] : e = f

LEMMA FaultTypes == ASSUME TypeOK, Fault PROVE faults' \in 0..MaxFaults /\ faults' = faults + 1
BY FaultsAssumption DEF Fault, TypeOK

LEMMA FinishTypes ==
  ASSUME Holdings, NEW w \in Workers, Finish(w)
  PROVE  /\ batch' \in [Workers -> SUBSET Events]
         /\ sent' \in [Workers -> SUBSET Events]
         /\ acked' \in [Workers -> BOOLEAN]
         /\ \A v \in Workers :
              /\ batch'[v] \subseteq emitted
              /\ sent'[v] \subseteq batch'[v]
              /\ \A e, f \in sent'[v] : e = f
BY DEF Holdings, TypeOK, Finish

LEMMA SendTypes ==
  ASSUME Holdings, NEW w \in Workers, NEW e \in Events, NEW ok \in BOOLEAN, Send(w, e, ok),
         delivered' \in {delivered, [delivered EXCEPT ![e] = @ + 1]},
         faults' = faults \/ Fault
  PROVE  Holdings'
<1>1. /\ sent' = [sent EXCEPT ![w] = {e}] /\ acked' = [acked EXCEPT ![w] = ok]
      /\ UNCHANGED <<emitted, published, locked, resting, batch>> /\ e \in batch[w]
  BY DEF Send, rows
<1>2. delivered' \in [Events -> Nat]
  BY DEF Holdings, TypeOK
<1>3. faults' \in 0..MaxFaults
  BY FaultTypes DEF Holdings, TypeOK
<1>4. /\ sent' \in [Workers -> SUBSET Events] /\ acked' \in [Workers -> BOOLEAN]
  BY <1>1 DEF Holdings, TypeOK
<1>5. \A v \in Workers : /\ batch'[v] \subseteq emitted'
                         /\ sent'[v] \subseteq batch'[v]
                         /\ \A f, g \in sent'[v] : f = g
  BY <1>1 DEF Holdings, TypeOK
<1> QED
  BY <1>1, <1>2, <1>3, <1>4, <1>5 DEF Holdings, TypeOK

LEMMA HeldStep ==
  ASSUME Holdings, Next
  PROVE  Holdings'
<1>1. ASSUME NEW e \in Events, Emit(e) \/ ExpireLock(e) \/ Rested(e)
      PROVE  Holdings'
  BY <1>1 DEF Holdings, TypeOK, Emit, ExpireLock, Rested, workers
<1>2. ASSUME NEW e \in Events, OverrunLock(e)
      PROVE  Holdings'
  BY <1>2, FaultTypes DEF Holdings, TypeOK, OverrunLock, workers
<1>3. ASSUME NEW w \in Workers, NEW e \in Events, Publish(w, e)
      PROVE  Holdings'
  BY <1>3, SendTypes DEF Publish
<1>4. ASSUME NEW w \in Workers, NEW e \in Events, PublishFails(w, e)
      PROVE  Holdings'
  BY <1>4, SendTypes DEF PublishFails
<1>5. ASSUME NEW w \in Workers, Claim(w)
      PROVE  Holdings'
  <2>1. Oldest(Claimable) \subseteq emitted
    BY DEF Oldest, Claimable
  <2>2. /\ batch' = [batch EXCEPT ![w] = Oldest(Claimable)] /\ batch[w] = {}
        /\ locked' = locked \union Oldest(Claimable)
        /\ UNCHANGED <<emitted, published, resting, sent, acked, delivered, faults>>
    BY <1>5 DEF Claim, Idle
  <2> QED
    BY <2>1, <2>2 DEF Holdings, TypeOK
<1>6. ASSUME NEW w \in Workers, MarkPublished(w)
      PROVE  Holdings'
  <2>1. /\ Finish(w)
        /\ published' \subseteq emitted /\ locked' \subseteq emitted
        /\ UNCHANGED <<emitted, resting, delivered, faults>>
    BY <1>6 DEF MarkPublished, Holdings, TypeOK
  <2> QED
    BY <2>1, FinishTypes DEF Holdings, TypeOK
<1>7. ASSUME NEW w \in Workers, MarkFailed(w)
      PROVE  Holdings'
  <2>1. /\ Finish(w)
        /\ resting' \subseteq emitted /\ locked' \subseteq emitted
        /\ UNCHANGED <<emitted, published, delivered, faults>>
    BY <1>7 DEF MarkFailed, Holdings, TypeOK
  <2> QED
    BY <2>1, FinishTypes DEF Holdings, TypeOK
<1>8. ASSUME NEW w \in Workers, MarkLost(w)
      PROVE  Holdings'
  <2>1. Finish(w) /\ Fault /\ UNCHANGED <<emitted, published, locked, resting, delivered>>
    BY <1>8 DEF MarkLost, rows
  <2> QED
    BY <2>1, FinishTypes, FaultTypes DEF Holdings, TypeOK
<1>9. ASSUME NEW w \in Workers, Crash(w)
      PROVE  Holdings'
  <2>1. /\ batch' = [batch EXCEPT ![w] = {}] /\ sent' = [sent EXCEPT ![w] = {}] /\ Fault
        /\ UNCHANGED <<emitted, published, locked, resting, acked, delivered>>
    BY <1>9 DEF Crash, rows
  <2> QED
    BY <2>1, FaultTypes DEF Holdings, TypeOK
<1> QED
  BY <1>1, <1>2, <1>3, <1>4, <1>5, <1>6, <1>7, <1>8, <1>9 DEF Next

LEMMA HeldAlways == Spec => []Holdings
<1>1. Init => Holdings
  BY FaultsAssumption DEF Init, Holdings, TypeOK
<1>2. Holdings /\ [Next]_vars => Holdings'
  <2>1. ASSUME UNCHANGED vars, Holdings
        PROVE  Holdings'
    BY <2>1 DEF vars, rows, workers, Holdings, TypeOK
  <2> QED
    BY <2>1, HeldStep
<1> QED
  BY <1>1, <1>2, PTL DEF Spec

\* Every variable keeps its type.
THEOREM TypeCorrect == Spec => []TypeOK
<1>1. Holdings => TypeOK
  BY DEF Holdings
<1> QED
  BY <1>1, HeldAlways, PTL

-----------------------------------------------------------------------------
(* Delivery.                                                               *)

\* Inductive: what is retired or about to be was delivered, and what was
\* delivered was emitted.
Deliveries ==
  /\ PublishedWasDelivered
  /\ \A w \in Workers : acked[w] => \A e \in sent[w] : delivered[e] > 0
  /\ \A e \in Events : delivered[e] > 0 => e \in emitted

LEMMA DeliveriesStep ==
  ASSUME Holdings, Deliveries, Next
  PROVE  Deliveries'
<1>1. ASSUME NEW w \in Workers, NEW e \in Events, Publish(w, e) \/ PublishFails(w, e)
      PROVE  Deliveries'
  <2>1. /\ e \in batch[w] /\ e \in emitted
        /\ \E ok \in BOOLEAN : acked' = [acked EXCEPT ![w] = ok]
                           /\ (ok => delivered' = [delivered EXCEPT ![e] = @ + 1])
        /\ sent' = [sent EXCEPT ![w] = {e}]
        /\ delivered' \in {delivered, [delivered EXCEPT ![e] = @ + 1]}
        /\ UNCHANGED <<emitted, published>>
    BY <1>1 DEF Publish, PublishFails, Send, rows, Holdings
  <2>2. \A f \in Events : /\ delivered[f] \in Nat /\ delivered'[f] \in Nat
                          /\ delivered[f] > 0 => delivered'[f] > 0
                          /\ f # e => delivered'[f] = delivered[f]
    BY <2>1 DEF Holdings, TypeOK
  <2>3. PublishedWasDelivered'
    BY <2>1, <2>2 DEF Holdings, TypeOK, Deliveries, PublishedWasDelivered
  <2>4. ASSUME NEW v \in Workers, acked'[v], NEW f \in sent'[v]
        PROVE  delivered'[f] > 0
    <3>1. CASE v = w
      <4>1. f = e /\ delivered' = [delivered EXCEPT ![e] = @ + 1]
        BY <2>1, <2>4, <3>1 DEF Holdings, TypeOK
      <4> QED
        BY <4>1 DEF Holdings, TypeOK
    <3>2. CASE v # w
      <4>1. acked[v] /\ f \in sent[v] /\ f \in Events
        BY <2>1, <2>4, <3>2 DEF Holdings, TypeOK
      <4> QED
        BY <2>2, <4>1 DEF Deliveries
    <3> QED
      BY <3>1, <3>2
  <2>5. \A f \in Events : delivered'[f] > 0 => f \in emitted'
    BY <2>1, <2>2 DEF Deliveries
  <2> QED
    BY <2>3, <2>4, <2>5 DEF Deliveries
<1>2. ASSUME NEW w \in Workers, MarkPublished(w)
      PROVE  Deliveries'
  <2>1. /\ acked[w] /\ published' = published \union sent[w]
        /\ sent' = [sent EXCEPT ![w] = {}] /\ UNCHANGED <<emitted, acked, delivered>>
    BY <1>2 DEF MarkPublished, Finish
  <2> QED
    BY <2>1 DEF Holdings, TypeOK, Deliveries, PublishedWasDelivered
<1>3. ASSUME NEW w \in Workers, MarkFailed(w) \/ MarkLost(w) \/ Crash(w)
      PROVE  Deliveries'
  <2>1. sent' = [sent EXCEPT ![w] = {}] /\ UNCHANGED <<emitted, published, acked, delivered>>
    BY <1>3 DEF MarkFailed, MarkLost, Crash, Finish, rows
  <2> QED
    BY <2>1 DEF Holdings, TypeOK, Deliveries, PublishedWasDelivered
<1>4. ASSUME NEW e \in Events, Emit(e)
      PROVE  Deliveries'
  BY <1>4 DEF Emit, workers, Deliveries, PublishedWasDelivered
<1>5. CASE UNCHANGED <<emitted, published, sent, acked, delivered>>
  BY <1>5 DEF Deliveries, PublishedWasDelivered
<1> QED
  BY <1>1, <1>2, <1>3, <1>4, <1>5 DEF Next, ExpireLock, OverrunLock, Rested, Claim, workers

LEMMA DeliveriesAlways == Spec => []Deliveries
<1>1. Init => Deliveries
  BY DEF Init, Deliveries, PublishedWasDelivered
<1>2. Holdings /\ Deliveries /\ [Next]_vars => Deliveries'
  <2>1. ASSUME UNCHANGED vars, Deliveries
        PROVE  Deliveries'
    BY <2>1 DEF vars, rows, workers, Deliveries, PublishedWasDelivered
  <2> QED
    BY <2>1, DeliveriesStep
<1> QED
  BY <1>1, <1>2, HeldAlways, PTL DEF Spec

\* Nothing is retired that nobody has received.
THEOREM RetiredWasDelivered == Spec => []PublishedWasDelivered
<1>1. Deliveries => PublishedWasDelivered
  BY DEF Deliveries
<1> QED
  BY <1>1, DeliveriesAlways, PTL

-----------------------------------------------------------------------------
(* The safety of at-least-once delivery.                                   *)

LEMMA ChannelStep ==
  ASSUME Holdings, Deliveries, Next
  PROVE  [Channel!Next]_(Channel!vars)
<1> DEFINE D == {e \in Events : delivered[e] > 0}
<1> SUFFICES ASSUME ~(emitted' = emitted /\ D' = D /\ published' = published)
             PROVE  Channel!Next
  BY DEF Channel!vars
<1>1. ASSUME NEW e \in Events, Emit(e)
      PROVE  Channel!Emit(e)
  BY <1>1 DEF Emit, Channel!Emit
<1>2. ASSUME NEW w \in Workers, NEW e \in Events, Publish(w, e) \/ PublishFails(w, e)
      PROVE  Channel!Deliver(e)
  <2>1. /\ e \in emitted /\ UNCHANGED <<emitted, published>>
        /\ delivered' \in {delivered, [delivered EXCEPT ![e] = @ + 1]}
    BY <1>2 DEF Publish, PublishFails, Send, rows, Holdings
  <2>2. delivered' = [delivered EXCEPT ![e] = @ + 1]
    BY <2>1
  <2>3. D' = D \union {e}
    BY <2>2 DEF Holdings, TypeOK
  <2> QED
    BY <2>1, <2>3 DEF Channel!Deliver
<1>3. ASSUME NEW w \in Workers, MarkPublished(w)
      PROVE  Channel!Next
  <2>1. /\ sent[w] # {} /\ acked[w] /\ published' = published \union sent[w]
        /\ UNCHANGED <<emitted, delivered>>
    BY <1>3 DEF MarkPublished
  <2>2. PICK e \in Events : sent[w] = {e}
    BY <2>1 DEF Holdings, TypeOK
  <2>3. e \in D
    BY <2>1, <2>2 DEF Deliveries
  <2>4. Channel!Retire(e)
    BY <2>1, <2>2, <2>3 DEF Channel!Retire
  <2> QED
    BY <2>4 DEF Channel!Next
<1> QED
  BY <1>1, <1>2, <1>3 DEF Next, Channel!Next, ExpireLock, OverrunLock, Rested, Claim,
     MarkFailed, MarkLost, Crash, rows, workers

\* The publishers keep the channel's promise, as far as it is one of safety:
\* an event is delivered after it was emitted, and retired after that.
THEOREM ChannelIsSafe == Spec => Channel!Init /\ [][Channel!Next]_(Channel!vars)
<1>1. Init => Channel!Init
  BY DEF Init, Channel!Init
<1>2. Holdings /\ Deliveries /\ [Next]_vars => [Channel!Next]_(Channel!vars)
  <2>1. ASSUME UNCHANGED vars
        PROVE  UNCHANGED Channel!vars
    BY <2>1 DEF vars, rows, Channel!vars
  <2> QED
    BY <2>1, ChannelStep
<1> QED
  BY <1>1, <1>2, HeldAlways, DeliveriesAlways, PTL DEF Spec

-----------------------------------------------------------------------------
(* Duplicates.                                                             *)

\* The workers who may still send e, or make it claimable again without a
\* fault: those who have it and have not had it acknowledged.
Open(e) == {w \in Workers : e \in batch[w] /\ ~(e \in sent[w] /\ acked[w])}

\* e may be claimed without a fault: it has no lock, or one that may expire.
Loose(e) == e \notin published /\ (e \notin locked \/ ~Held(e))

\* Inductive: a fault pays for every delivery of e after the first, those that
\* may still come of what is claimed or claimable included.
Budget(e) == delivered[e] + Cardinality(Open(e)) + (IF Loose(e) THEN 1 ELSE 0) <= 1 + faults

Counts(e) == delivered[e] \in Nat /\ Cardinality(Open(e)) \in Nat /\ faults \in Nat

LEMMA OpenFinite == \A e : IsFiniteSet(Open(e)) /\ Cardinality(Open(e)) \in Nat
<1> SUFFICES ASSUME NEW e
             PROVE  IsFiniteSet(Open(e)) /\ Cardinality(Open(e)) \in Nat
  OBVIOUS
<1>1. Open(e) \in SUBSET Workers
  BY DEF Open
<1>2. IsFiniteSet(Open(e))
  BY <1>1, WorkersAssumption, FS_Subset
<1> QED
  BY <1>2, FS_CardinalityType

LEMMA CountTypes == ASSUME Holdings, NEW e \in Events PROVE Counts(e)
BY OpenFinite, FaultsAssumption DEF Holdings, TypeOK, Counts

\* What the end of a worker's row does to e.
LEMMA FinishCounts ==
  ASSUME Holdings, NEW w \in Workers, Finish(w), NEW e \in Events
  PROVE  IF e \in sent[w] THEN Open(e)' = Open(e) \ {w}
                          ELSE Open(e)' = Open(e) /\ Held(e)' = Held(e)
<1>1. /\ batch' = [batch EXCEPT ![w] = @ \ sent[w]] /\ sent' = [sent EXCEPT ![w] = {}]
      /\ acked' = acked
  BY DEF Finish
<1>2. \A v \in Workers : v # w => batch'[v] = batch[v] /\ sent'[v] = sent[v]
  BY <1>1 DEF Holdings, TypeOK
<1>3. batch'[w] = batch[w] \ sent[w] /\ sent'[w] = {}
  BY <1>1 DEF Holdings, TypeOK
<1>4. CASE e \in sent[w]
  BY <1>1, <1>2, <1>3, <1>4 DEF Open
<1>5. CASE e \notin sent[w]
  <2>1. Open(e)' = Open(e)
    BY <1>1, <1>2, <1>3, <1>5 DEF Open
  <2>2. Held(e)' = Held(e)
    BY <1>2, <1>3, <1>5 DEF Held
  <2> QED
    BY <1>5, <2>1, <2>2
<1> QED
  BY <1>4, <1>5

\* A set that loses an element has one less.
LEMMA Fewer ==
  ASSUME Holdings, NEW e \in Events, NEW w \in Workers, Open(e)' = Open(e) \ {w}
  PROVE  /\ Cardinality(Open(e)') <= Cardinality(Open(e))
         /\ w \in Open(e) => Cardinality(Open(e)') = Cardinality(Open(e)) - 1
<1>1. IsFiniteSet(Open(e)) /\ Cardinality(Open(e)) \in Nat
  BY OpenFinite
<1>2. Cardinality(Open(e) \ {w}) = IF w \in Open(e) THEN Cardinality(Open(e)) - 1
                                                 ELSE Cardinality(Open(e))
  BY <1>1, FS_RemoveElement
<1> QED
  BY <1>1, <1>2

LEMMA BudgetStep ==
  ASSUME Holdings, Holdings', Next, NEW e \in Events, Budget(e)
  PROVE  Budget(e)'
<1>0. Counts(e) /\ Counts(e)'
  <2>1. Cardinality(Open(e)') \in Nat
    <3>1. Open(e)' \in SUBSET Workers
      BY DEF Open
    <3>2. IsFiniteSet(Open(e)')
      BY <3>1, WorkersAssumption, FS_Subset
    <3> QED
      BY <3>2, FS_CardinalityType
  <2>2. delivered'[e] \in Nat /\ faults' \in Nat
    BY FaultsAssumption DEF Holdings, TypeOK
  <2> QED
    BY <2>1, <2>2, CountTypes DEF Counts
<1>1. CASE /\ Open(e)' = Open(e) /\ Held(e)' = Held(e)
           /\ e \in locked' <=> e \in locked
           /\ e \in published' <=> e \in published
           /\ \/ delivered'[e] = delivered[e] /\ faults' \in {faults, faults + 1}
              \/ delivered'[e] = delivered[e] + 1 /\ faults' = faults + 1
  BY <1>0, <1>1 DEF Budget, Counts, Loose
<1>2. ASSUME NEW f \in Events, ExpireLock(f)
      PROVE  Budget(e)'
  <2>1. /\ UNCHANGED <<published, batch, sent, acked, delivered, faults>>
        /\ locked' = locked \ {f} /\ ~Held(f)
    BY <1>2 DEF ExpireLock, workers
  <2>2. Open(e)' = Open(e) /\ Held(e)' = Held(e)
    BY <2>1 DEF Open, Held
  <2>3. Loose(e)' => Loose(e)
    BY <2>1, <2>2 DEF Loose
  <2> QED
    BY <1>0, <2>1, <2>2, <2>3 DEF Budget, Counts
<1>3. ASSUME NEW f \in Events, OverrunLock(f)
      PROVE  Budget(e)'
  <2>1. UNCHANGED <<published, batch, sent, acked, delivered>> /\ faults' = faults + 1
    BY <1>3 DEF OverrunLock, Fault, workers
  <2>2. Open(e)' = Open(e)
    BY <2>1 DEF Open
  <2> QED
    BY <1>0, <2>1, <2>2 DEF Budget, Counts
<1>4. ASSUME NEW w \in Workers, NEW f \in Events, Publish(w, f)
      PROVE  Budget(e)'
  <2>1. /\ sent' = [sent EXCEPT ![w] = {f}] /\ acked' = [acked EXCEPT ![w] = TRUE]
        /\ f \in batch[w] /\ sent[w] = {}
        /\ delivered' = [delivered EXCEPT ![f] = @ + 1]
        /\ UNCHANGED <<published, locked, batch, faults>>
    BY <1>4 DEF Publish, Send, rows
  <2>2. \A v \in Workers : v # w => sent'[v] = sent[v] /\ acked'[v] = acked[v]
    BY <2>1 DEF Holdings, TypeOK
  <2>3. sent'[w] = {f} /\ acked'[w] = TRUE
    BY <2>1 DEF Holdings, TypeOK
  <2>4. Held(e)' = Held(e) /\ (Loose(e)' <=> Loose(e))
    BY <2>1 DEF Held, Loose
  <2>5. CASE e = f
    <3>1. Open(e)' = Open(e) \ {w} /\ w \in Open(e)
      BY <2>1, <2>2, <2>3, <2>5 DEF Open
    <3>2. delivered'[e] = delivered[e] + 1
      BY <2>1, <2>5 DEF Holdings, TypeOK
    <3>3. Cardinality(Open(e)') = Cardinality(Open(e)) - 1
      BY <3>1, Fewer
    <3> QED
      BY <1>0, <2>1, <2>4, <3>2, <3>3 DEF Budget, Counts
  <2>6. CASE e # f
    <3>1. Open(e)' = Open(e)
      BY <2>1, <2>2, <2>3, <2>6 DEF Open
    <3>2. delivered'[e] = delivered[e]
      BY <2>1, <2>6 DEF Holdings, TypeOK
    <3> QED
      BY <1>0, <2>1, <2>4, <3>1, <3>2 DEF Budget, Counts
  <2> QED
    BY <2>5, <2>6
<1>5. ASSUME NEW w \in Workers, NEW f \in Events, PublishFails(w, f)
      PROVE  Budget(e)'
  <2>1. /\ sent' = [sent EXCEPT ![w] = {f}] /\ acked' = [acked EXCEPT ![w] = FALSE]
        /\ f \in batch[w] /\ sent[w] = {} /\ faults' = faults + 1
        /\ delivered' \in {delivered, [delivered EXCEPT ![f] = @ + 1]}
        /\ UNCHANGED <<published, locked, batch>>
    BY <1>5 DEF PublishFails, Send, Fault, rows
  <2>2. \A v \in Workers : v # w => sent'[v] = sent[v] /\ acked'[v] = acked[v]
    BY <2>1 DEF Holdings, TypeOK
  <2>3. sent'[w] = {f} /\ acked'[w] = FALSE
    BY <2>1 DEF Holdings, TypeOK
  <2>4. Open(e)' = Open(e)
    BY <2>1, <2>2, <2>3 DEF Open
  <2>5. Held(e)' = Held(e)
    BY <2>1 DEF Held
  <2>6. delivered'[e] \in {delivered[e], delivered[e] + 1}
    BY <2>1 DEF Holdings, TypeOK
  <2> QED
    BY <1>1, <2>1, <2>4, <2>5, <2>6
<1>6. ASSUME NEW w \in Workers, Claim(w)
      PROVE  Budget(e)'
  <2>1. /\ batch[w] = {} /\ sent[w] = {}
        /\ batch' = [batch EXCEPT ![w] = Oldest(Claimable)]
        /\ locked' = locked \union Oldest(Claimable)
        /\ UNCHANGED <<published, sent, acked, delivered, faults>>
    BY <1>6 DEF Claim, Idle, Holdings
  <2>2. \A v \in Workers : v # w => batch'[v] = batch[v]
    BY <2>1 DEF Holdings, TypeOK
  <2>3. batch'[w] = Oldest(Claimable)
    BY <2>1 DEF Holdings, TypeOK
  <2>4. CASE e \in Oldest(Claimable)
    <3>1. Open(e)' = Open(e) \union {w} /\ w \notin Open(e)
      BY <2>1, <2>2, <2>3, <2>4 DEF Open
    <3>2. Cardinality(Open(e)') = Cardinality(Open(e)) + 1
      BY <3>1, OpenFinite, FS_AddElement
    <3>3. Loose(e)
      BY <2>4 DEF Loose, Oldest, Claimable
    <3>4. ~Loose(e)'
      BY <2>1, <2>3, <2>4 DEF Loose, Held
    <3> QED
      BY <1>0, <2>1, <3>2, <3>3, <3>4 DEF Budget, Counts
  <2>5. CASE e \notin Oldest(Claimable)
    <3>1. Open(e)' = Open(e) /\ Held(e)' = Held(e)
      BY <2>1, <2>2, <2>3, <2>5 DEF Open, Held
    <3> QED
      BY <1>1, <2>1, <2>5, <3>1
  <2> QED
    BY <2>4, <2>5
<1>7. ASSUME NEW w \in Workers, MarkPublished(w)
      PROVE  Budget(e)'
  <2>1. /\ Finish(w) /\ published' = published \union sent[w]
        /\ locked' = locked \ sent[w] /\ UNCHANGED <<delivered, faults>>
    BY <1>7 DEF MarkPublished
  <2>2. CASE e \in sent[w]
    <3>1. ~Loose(e)' /\ Open(e)' = Open(e) \ {w}
      BY <2>1, <2>2, FinishCounts DEF Loose
    <3>2. Cardinality(Open(e)') <= Cardinality(Open(e))
      BY <3>1, Fewer
    <3> QED
      BY <1>0, <2>1, <3>1, <3>2 DEF Budget, Counts
  <2>3. CASE e \notin sent[w]
    BY <1>1, <2>1, <2>3, FinishCounts
  <2> QED
    BY <2>2, <2>3
<1>8. ASSUME NEW w \in Workers, MarkFailed(w)
      PROVE  Budget(e)'
  <2>1. /\ Finish(w) /\ ~acked[w] /\ locked' = locked \ (sent[w] \ published)
        /\ UNCHANGED <<published, delivered, faults>>
    BY <1>8 DEF MarkFailed
  <2>2. CASE e \in sent[w]
    <3>1. Open(e)' = Open(e) \ {w} /\ w \in Open(e)
      BY <2>1, <2>2, FinishCounts DEF Open, Holdings
    <3>2. Cardinality(Open(e)') = Cardinality(Open(e)) - 1
      BY <3>1, Fewer
    <3> QED
      BY <1>0, <2>1, <3>2 DEF Budget, Counts
  <2>3. CASE e \notin sent[w]
    BY <1>1, <2>1, <2>3, FinishCounts
  <2> QED
    BY <2>2, <2>3
<1>9. ASSUME NEW w \in Workers, MarkLost(w)
      PROVE  Budget(e)'
  <2>1. Finish(w) /\ UNCHANGED <<published, locked, delivered>> /\ faults' = faults + 1
    BY <1>9 DEF MarkLost, Fault, rows
  <2>2. CASE e \in sent[w]
    <3>1. Open(e)' = Open(e) \ {w}
      BY <2>1, <2>2, FinishCounts
    <3>2. Cardinality(Open(e)') <= Cardinality(Open(e))
      BY <3>1, Fewer
    <3> QED
      BY <1>0, <2>1, <3>2 DEF Budget, Counts
  <2>3. CASE e \notin sent[w]
    BY <1>1, <2>1, <2>3, FinishCounts
  <2> QED
    BY <2>2, <2>3
<1>10. ASSUME NEW w \in Workers, Crash(w)
       PROVE  Budget(e)'
  <2>1. /\ batch' = [batch EXCEPT ![w] = {}] /\ sent' = [sent EXCEPT ![w] = {}]
        /\ UNCHANGED <<acked, published, locked, delivered>> /\ faults' = faults + 1
    BY <1>10 DEF Crash, Fault, rows
  <2>2. Open(e)' = Open(e) \ {w}
    BY <2>1 DEF Open, Holdings, TypeOK
  <2>3. Cardinality(Open(e)') <= Cardinality(Open(e))
    BY <2>2, Fewer
  <2> QED
    BY <1>0, <2>1, <2>3 DEF Budget, Counts
<1>11. ASSUME NEW f \in Events, Emit(f) \/ Rested(f)
       PROVE  Budget(e)'
  <2>1. UNCHANGED <<published, locked, batch, sent, acked, delivered, faults>>
    BY <1>11 DEF Emit, Rested, workers
  <2> QED
    BY <1>1, <2>1 DEF Open, Held
<1> QED
  BY <1>2, <1>3, <1>4, <1>5, <1>6, <1>7, <1>8, <1>9, <1>10, <1>11 DEF Next

\* An event is delivered once, and at most once more for every fault.
THEOREM FaultsPayForDuplicates == Spec => []DuplicatesNeedFaults
<1> DEFINE Budgets == \A e \in Events : Budget(e)
<1>1. Init => Budgets
  <2> SUFFICES ASSUME Init, NEW e \in Events
               PROVE  Budget(e)
    OBVIOUS
  <2>1. Open(e) = {}
    BY DEF Init, Open
  <2> QED
    BY <2>1, FS_EmptySet DEF Init, Budget
<1>2. Holdings /\ Holdings' /\ Budgets /\ [Next]_vars => Budgets'
  <2>1. ASSUME UNCHANGED vars, Budgets
        PROVE  Budgets'
    BY <2>1 DEF vars, rows, workers, Budget, Open, Loose, Held
  <2> QED
    BY <2>1, BudgetStep
<1>3. Holdings /\ Budgets => DuplicatesNeedFaults
  BY CountTypes DEF Budget, Counts, DuplicatesNeedFaults
<1> QED
  BY <1>1, <1>2, <1>3, HeldAlways, PTL DEF Spec
=============================================================================
