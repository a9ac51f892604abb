---------------------------- MODULE AtLeastOnce ----------------------------
(***************************************************************************)
(* What the outbox promises the services that consume its events: whatever *)
(* was emitted is delivered, and is not retired before it was.  How often  *)
(* it is delivered, in which order and by whom is left open.               *)
(***************************************************************************)
CONSTANT Events

VARIABLES
  emitted,      \* events of committed transactions
  delivered,    \* events the broker has accepted at least once
  retired       \* events nobody will deliver again

vars == <<emitted, delivered, retired>>

Init == emitted = {} /\ delivered = {} /\ retired = {}

Emit(e) ==
  /\ emitted' = emitted \union {e}
  /\ UNCHANGED <<delivered, retired>>

Deliver(e) ==
  /\ e \in emitted
  /\ delivered' = delivered \union {e}
  /\ UNCHANGED <<emitted, retired>>

Retire(e) ==
  /\ e \in delivered
  /\ retired' = retired \union {e}
  /\ UNCHANGED <<emitted, delivered>>

Next == \E e \in Events : Emit(e) \/ Deliver(e) \/ Retire(e)

Fairness == \A e \in Events : WF_vars(Deliver(e)) /\ WF_vars(Retire(e))

Spec == Init /\ [][Next]_vars /\ Fairness
=============================================================================
