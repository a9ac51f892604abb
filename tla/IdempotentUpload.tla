-------------------------- MODULE IdempotentUpload -------------------------
(***************************************************************************)
(* What uploads under an idempotency key promise: the first one that gets  *)
(* through takes effect, once; every other one is answered only if it is   *)
(* for the same content; and what was withdrawn is never taken again.      *)
(***************************************************************************)
EXTENDS Integers

CONSTANTS
  Keys,         \* idempotency keys of one uploader in one project
  Contents,     \* what may be uploaded
  None

VARIABLES
  outcome,      \* outcome[k]: None, the content accepted, or "withdrawn"
  announced,    \* announced[k]: audit events that announce an upload under k
  answers       \* successful answers: the key and the content of the request

vars == <<outcome, announced, answers>>

Init ==
  /\ outcome = [k \in Keys |-> None]
  /\ announced = [k \in Keys |-> 0]
  /\ answers = {}

Answer(k, c) == answers' = answers \union {<<k, c>>}

Accept(k, c) ==
  /\ outcome[k] = None
  /\ outcome' = [outcome EXCEPT ![k] = c]
  /\ announced' = [announced EXCEPT ![k] = @ + 1]
  /\ Answer(k, c)

AnswerAgain(k, c) ==
  /\ outcome[k] = c
  /\ Answer(k, c)
  /\ UNCHANGED <<outcome, announced>>

Withdraw(k) ==
  /\ outcome[k] \in Contents
  /\ outcome' = [outcome EXCEPT ![k] = "withdrawn"]
  /\ UNCHANGED <<announced, answers>>

Next ==
  \E k \in Keys :
    \/ Withdraw(k)
    \/ \E c \in Contents : Accept(k, c) \/ AnswerAgain(k, c)

Spec == Init /\ [][Next]_vars
=============================================================================
