--------------------------- MODULE ApprovalChain ---------------------------
(***************************************************************************)
(* What the approval of an expense transaction promises, without the       *)
(* bookkeeping of the code: an approver has a turn exactly when everyone   *)
(* on a lower step has approved, one rejection settles the transaction,    *)
(* and unanimity approves it.  There are no activation or cancellation     *)
(* columns, no row locks and no requests here; ApprovalEngine has them and *)
(* is shown to implement this module.                                      *)
(***************************************************************************)
EXTENDS Integers

CONSTANTS
  Transactions,     \* transaction rows
  Approvers,        \* users who may be named by an approval rule
  MaxStep           \* steps are 1..MaxStep (the code allows 10)

VARIABLES
  outcome,          \* outcome[t]: where the transaction stands
  chain,            \* chain[t][u]: the step u is asked at, 0 if u is not asked
  vote              \* vote[t][u]: what u decided

vars == <<outcome, chain, vote>>

Outcomes  == {"draft", "deleted", "pending_approval", "approved", "rejected"}
Decisions == {"approved", "rejected"}
Votes     == Decisions \union {"none"}

NoChain == [u \in Approvers |-> 0]
NoVotes == [u \in Approvers |-> "none"]
Chains  == [Approvers -> 0..MaxStep] \ {NoChain}

TypeOK ==
  /\ outcome \in [Transactions -> Outcomes]
  /\ chain \in [Transactions -> [Approvers -> 0..MaxStep]]
  /\ vote \in [Transactions -> [Approvers -> Votes]]

Asked(t) == {u \in Approvers : chain[t][u] > 0}

HasTurn(t, u) ==
  /\ outcome[t] = "pending_approval"
  /\ u \in Asked(t)
  /\ vote[t][u] = "none"
  /\ \A v \in Asked(t) : chain[t][v] < chain[t][u] => vote[t][v] = "approved"

Init ==
  /\ outcome = [t \in Transactions |-> "draft"]
  /\ chain = [t \in Transactions |-> NoChain]
  /\ vote = [t \in Transactions |-> NoVotes]

Submit(t, c) ==
  /\ outcome[t] = "draft"
  /\ outcome' = [outcome EXCEPT ![t] = "pending_approval"]
  /\ chain' = [chain EXCEPT ![t] = c]
  /\ UNCHANGED vote

Delete(t) ==
  /\ outcome[t] = "draft"
  /\ outcome' = [outcome EXCEPT ![t] = "deleted"]
  /\ UNCHANGED <<chain, vote>>

Reject(t, u) ==
  /\ HasTurn(t, u)
  /\ vote' = [vote EXCEPT ![t][u] = "rejected"]
  /\ outcome' = [outcome EXCEPT ![t] = "rejected"]
  /\ UNCHANGED chain

\* u approves and somebody asked has yet to.
ApproveStep(t, u) ==
  /\ HasTurn(t, u)
  /\ \E v \in Asked(t) \ {u} : vote[t][v] # "approved"
  /\ vote' = [vote EXCEPT ![t][u] = "approved"]
  /\ UNCHANGED <<outcome, chain>>

\* u was the last one missing.
ApproveLast(t, u) ==
  /\ HasTurn(t, u)
  /\ \A v \in Asked(t) \ {u} : vote[t][v] = "approved"
  /\ vote' = [vote EXCEPT ![t][u] = "approved"]
  /\ outcome' = [outcome EXCEPT ![t] = "approved"]
  /\ UNCHANGED chain

Next ==
  \E t \in Transactions :
    \/ \E c \in Chains : Submit(t, c)
    \/ Delete(t)
    \/ \E u \in Approvers : Reject(t, u) \/ ApproveStep(t, u) \/ ApproveLast(t, u)

Spec == Init /\ [][Next]_vars
=============================================================================
