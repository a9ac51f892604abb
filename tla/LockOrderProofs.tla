-------------------------- MODULE LockOrderProofs --------------------------
(***************************************************************************)
(* Theorems about LockOrder for any number of uploads, handlers, deletions *)
(* and reservations: type correctness, and which transactions may wait for *)
(* each other in a circle.                                                 *)
(***************************************************************************)
EXTENDS LockOrder, Naturals, FiniteSetTheorems, TLAPS

S == <<"T", "share">>
N == <<"D", "nokey">>

-----------------------------------------------------------------------------
(* Sequences of locks, written out.                                        *)

LEMMA OneLock == \A x : Head(<<x>>) = x /\ Tail(<<x>>) = <<>> /\ <<x>> # <<>>
OBVIOUS

LEMMA TwoLocks ==
  \A x, y : Head(<<x, y>>) = x /\ Tail(<<x, y>>) = <<y>> /\ <<x, y>> # <<>>
OBVIOUS

LEMMA ThreeLocks ==
  \A x, y, z :
    Head(<<x, y, z>>) = x /\ Tail(<<x, y, z>>) = <<y, z>> /\ <<x, y, z>> # <<>>
OBVIOUS

LEMMA Concat ==
  /\ <<>> \o <<>> = <<>>
  /\ \A x : <<>> \o <<x>> = <<x>> /\ <<x>> \o <<>> = <<x>>
  /\ \A x, y : <<x, y>> \o <<>> = <<x, y>>
OBVIOUS

-----------------------------------------------------------------------------
(* The invariant.                                                          *)

\* Where a transaction of each kind may be: what it has still to lock, and what
\* it has locked.
CompleteAt(p, h) ==
  \/ /\ doc.target
     /\ \/ p = <<P, T, D>> /\ h = {}
        \/ p = <<T, D>> /\ h = {P}
        \/ p = <<D>> /\ h = {P, T}
        \/ p = <<>> /\ h = {P, T, D}
  \/ /\ ~doc.target
     /\ \/ p = <<P, D>> /\ h = {}
        \/ p = <<D>> /\ h = {P}
        \/ p = <<>> /\ h = {P, D}

DeleteAt(p, h) ==
  /\ doc.complete
  /\ \/ /\ doc.linked
        /\ \/ p = <<T, D>> /\ h = {}
           \/ p = <<D>> /\ h = {T}
           \/ p = <<>> /\ h = {T, D}
     \/ /\ ~doc.target
        /\ \/ p = <<D>> /\ h = {}
           \/ p = <<>> /\ h = {D}
           \/ p = <<T>> /\ h = {D} /\ doc.linked

HandleAt(p, h) ==
  \/ /\ doc.linked
     /\ \/ p = <<T, D>> /\ h = {}
        \/ p = <<D>> /\ h = {T}
        \/ p = <<>> /\ h = {T, D}
  \/ /\ ~doc.target
     /\ \/ p = <<D, P>> /\ h = {}
        \/ p = <<P>> /\ h = {D}
        \/ p = <<>> /\ h = {D, P}
  \/ p = <<N>> /\ h = {}
  \/ p = <<>> /\ h = {N}

ReserveAt(p, h) ==
  /\ doc.linked
  /\ \/ p = <<P, S>> /\ h = {}
     \/ p = <<S>> /\ h = {P}
     \/ p = <<>> /\ h = {P, S}

At(a, p, h) ==
  \/ a \in Completes /\ CompleteAt(p, h)
  \/ a \in Deletes /\ DeleteAt(p, h)
  \/ a \in Handlers /\ HandleAt(p, h)
  \/ a \in Reserves /\ ReserveAt(p, h)

Place(a) ==
  IF pc[a] = "running" THEN At(a, plan[a], held[a])
                       ELSE plan[a] = <<>> /\ held[a] = {}

RowTypes ==
  /\ doc \in [target: BOOLEAN, complete: BOOLEAN, linked: BOOLEAN,
              deleted: BOOLEAN, ocr: {"pending", "processing", "completed", "needs_review"}]
  /\ ~doc.complete => doc.ocr = "pending" /\ ~doc.deleted
  /\ draft \in {"none", "draft", "pending_approval", "deleted"}
  /\ doc.linked <=> draft # "none"
  /\ open \in BOOLEAN

\* What OCR has linked is settled.
Links ==
  /\ doc.target => doc.linked
  /\ doc.linked /\ ~doc.target => doc.ocr \notin {"pending", "processing"}

ProcessTypes ==
  /\ pc \in [Processes -> {"idle", "claimed", "running", "done"}]
  /\ plan \in [Processes -> Seq(Locks)]
  /\ held \in [Processes -> SUBSET Locks]

\* Two processes hold no conflicting locks.
Exclusion ==
  \A a, b \in Processes : a # b =>
    \A l \in held[a], m \in held[b] : l[1] = m[1] => Compatible(l[2], m[2])

Busy(h) == h \in Handlers /\ pc[h] \in {"claimed", "running"}

\* One handler at most has claimed the document and is not through with it.
OneClaim ==
  \A h \in Processes : Busy(h) =>
    /\ doc.ocr = "processing"
    /\ \A g \in Processes : Busy(g) => g = h

\* Inductive.
Order ==
  /\ RowTypes /\ Links /\ ProcessTypes
  /\ \A a \in Processes : Place(a)
  /\ Exclusion
  /\ OneClaim

LEMMA OrderTypes == Order => TypeOK
BY DEF Order, RowTypes, ProcessTypes, Place, TypeOK

LEMMA ShortSeqs ==
  ASSUME NEW L
  PROVE  /\ <<>> \in Seq(L)
         /\ \A x \in L : <<x>> \in Seq(L)
         /\ \A x, y \in L : <<x, y>> \in Seq(L)
         /\ \A x, y, z \in L : <<x, y, z>> \in Seq(L)
OBVIOUS

\* All there is to lock, in whatever order.
Rests ==
  {<<>>, <<P>>, <<T>>, <<D>>, <<S>>, <<N>>, <<T, D>>, <<P, D>>, <<D, P>>, <<P, S>>,
   <<P, T, D>>}

LEMMA LockTypes == {P, T, D, S, N} \subseteq Locks
BY DEF P, T, D, S, N, Locks

LEMMA RestTypes == Rests \subseteq Seq(Locks)
BY ShortSeqs, LockTypes DEF Rests

-----------------------------------------------------------------------------
(* Steps.                                                                  *)

\* What the row of the document keeps: its target, its link, its completion.
Grows ==
  /\ doc'.target = doc.target
  /\ doc.linked => doc'.linked
  /\ doc.complete => doc'.complete

LEMMA AtStays ==
  ASSUME Grows, NEW a, NEW p, NEW h, At(a, p, h)
  PROVE  At(a, p, h)'
BY DEF Grows, At, CompleteAt, DeleteAt, HandleAt, ReserveAt

\* Process a moves to plan p with locks h; the others stay where they are.
Moves(a, state, p, h) ==
  /\ pc' = [pc EXCEPT ![a] = state]
  /\ plan' = [plan EXCEPT ![a] = p]
  /\ held' = [held EXCEPT ![a] = h]

LEMMA MovesPlaces ==
  ASSUME Order, Grows, NEW a \in Processes,
         NEW state \in {"idle", "claimed", "running", "done"}, NEW p, NEW h,
         Moves(a, state, p, h),
         IF state = "running" THEN At(a, p, h)' ELSE p = <<>> /\ h = {}
  PROVE  ProcessTypes' /\ \A b \in Processes : Place(b)'
<1>1. p \in Seq(Locks) /\ h \in SUBSET Locks
  <2>1. p \in Rests
    BY DEF At, CompleteAt, DeleteAt, HandleAt, ReserveAt, Rests
  <2>2. h \in SUBSET {P, T, D, S, N}
    BY DEF At, CompleteAt, DeleteAt, HandleAt, ReserveAt
  <2> QED
    BY <2>1, <2>2, RestTypes, LockTypes
<1>2. ProcessTypes'
  BY <1>1 DEF Order, ProcessTypes, Moves
<1>3. ASSUME NEW b \in Processes, b # a
      PROVE  Place(b)'
  <2>1. pc'[b] = pc[b] /\ plan'[b] = plan[b] /\ held'[b] = held[b]
    BY <1>3 DEF Order, ProcessTypes, Moves
  <2>2. Place(b)
    BY DEF Order
  <2>3. CASE pc[b] = "running"
    BY <2>1, <2>2, <2>3, AtStays DEF Place
  <2>4. CASE pc[b] # "running"
    BY <2>1, <2>2, <2>4 DEF Place
  <2> QED
    BY <2>3, <2>4
<1>4. Place(a)'
  <2>1. pc'[a] = state /\ plan'[a] = p /\ held'[a] = h
    BY DEF Order, ProcessTypes, Moves
  <2> QED
    BY <2>1 DEF Place
<1> QED
  BY <1>2, <1>3, <1>4

LEMMA FinishStep ==
  ASSUME Order, Grows, RowTypes', Links', NEW a \in Processes, Finish(a),
         pc[a] \in {"claimed", "running"}, a \notin Handlers => doc'.ocr = doc.ocr
  PROVE  Order'
<1>1. Moves(a, "done", <<>>, {})
  BY DEF Finish, Moves
<1>2. ProcessTypes' /\ \A b \in Processes : Place(b)'
  BY <1>1, MovesPlaces
<1>3. /\ pc'[a] = "done" /\ held'[a] = {}
      /\ \A b \in Processes \ {a} : pc'[b] = pc[b] /\ held'[b] = held[b]
  BY <1>1 DEF Moves, Order, ProcessTypes
<1>4. Exclusion'
  BY <1>3 DEF Order, Exclusion
<1>5. OneClaim'
  BY <1>3 DEF Order, OneClaim, Busy
<1> QED
  BY <1>2, <1>4, <1>5 DEF Order

LEMMA BeginStep ==
  ASSUME Order, NEW a \in Processes, Begin(a)
  PROVE  Order'
<1>1. PICK p \in Plans(a) : Moves(a, "running", p, {})
  <2>1. pc[a] # "running"
    BY DEF Begin, MayBegin
  <2>2. held[a] = {}
    BY <2>1 DEF Order, Place
  <2>3. held' = [held EXCEPT ![a] = {}]
    BY <2>2 DEF Begin, Order, ProcessTypes
  <2> QED
    BY <2>3 DEF Begin, Moves
<1>2. Grows /\ UNCHANGED rows
  BY DEF Begin, Grows, rows
<1>3. At(a, p, {})'
  <2>1. CASE a \in Completes
    <3>1. p = CompletePlan
      BY <2>1, KindsAssumption DEF Plans
    <3> QED
      BY <1>2, <2>1, <3>1 DEF CompletePlan, At, CompleteAt, rows
  <2>2. CASE a \in Deletes
    <3>1. p = DeletePlan /\ doc.complete
      BY <2>2, KindsAssumption DEF Plans, Begin, MayBegin
    <3> QED
      BY <1>2, <2>2, <3>1 DEF DeletePlan, At, DeleteAt, rows, Order, Links
  <2>3. CASE a \in Handlers
    <3>1. p \in HandlePlans
      BY <2>3, KindsAssumption DEF Plans
    <3> QED
      BY <1>2, <2>3, <3>1 DEF HandlePlans, At, HandleAt, rows, Order, Links, N
  <2>4. CASE a \in Reserves
    <3>1. p = ReservePlan /\ draft = "draft"
      BY <2>4, KindsAssumption DEF Plans, Begin, MayBegin
    <3> QED
      BY <1>2, <2>4, <3>1 DEF ReservePlan, At, ReserveAt, rows, Order, RowTypes, S
  <2> QED
    BY <2>1, <2>2, <2>3, <2>4 DEF Processes
<1>4. ProcessTypes' /\ \A b \in Processes : Place(b)'
  BY <1>1, <1>2, <1>3, MovesPlaces
<1>5. RowTypes' /\ Links'
  BY <1>2 DEF Order, RowTypes, Links, rows
<1>6. Exclusion'
  BY DEF Order, Exclusion, Begin
<1>7. \A b \in Processes : Busy(b)' => Busy(b)
  <2>1. /\ \A b \in Processes \ {a} : pc'[b] = pc[b]
        /\ a \in Handlers => pc[a] = "claimed"
    BY <1>1, KindsAssumption DEF Moves, Order, ProcessTypes, Begin, MayBegin
  <2> QED
    BY <2>1 DEF Busy
<1>8. OneClaim'
  BY <1>2, <1>7 DEF Order, OneClaim, rows
<1> QED
  BY <1>4, <1>5, <1>6, <1>8 DEF Order

\* The plan with its first lock taken.
LEMMA CompleteNext ==
  ASSUME NEW p, NEW h, CompleteAt(p, h), p # <<>>
  PROVE  CompleteAt(Tail(p) \o <<>>, h \union {Head(p)})
<1>1. CASE doc.target /\ p = <<P, T, D>> /\ h = {}
  BY <1>1, ThreeLocks, Concat DEF CompleteAt
<1>2. CASE doc.target /\ p = <<T, D>> /\ h = {P}
  BY <1>2, TwoLocks, Concat DEF CompleteAt
<1>3. CASE doc.target /\ p = <<D>> /\ h = {P, T}
  BY <1>3, OneLock, Concat DEF CompleteAt
<1>4. CASE ~doc.target /\ p = <<P, D>> /\ h = {}
  BY <1>4, TwoLocks, Concat DEF CompleteAt
<1>5. CASE ~doc.target /\ p = <<D>> /\ h = {P}
  BY <1>5, OneLock, Concat DEF CompleteAt
<1> QED
  BY <1>1, <1>2, <1>3, <1>4, <1>5 DEF CompleteAt

LEMMA HandleNext ==
  ASSUME NEW p, NEW h, HandleAt(p, h), p # <<>>
  PROVE  HandleAt(Tail(p) \o <<>>, h \union {Head(p)})
<1>1. CASE doc.linked /\ p = <<T, D>> /\ h = {}
  BY <1>1, TwoLocks, Concat DEF HandleAt
<1>2. CASE doc.linked /\ p = <<D>> /\ h = {T}
  BY <1>2, OneLock, Concat DEF HandleAt
<1>3. CASE ~doc.target /\ p = <<D, P>> /\ h = {}
  BY <1>3, TwoLocks, Concat DEF HandleAt
<1>4. CASE ~doc.target /\ p = <<P>> /\ h = {D}
  BY <1>4, OneLock, Concat DEF HandleAt
<1>5. CASE p = <<N>> /\ h = {}
  BY <1>5, OneLock, Concat DEF HandleAt
<1> QED
  BY <1>1, <1>2, <1>3, <1>4, <1>5 DEF HandleAt

LEMMA ReserveNext ==
  ASSUME NEW p, NEW h, ReserveAt(p, h), p # <<>>
  PROVE  ReserveAt(Tail(p) \o <<>>, h \union {Head(p)})
<1>1. CASE p = <<P, S>> /\ h = {}
  BY <1>1, TwoLocks, Concat DEF ReserveAt
<1>2. CASE p = <<S>> /\ h = {P}
  BY <1>2, OneLock, Concat DEF ReserveAt
<1> QED
  BY <1>1, <1>2 DEF ReserveAt

\* A deletion may find on the document a draft that OCR has linked only now.
LEMMA DeleteNext ==
  ASSUME NEW a \in Deletes, NEW p, DeleteAt(p, held[a]), p # <<>>
  PROVE  DeleteAt(Tail(p) \o Found(a, Head(p)), held[a] \union {Head(p)})
<1> DEFINE h == held[a]
<1>1. P # T /\ P # D /\ T # D
  BY DEF P, T, D
<1>2. CASE p = <<T, D>> /\ h = {} /\ doc.linked
  BY <1>1, <1>2, TwoLocks, Concat DEF DeleteAt, Found
<1>3. CASE p = <<D>> /\ h = {T} /\ doc.linked
  BY <1>3, OneLock, Concat DEF DeleteAt, Found
<1>4. CASE p = <<D>> /\ h = {} /\ ~doc.target
  BY <1>4, OneLock, Concat DEF DeleteAt, Found
<1>5. CASE p = <<T>> /\ h = {D} /\ doc.linked
  BY <1>1, <1>5, OneLock, Concat DEF DeleteAt, Found
<1> QED
  BY <1>2, <1>3, <1>4, <1>5 DEF DeleteAt

LEMMA NextLock ==
  ASSUME Order, NEW a \in Processes, plan[a] # <<>>
  PROVE  At(a, Tail(plan[a]) \o Found(a, Head(plan[a])), held[a] \union {Head(plan[a])})
<1>1. At(a, plan[a], held[a])
  BY DEF Order, Place
<1>2. CASE a \in Completes
  <2>1. Found(a, Head(plan[a])) = <<>> /\ CompleteAt(plan[a], held[a])
    BY <1>1, <1>2, KindsAssumption DEF Found, At
  <2> QED
    BY <1>2, <2>1, CompleteNext DEF At
<1>3. CASE a \in Handlers
  <2>1. Found(a, Head(plan[a])) = <<>> /\ HandleAt(plan[a], held[a])
    BY <1>1, <1>3, KindsAssumption DEF Found, At
  <2> QED
    BY <1>3, <2>1, HandleNext DEF At
<1>4. CASE a \in Reserves
  <2>1. Found(a, Head(plan[a])) = <<>> /\ ReserveAt(plan[a], held[a])
    BY <1>1, <1>4, KindsAssumption DEF Found, At
  <2> QED
    BY <1>4, <2>1, ReserveNext DEF At
<1>5. CASE a \in Deletes
  <2>1. DeleteAt(plan[a], held[a])
    BY <1>1, <1>5, KindsAssumption DEF At
  <2> QED
    BY <1>5, <2>1, DeleteNext DEF At
<1> QED
  BY <1>2, <1>3, <1>4, <1>5 DEF Processes

LEMMA LockStep ==
  ASSUME Order, NEW a \in Processes, Lock(a)
  PROVE  Order'
<1> DEFINE lock == Head(plan[a])
<1>1. pc[a] = "running" /\ UNCHANGED rows /\ UNCHANGED pc /\ Grows
  BY DEF Lock, Order, Place, Grows, rows
<1>2. PICK p, h : p = Tail(plan[a]) \o Found(a, lock) /\ h = held[a] \union {lock}
  OBVIOUS
<1>3. At(a, p, h)
  BY <1>2, NextLock DEF Lock
<1>4. Moves(a, "running", p, h)
  BY <1>1, <1>2 DEF Lock, Moves, Order, ProcessTypes
<1>5. ProcessTypes' /\ \A b \in Processes : Place(b)'
  BY <1>1, <1>3, <1>4, AtStays, MovesPlaces
<1>6. RowTypes' /\ Links'
  BY <1>1 DEF Order, RowTypes, Links, rows
<1>7. OneClaim'
  BY <1>1 DEF Order, OneClaim, Busy, rows
<1>8. Exclusion'
  <2>1. \A b \in Processes \ {a} : \A l \in held[b] :
          l[1] = lock[1] => Compatible(l[2], lock[2]) /\ Compatible(lock[2], l[2])
    BY DEF Lock, MayLock, Blocks, Compatible
  <2>2. /\ held'[a] = held[a] \union {lock}
        /\ \A b \in Processes \ {a} : held'[b] = held[b]
    BY <1>2, <1>4 DEF Moves, Order, ProcessTypes
  <2> QED
    BY <2>1, <2>2 DEF Order, Exclusion
<1> QED
  BY <1>5, <1>6, <1>7, <1>8 DEF Order

LEMMA ClaimStep ==
  ASSUME Order, NEW a \in Processes, Claim(a)
  PROVE  Order'
<1>1. /\ plan[a] = <<>> /\ held[a] = {}
      /\ Moves(a, "claimed", <<>>, {})
  BY DEF Claim, Moves, Order, Place, ProcessTypes
<1>2. Grows /\ RowTypes' /\ Links'
  BY DEF Claim, Grows, Order, RowTypes, Links
<1>3. ProcessTypes' /\ \A b \in Processes : Place(b)'
  BY <1>1, <1>2, MovesPlaces
<1>4. Exclusion'
  BY DEF Claim, Order, Exclusion
<1>5. OneClaim'
  <2>1. /\ \A b \in Processes : ~Busy(b)
        /\ \A b \in Processes \ {a} : pc'[b] = pc[b]
        /\ doc'.ocr = "processing"
    BY DEF Claim, Order, OneClaim, ProcessTypes, RowTypes
  <2> QED
    BY <2>1 DEF OneClaim, Busy
<1> QED
  BY <1>2, <1>3, <1>4, <1>5 DEF Order

\* An end that leaves the rows as they are.
LEMMA RollbackStep ==
  ASSUME Order, NEW a \in Processes, Finish(a), UNCHANGED rows,
         pc[a] \in {"claimed", "running"}
  PROVE  Order'
<1>1. Grows /\ RowTypes' /\ Links' /\ doc'.ocr = doc.ocr
  BY DEF rows, Grows, Order, RowTypes, Links
<1> QED
  BY <1>1, FinishStep

LEMMA ParkStep ==
  ASSUME Order, NEW a \in Processes, Park(a)
  PROVE  Order'
<1>1. pc[a] = "running"
  BY OneLock DEF Park, Order, Place
<1>2. doc.ocr = "processing"
  BY <1>1 DEF Park, Order, OneClaim, Busy
<1>3. Grows /\ RowTypes' /\ Links'
  BY <1>2 DEF Park, Grows, Order, RowTypes, Links
<1> QED
  BY <1>1, <1>3, FinishStep DEF Park

LEMMA CommitStep ==
  ASSUME Order, NEW a \in Processes, Commit(a)
  PROVE  Order'
<1>1. CASE CommitComplete(a)
  <2>1. Grows /\ RowTypes' /\ Links' /\ doc'.ocr = doc.ocr
    BY <1>1 DEF CommitComplete, Grows, Order, RowTypes, Links
  <2> QED
    BY <1>1, <2>1, FinishStep DEF CommitComplete, Ready
<1>2. CASE CommitDelete(a)
  <2>1. doc.complete
    BY <1>2, KindsAssumption DEF CommitDelete, Ready, Order, Place, At, DeleteAt
  <2>2. Grows /\ RowTypes' /\ Links' /\ doc'.ocr = doc.ocr
    BY <1>2, <2>1 DEF CommitDelete, Grows, Order, RowTypes, Links
  <2> QED
    BY <1>2, <2>2, FinishStep DEF CommitDelete, Ready
<1>3. CASE CommitHandle(a)
  <2>1. doc.ocr = "processing"
    BY <1>3 DEF CommitHandle, Ready, Order, OneClaim, Busy
  <2>2. Grows /\ RowTypes' /\ Links'
    BY <1>3, <2>1 DEF CommitHandle, Grows, Order, RowTypes, Links
  <2> QED
    BY <1>3, <2>2, FinishStep DEF CommitHandle, Ready
<1>4. CASE CommitReserve(a)
  BY <1>4, RollbackStep DEF CommitReserve, Ready
<1> QED
  BY <1>1, <1>2, <1>3, <1>4 DEF Commit

\* What happens to the draft and the project by single statements.
LEMMA OtherStep ==
  ASSUME Order, Submit \/ DeleteTransaction \/ ArchiveProject \/ UNCHANGED vars
  PROVE  Order'
<1>1. Grows /\ UNCHANGED <<doc, pc, plan, held>>
  BY DEF Submit, DeleteTransaction, ArchiveProject, vars, rows, Grows
<1>2. RowTypes' /\ Links'
  BY DEF Submit, DeleteTransaction, ArchiveProject, vars, rows, Order, RowTypes, Links
<1>3. ProcessTypes' /\ Exclusion' /\ OneClaim'
  BY <1>1 DEF Order, ProcessTypes, Exclusion, OneClaim, Busy
<1>4. \A a \in Processes : Place(a)'
  BY <1>1 DEF Order, Place, At, CompleteAt, DeleteAt, HandleAt, ReserveAt
<1> QED
  BY <1>2, <1>3, <1>4 DEF Order

LEMMA OrderInit == Init => Order
<1> SUFFICES ASSUME Init PROVE Order
  OBVIOUS
<1>1. RowTypes /\ Links
  BY DEF Init, RowTypes, Links
<1>2. ProcessTypes /\ \A a \in Processes : Place(a)
  BY ShortSeqs DEF Init, ProcessTypes, Place
<1>3. Exclusion /\ OneClaim
  BY DEF Init, Exclusion, OneClaim, Busy
<1> QED
  BY <1>1, <1>2, <1>3 DEF Order

LEMMA OrderNext == Order /\ [Next]_vars => Order'
<1> SUFFICES ASSUME Order, [Next]_vars PROVE Order'
  OBVIOUS
<1>1. ASSUME NEW a \in Processes, Claim(a)
      PROVE  Order'
  BY <1>1, ClaimStep
<1>2. ASSUME NEW a \in Processes, Step(a)
      PROVE  Order'
  <2>1. CASE Begin(a)
    BY <2>1, BeginStep
  <2>2. CASE Lock(a)
    BY <2>2, LockStep
  <2>3. CASE Refuse(a)
    BY <2>3, RollbackStep DEF Refuse, Order, Place
  <2>4. CASE Park(a)
    BY <2>4, ParkStep
  <2>5. CASE Commit(a)
    BY <2>5, CommitStep
  <2>6. CASE BreakDeadlock(a)
    BY <2>6, RollbackStep DEF BreakDeadlock, InCircle, WaitsFor, Order, Place
  <2> QED
    BY <1>2, <2>1, <2>2, <2>3, <2>4, <2>5, <2>6 DEF Step
<1>3. ASSUME NEW a \in Processes, Crash(a)
      PROVE  Order'
  BY <1>3, RollbackStep DEF Crash
<1> QED
  BY <1>1, <1>2, <1>3, OtherStep DEF Next

LEMMA OrderAlways == Spec => []Order
BY OrderInit, OrderNext, PTL DEF Spec

\* Rows, plans and locks are what they are said to be, and a transaction that
\* does not run has none: however many uploads, handlers, deletions and
\* reservations there are, whoever is rolled back or crashes.
THEOREM TypeCorrect == Spec => []TypeOK
BY OrderAlways, OrderTypes, PTL
-----------------------------------------------------------------------------
(* Circles.  A transaction in one holds a lock and waits for another.      *)

Inner(a) == plan[a] # <<>> /\ held[a] # {}

\* A deletion that finds the draft linked after it has locked the document.
Late(a) ==
  /\ a \in Deletes /\ doc.linked /\ ~doc.target
  /\ Head(plan[a]) = T /\ held[a] = {D}

\* OCR, about to create the draft.
Creating(a) ==
  /\ a \in Handlers /\ ~doc.linked /\ ~doc.target
  /\ Head(plan[a]) = P /\ held[a] = {D}

ForDocument(a) ==
  /\ Head(plan[a]) = D
  /\ \/ doc.target /\ held[a] \subseteq {P, T}
     \/ doc.linked /\ a \in Deletes /\ held[a] = {T}
     \/ a \in Completes /\ held[a] = {P}

ForDraft(a) == doc.linked /\ Head(plan[a]) \in {T, S} /\ held[a] = {P}

LEMMA Inners ==
  ASSUME Order, NEW a \in Processes, Inner(a)
  PROVE  Late(a) \/ Creating(a) \/ ForDocument(a) \/ ForDraft(a)
<1>1. pc[a] = "running" /\ At(a, plan[a], held[a])
  BY DEF Inner, Order, Place
<1>2. CASE a \in Completes /\ CompleteAt(plan[a], held[a])
  BY <1>2, OneLock, TwoLocks
  DEF Inner, CompleteAt, ForDocument, ForDraft, Order, Links
<1>3. CASE a \in Deletes /\ DeleteAt(plan[a], held[a])
  BY <1>3, OneLock DEF Inner, DeleteAt, Late, ForDocument
<1>4. CASE a \in Handlers /\ HandleAt(plan[a], held[a])
  \* No draft is linked but by this handler.
  <2>1. doc.linked => doc.target
    BY <1>1, <1>4 DEF Order, OneClaim, Busy, Links
  <2> QED
    BY <1>4, <2>1, OneLock DEF Inner, HandleAt, Creating, ForDocument
<1>5. CASE a \in Reserves /\ ReserveAt(plan[a], held[a])
  BY <1>5, OneLock DEF Inner, ReserveAt, ForDraft
<1> QED
  BY <1>1, <1>2, <1>3, <1>4, <1>5 DEF At

\* Who may wait for whom.
LEMMA Waits ==
  ASSUME Order, NEW a \in Processes, NEW b \in Processes,
         Inner(a), Inner(b), WaitsFor(a, b)
  PROVE  /\ ~ForDraft(b)
         /\ ForDocument(a) => Late(b) \/ Creating(b)
         /\ Late(a) => b \in Deletes /\ ForDocument(b)
         /\ Creating(a) => b \in Completes /\ ForDocument(b)
<1>1. PICK l \in held[b] : l[1] = Head(plan[a])[1]
  BY DEF WaitsFor, Blocks
<1>2. /\ P[1] = "P" /\ T[1] = "T" /\ S[1] = "T" /\ D[1] = "D"
  BY DEF P, T, S, D
<1>3. /\ Late(a) \/ Creating(a) \/ ForDocument(a) \/ ForDraft(a)
      /\ Late(b) \/ Creating(b) \/ ForDocument(b) \/ ForDraft(b)
  BY Inners
<1>4. ForDocument(a) => Late(b) \/ Creating(b)
  BY <1>1, <1>2, <1>3 DEF ForDocument, ForDraft
<1>5. Late(a) => b \in Deletes /\ ForDocument(b)
  BY <1>1, <1>2, <1>3 DEF Late, Creating, ForDocument, ForDraft
<1>6. Creating(a) => b \in Completes /\ ForDocument(b)
  BY <1>1, <1>2, <1>3 DEF Late, Creating, ForDocument, ForDraft
<1>7. ~ForDraft(b)
  BY <1>1, <1>2, <1>3 DEF Late, Creating, ForDocument, ForDraft
<1> QED
  BY <1>4, <1>5, <1>6, <1>7

LEMMA OrderCircles == Order => CirclesAreKnown
<1> SUFFICES ASSUME Order, NEW a \in Processes, InCircle(a)
             PROVE  \E b \in Processes :
                      /\ WaitsFor(a, b) /\ WaitsFor(b, a)
                      /\ \/ {a, b} \subseteq Deletes
                         \/ {a, b} \cap Completes # {} /\ {a, b} \cap Handlers # {}
  BY DEF CirclesAreKnown
<1>1. PICK b \in Processes :
        WaitsFor(a, b) /\ (WaitsFor(b, a) \/ \E c \in Processes : WaitsFor(b, c) /\ WaitsFor(c, a))
  BY DEF InCircle
<1>2. ASSUME NEW x \in Processes, NEW y \in Processes, NEW z \in Processes,
             WaitsFor(x, y), WaitsFor(y, z)
      PROVE  Inner(y)
  BY <1>2 DEF WaitsFor, Blocks, Inner
<1>3. ASSUME NEW x \in Processes
      PROVE  ForDocument(x) => ~Late(x) /\ ~Creating(x)
  BY DEF ForDocument, Late, Creating, P, T, D
<1>4. CASE WaitsFor(b, a)
  <2>1. Inner(a) /\ Inner(b)
    BY <1>1, <1>2, <1>4
  <2>2. /\ Late(a) \/ Creating(a) \/ ForDocument(a)
        /\ Late(b) \/ Creating(b) \/ ForDocument(b)
    BY <1>1, <1>4, <2>1, Inners, Waits
  <2>3. \/ {a, b} \subseteq Deletes
        \/ {a, b} \cap Completes # {} /\ {a, b} \cap Handlers # {}
    <3>1. CASE ForDocument(a)
      BY <1>1, <1>4, <2>1, <3>1, Waits DEF Late, Creating
    <3>2. CASE Late(a) \/ Creating(a)
      BY <1>1, <1>4, <2>1, <3>2, Waits DEF Late, Creating
    <3> QED
      BY <2>2, <3>1, <3>2
  <2> QED
    BY <1>1, <1>4, <2>3
<1>5. CASE \E c \in Processes : WaitsFor(b, c) /\ WaitsFor(c, a)
  \* Whoever waits for the document waits for one who holds it, and the other
  \* way round: a circle is even.
  <2>1. PICK c \in Processes : WaitsFor(b, c) /\ WaitsFor(c, a)
    BY <1>5
  <2>2. Inner(a) /\ Inner(b) /\ Inner(c)
    BY <1>1, <1>2, <2>1
  <2>3. Late(a) \/ Creating(a) \/ ForDocument(a)
    BY <2>1, <2>2, Inners, Waits
  <2>4. CASE ForDocument(a)
    BY <1>1, <1>3, <2>1, <2>2, <2>4, Waits
  <2>5. CASE Late(a) \/ Creating(a)
    BY <1>1, <1>3, <2>1, <2>2, <2>5, Waits
  <2> QED
    BY <2>3, <2>4, <2>5
<1> QED
  BY <1>1, <1>4, <1>5

\* However many requests and handlers meet at one document: transactions wait
\* for each other in a circle only where a second upload completes the document
\* while OCR creates its draft, or one of two deletions read it before OCR
\* linked it.
THEOREM CirclesKnown == Spec => []CirclesAreKnown
BY OrderAlways, OrderCircles, PTL
-----------------------------------------------------------------------------
(* Progress: the part of EveryTransactionEnds that is not about fairness.  *)

\* What a running transaction needs for its next step: the guards of Lock and
\* Refuse, Park, Commit and BreakDeadlock.
MayGoOn(a) ==
  \/ /\ plan[a] # <<>> /\ MayLock(a, Head(plan[a]))
     /\ Refused(a, Head(plan[a])) \/ (a \in Handlers /\ Head(plan[a]) = P => open)
  \/ a \in Handlers /\ plan[a] = <<P>> /\ ~open
  \/ /\ Ready(a)
     /\ a \in Handlers => T \in held[a] \/ P \in held[a] \/ held[a] = {N}
  \/ InCircle(a)

\* While a transaction runs, one that does can go on.
SomebodyGoesOn ==
  (\E a \in Processes : pc[a] = "running") =>
    \E a \in Processes : pc[a] = "running" /\ MayGoOn(a)

LEMMA WhoeverCannotWaits ==
  ASSUME Order, NEW a \in Processes, pc[a] = "running", ~MayGoOn(a)
  PROVE  \E b \in Processes : WaitsFor(a, b) /\ pc[b] = "running" /\ held[b] # {}
<1>1. At(a, plan[a], held[a])
  BY DEF Order, Place
<1>2. plan[a] # <<>>
  <2> SUFFICES ASSUME plan[a] = <<>>
               PROVE  FALSE
    OBVIOUS
  <2>1. a \in Handlers /\ HandleAt(<<>>, held[a])
    BY <1>1, KindsAssumption DEF MayGoOn, Ready, At
  <2>2. T \in held[a] \/ P \in held[a] \/ held[a] = {N}
    BY <2>1, OneLock, TwoLocks DEF HandleAt
  <2> QED
    BY <2>2 DEF MayGoOn, Ready
<1>3. ~MayLock(a, Head(plan[a]))
  <2> SUFFICES ASSUME MayLock(a, Head(plan[a]))
               PROVE  FALSE
    OBVIOUS
  <2>1. a \in Handlers /\ Head(plan[a]) = P /\ ~open
    BY <1>2 DEF MayGoOn
  <2>2. HandleAt(plan[a], held[a])
    BY <1>1, <2>1, KindsAssumption DEF At
  <2>3. P # T /\ P # D /\ P # N
    BY DEF P, T, D, N
  <2>4. plan[a] = <<P>>
    BY <1>2, <2>1, <2>2, <2>3, OneLock, TwoLocks DEF HandleAt
  <2> QED
    BY <2>1, <2>4 DEF MayGoOn
<1>4. PICK b \in Processes : b # a /\ Blocks(b, Head(plan[a]))
  BY <1>3 DEF MayLock
<1>5. held[b] # {} /\ pc[b] = "running"
  BY <1>4 DEF Blocks, Order, Place
<1> QED
  BY <1>2, <1>4, <1>5 DEF WaitsFor

LEMMA OrderProgress == Order => SomebodyGoesOn
<1> SUFFICES ASSUME Order, NEW a \in Processes, pc[a] = "running",
                    \A b \in Processes : pc[b] = "running" => ~MayGoOn(b)
             PROVE  FALSE
  BY DEF SomebodyGoesOn
<1>1. ASSUME NEW x \in Processes, pc[x] = "running"
      PROVE  \E y \in Processes : WaitsFor(x, y) /\ pc[y] = "running" /\ Inner(y)
  <2>1. PICK y \in Processes : WaitsFor(x, y) /\ pc[y] = "running" /\ held[y] # {}
    BY <1>1, WhoeverCannotWaits
  <2>2. plan[y] # <<>>
    BY <2>1, WhoeverCannotWaits DEF WaitsFor
  <2> QED
    BY <2>1, <2>2 DEF Inner
\* Who holds the document waits for one who waits for the document, that is for
\* him: nobody else holds it.
<1>2. ASSUME NEW x \in Processes, pc[x] = "running", Inner(x), Late(x) \/ Creating(x)
      PROVE  FALSE
  <2>1. PICK y \in Processes : WaitsFor(x, y) /\ pc[y] = "running" /\ Inner(y)
    BY <1>1, <1>2
  <2>2. ForDocument(y)
    BY <1>2, <2>1, Waits
  <2>3. PICK z \in Processes : WaitsFor(y, z) /\ pc[z] = "running" /\ Inner(z)
    BY <1>1, <2>1
  <2>4. Late(z) \/ Creating(z)
    BY <2>1, <2>2, <2>3, Waits
  <2>5. D \in held[x] /\ D \in held[z] /\ D[1] = D[1] /\ ~Compatible(D[2], D[2])
    BY <1>2, <2>4 DEF Late, Creating, D, Compatible
  <2>6. x = z
    BY <2>5 DEF Order, Exclusion
  <2>7. InCircle(x)
    BY <2>1, <2>3, <2>6 DEF InCircle
  <2> QED
    BY <1>2, <2>7 DEF MayGoOn
<1>3. PICK b \in Processes : pc[b] = "running" /\ Inner(b)
  BY <1>1
<1>4. PICK c \in Processes : WaitsFor(b, c) /\ pc[c] = "running" /\ Inner(c)
  BY <1>1, <1>3
<1>5. ForDocument(c)
  BY <1>2, <1>3, <1>4, Inners, Waits
<1>6. PICK d \in Processes : WaitsFor(c, d) /\ pc[d] = "running" /\ Inner(d)
  BY <1>1, <1>4
<1>7. Late(d) \/ Creating(d)
  BY <1>4, <1>5, <1>6, Waits
<1> QED
  BY <1>2, <1>6, <1>7

\* While a transaction runs, one that does can go on: nobody waits but for one
\* who can, or for a circle, which Postgres breaks.
THEOREM WaitsEnd == Spec => []SomebodyGoesOn
BY OrderAlways, OrderProgress, PTL

\* How far a process has come.
Rank(a) ==
  CASE pc[a] = "idle" -> 0
    [] pc[a] = "claimed" -> 1
    [] pc[a] = "running" -> 2 + Cardinality(held[a])
    [] pc[a] = "done" -> 6

\* A process never falls back, and every step of its own brings it on.
ProcessesComeOn ==
  [][\A a \in Processes :
       /\ Rank(a) \in 0..6 /\ Rank(a)' >= Rank(a)
       /\ Claim(a) \/ Step(a) \/ Crash(a) => Rank(a)' > Rank(a)]_vars

LEMMA FewLocks ==
  ASSUME NEW x, NEW y, NEW z
  PROVE  /\ IsFiniteSet({}) /\ Cardinality({}) = 0
         /\ IsFiniteSet({x}) /\ Cardinality({x}) = 1
         /\ IsFiniteSet({x, y}) /\ Cardinality({x, y}) \in 0..3
         /\ IsFiniteSet({x, y, z}) /\ Cardinality({x, y, z}) \in 0..3
<1>1. IsFiniteSet({}) /\ Cardinality({}) = 0
  BY FS_EmptySet
<1>2. IsFiniteSet({x}) /\ Cardinality({x}) = 1
  BY FS_Singleton
<1>3. IsFiniteSet({x} \union {y}) /\ Cardinality({x} \union {y}) \in 1..2
  BY <1>2, FS_AddElement
<1>4. {x} \union {y} = {x, y} /\ {x, y} \union {z} = {x, y, z}
  OBVIOUS
<1>5. IsFiniteSet({x, y}) /\ Cardinality({x, y}) \in 1..2
  BY <1>3, <1>4
<1>6. IsFiniteSet({x, y} \union {z}) /\ Cardinality({x, y} \union {z}) \in 1..3
  BY <1>5, FS_AddElement
<1> QED
  BY <1>1, <1>2, <1>4, <1>5, <1>6

LEMMA HeldSize ==
  ASSUME Order, NEW a \in Processes
  PROVE  IsFiniteSet(held[a]) /\ Cardinality(held[a]) \in 0..3
<1>1. \/ held[a] = {}
      \/ \E x : held[a] = {x}
      \/ \E x, y : held[a] = {x, y}
      \/ \E x, y, z : held[a] = {x, y, z}
  BY DEF Order, Place, At, CompleteAt, DeleteAt, HandleAt, ReserveAt
<1>2. CASE held[a] = {}
  BY <1>2, FS_EmptySet
<1>3. ASSUME NEW x, held[a] = {x}
      PROVE  IsFiniteSet(held[a]) /\ Cardinality(held[a]) \in 0..3
  BY <1>3, FewLocks
<1>4. ASSUME NEW x, NEW y, held[a] = {x, y}
      PROVE  IsFiniteSet(held[a]) /\ Cardinality(held[a]) \in 0..3
  BY <1>4, FewLocks
<1>5. ASSUME NEW x, NEW y, NEW z, held[a] = {x, y, z}
      PROVE  IsFiniteSet(held[a]) /\ Cardinality(held[a]) \in 0..3
  <2>1. IsFiniteSet({x, y, z}) /\ Cardinality({x, y, z}) \in 0..3
    BY FewLocks
  <2> QED
    BY <1>5, <2>1
<1> QED
  BY <1>1, <1>2, <1>3, <1>4, <1>5

LEMMA RankType ==
  ASSUME Order, NEW a \in Processes
  PROVE  /\ Rank(a) \in 0..6
         /\ Rank(a) = IF pc[a] = "done" THEN 6
                      ELSE IF pc[a] = "running" THEN 2 + Cardinality(held[a])
                      ELSE IF pc[a] = "claimed" THEN 1 ELSE 0
         /\ pc[a] # "done" => Rank(a) <= 5
<1>1. pc[a] \in {"idle", "claimed", "running", "done"}
  BY DEF Order, ProcessTypes
<1>2. Cardinality(held[a]) \in 0..3
  BY HeldSize
<1> QED
  BY <1>1, <1>2 DEF Rank

RanksAreSmall == \A a \in Processes : Rank(a) \in 0..6

LEMMA OrderRanks == Order => RanksAreSmall
BY RankType DEF RanksAreSmall

\* No transaction asks for a lock it has.
LEMMA NewLock ==
  ASSUME Order, NEW a \in Processes, plan[a] # <<>>
  PROVE  Head(plan[a]) \notin held[a]
<1>1. At(a, plan[a], held[a])
  BY DEF Order, Place
<1>2. P # T /\ P # D /\ T # D /\ P # S
  BY DEF P, T, D, S
<1>3. CASE CompleteAt(plan[a], held[a])
  BY <1>2, <1>3, OneLock, TwoLocks, ThreeLocks DEF CompleteAt
<1>4. CASE DeleteAt(plan[a], held[a])
  BY <1>2, <1>4, OneLock, TwoLocks DEF DeleteAt
<1>5. CASE HandleAt(plan[a], held[a])
  BY <1>2, <1>5, OneLock, TwoLocks DEF HandleAt
<1>6. CASE ReserveAt(plan[a], held[a])
  BY <1>2, <1>6, OneLock, TwoLocks DEF ReserveAt
<1> QED
  BY <1>1, <1>3, <1>4, <1>5, <1>6 DEF At

\* What a process does is its own affair.
LEMMA OthersStay ==
  ASSUME Order, NEW a \in Processes, Claim(a) \/ Step(a) \/ Crash(a)
  PROVE  \A b \in Processes \ {a} : pc'[b] = pc[b] /\ held'[b] = held[b]
BY DEF Order, ProcessTypes, Claim, Step, Begin, Lock, Refuse, Park, Commit, CommitComplete,
       CommitDelete, CommitHandle, CommitReserve, BreakDeadlock, Crash, Finish

LEMMA OwnStep ==
  ASSUME Order, Order', NEW a \in Processes, Claim(a) \/ Step(a) \/ Crash(a)
  PROVE  Rank(a)' > Rank(a)
<1>1. CASE Claim(a)
  <2>1. pc[a] = "idle" /\ pc'[a] = "claimed"
    BY <1>1 DEF Claim, Order, ProcessTypes
  <2> QED
    BY <2>1 DEF Rank
<1>2. CASE Begin(a)
  <2>1. pc[a] \in {"idle", "claimed"} /\ pc'[a] = "running"
    BY <1>2 DEF Begin, MayBegin, Order, ProcessTypes
  <2>2. held'[a] = held[a] /\ Cardinality(held[a]) \in 0..3
    BY <1>2, HeldSize DEF Begin
  <2>3. Cardinality(held'[a]) \in 0..3
    BY <2>2
  <2> QED
    BY <2>1, <2>3 DEF Rank
<1>3. CASE Lock(a)
  <2>1. /\ pc[a] = "running" /\ pc'[a] = "running"
        /\ held'[a] = held[a] \union {Head(plan[a])}
    BY <1>3 DEF Lock, Order, Place, ProcessTypes
  <2>2. Cardinality(held'[a]) = Cardinality(held[a]) + 1
    BY <1>3, <2>1, HeldSize, NewLock, FS_AddElement DEF Lock
  <2>3. Cardinality(held[a]) \in 0..3
    BY HeldSize
  <2> QED
    BY <2>1, <2>2, <2>3 DEF Rank
<1>4. CASE Finish(a) /\ pc[a] \in {"claimed", "running"}
  <2>1. pc'[a] = "done"
    BY <1>4 DEF Finish, Order, ProcessTypes
  <2> QED
    BY <1>4, <2>1, RankType DEF Rank
<1>5. Refuse(a) \/ Park(a) \/ Commit(a) \/ BreakDeadlock(a) \/ Crash(a)
        => Finish(a) /\ pc[a] \in {"claimed", "running"}
  BY OneLock DEF Refuse, Park, Commit, CommitComplete, CommitDelete, CommitHandle, CommitReserve,
                 Ready, BreakDeadlock, InCircle, WaitsFor, Crash, Order, Place
<1> QED
  BY <1>1, <1>2, <1>3, <1>4, <1>5 DEF Step

\* Every process takes at most six steps, whatever the others do: each brings it
\* on, and none of anybody else sets it back.  With WaitsEnd and the fairness of
\* Spec this is why every transaction ends.
THEOREM StepsAreFew == Spec => ProcessesComeOn
<1>1. ASSUME Order, Order', RanksAreSmall, RanksAreSmall', [Next]_vars, NEW a \in Processes
      PROVE  /\ Rank(a) \in 0..6 /\ Rank(a)' >= Rank(a)
             /\ Claim(a) \/ Step(a) \/ Crash(a) => Rank(a)' > Rank(a)
  <2>1. Rank(a) \in 0..6 /\ Rank(a)' \in 0..6
    BY <1>1 DEF RanksAreSmall
  <2>2. \/ UNCHANGED <<pc, held>>
        \/ \E b \in Processes : Claim(b) \/ Step(b) \/ Crash(b)
    BY <1>1 DEF Next, Submit, DeleteTransaction, ArchiveProject, vars
  <2>3. CASE UNCHANGED <<pc, held>>
    <3>1. Rank(a)' = Rank(a)
      BY <2>3 DEF Rank
    <3> QED
      BY <1>1, <2>1, <3>1, OwnStep
  <2>4. ASSUME NEW b \in Processes \ {a}, Claim(b) \/ Step(b) \/ Crash(b)
        PROVE  Rank(a)' = Rank(a)
    BY <1>1, <2>4, OthersStay DEF Rank
  <2> QED
    BY <1>1, <2>1, <2>2, <2>3, <2>4, OwnStep
<1>2. Order /\ Order' /\ RanksAreSmall /\ RanksAreSmall' /\ [Next]_vars =>
        [\A a \in Processes :
           /\ Rank(a) \in 0..6 /\ Rank(a)' >= Rank(a)
           /\ Claim(a) \/ Step(a) \/ Crash(a) => Rank(a)' > Rank(a)]_vars
  BY <1>1
<1> QED
  BY <1>2, OrderAlways, OrderRanks, PTL DEF Spec, ProcessesComeOn
=============================================================================
