----------------------- MODULE TransactionDraftProofs -----------------------
(***************************************************************************)
(* Theorems about TransactionDraft for every set of clients, receipts and  *)
(* texts, every word and every bound.                                      *)
(***************************************************************************)
EXTENDS TransactionDraft, FiniteSetTheorems, TLAPS

-----------------------------------------------------------------------------
(* Sums.  The recursive function exists, by induction on its domain, and    *)
(* what it computes of a sequence does not depend on what follows.         *)

\* Induction, for a set of naturals.  (The finite sets 0..n are well-founded
\* under strict inclusion, so of those not in the set one is minimal.)
LEMMA SetInduction ==
  ASSUME NEW S \in SUBSET Nat, 0 \in S, \A n \in S : n + 1 \in S
  PROVE  S = Nat
<1> SUFFICES ASSUME S # Nat
             PROVE  FALSE
  OBVIOUS
<1> DEFINE R == StrictSubsetOrdering(Nat)
           Prefixes == {0..n : n \in Nat \ S}
<1>1. Prefixes \subseteq FiniteSubsetsOf(Nat) /\ Prefixes # {}
  <2>1. \A n \in Nat : IsFiniteSet(0..n) /\ 0..n \subseteq Nat
    BY FS_Interval
  <2> QED
    BY <2>1 DEF FiniteSubsetsOf
<1>2. PICK p \in Prefixes : \A q \in Prefixes : <<q, p>> \notin R
  <2> HIDE DEF Prefixes, R
  <2>1. IsWellFoundedOn(R, FiniteSubsetsOf(Nat))
    BY FS_StrictSubsetOrderingWellFounded DEF R
  <2> QED
    BY <1>1, <2>1, WFMin
<1>3. PICK n \in Nat \ S : p = 0..n
  BY <1>2, Zenon
<1>4. n # 0 /\ n - 1 \in Nat \ S
  BY <1>3
<1>5. 0..(n - 1) \in SUBSET Nat /\ 0..n \in SUBSET Nat /\ 0..(n - 1) \subseteq 0..n
      /\ n \in 0..n /\ n \notin 0..(n - 1)
  BY <1>3
<1>6. <<0..(n - 1), 0..n>> \in R
  BY <1>5 DEF StrictSubsetOrdering
<1> QED
  BY <1>2, <1>3, <1>4, <1>6

\* What Sum computes, up to an index.
SumsTo(s, g, k) == g = [n \in 0..k |-> IF n = 0 THEN 0 ELSE g[n - 1] + s[n]]

LEMMA SumsAt ==
  ASSUME NEW s, NEW g, NEW k \in Nat, SumsTo(s, g, k)
  PROVE  g[0] = 0 /\ \A n \in 1..k : g[n] = g[n - 1] + s[n]
<1> DEFINE h == [n \in 0..k |-> IF n = 0 THEN 0 ELSE g[n - 1] + s[n]]
<1>1. h[0] = 0 /\ \A n \in 1..k : h[n] = g[n - 1] + s[n]
  OBVIOUS
<1>2. g = h
  BY Zenon DEF SumsTo
<1> QED
  BY <1>1, <1>2, Zenon

LEMMA SumsExist ==
  ASSUME NEW s
  PROVE  \A k \in Nat : \E g : SumsTo(s, g, k)
<1> DEFINE K == {k \in Nat : \E g : SumsTo(s, g, k)}
<1>1. 0 \in K
  <2> DEFINE g == [n \in 0..0 |-> 0]
  <2>1. g = [n \in 0..0 |-> IF n = 0 THEN 0 ELSE g[n - 1] + s[n]]
    OBVIOUS
  <2> QED
    BY <2>1 DEF SumsTo
<1>2. ASSUME NEW k \in K
      PROVE  k + 1 \in K
  <2>1. PICK g : SumsTo(s, g, k)
    OBVIOUS
  <2> DEFINE h == [n \in 0..(k + 1) |-> IF n = 0 THEN 0 ELSE g[n - 1] + s[n]]
  <2>2. \A n \in 0..k : h[n] = g[n]
    BY <2>1, SumsAt
  <2>3. \A n \in 1..(k + 1) : h[n - 1] = g[n - 1]
    <3> HIDE DEF h
    <3>1. \A n \in 1..(k + 1) : n - 1 \in 0..k
      OBVIOUS
    <3> QED
      BY <2>2, <3>1
  <2>4. h = [n \in 0..(k + 1) |-> IF n = 0 THEN 0 ELSE h[n - 1] + s[n]]
    <3>1. \A n \in 0..(k + 1) :
            (IF n = 0 THEN 0 ELSE g[n - 1] + s[n]) = (IF n = 0 THEN 0 ELSE h[n - 1] + s[n])
      BY <2>3
    <3> QED
      BY <3>1
  <2>5. SumsTo(s, h, k + 1)
    BY <2>4, Zenon DEF SumsTo
  <2> QED
    BY <2>5
<1>3. K = Nat
  <2> HIDE DEF K
  <2>1. K \in SUBSET Nat
    BY DEF K
  <2> QED
    BY <1>1, <1>2, <2>1, SetInduction
<1> QED
  BY <1>3

LEMMA SumsAgree ==
  ASSUME NEW s, NEW t, NEW g, NEW h, NEW k \in Nat, NEW l \in Nat, k <= l,
         SumsTo(s, g, k), SumsTo(t, h, l), \A n \in 1..k : s[n] = t[n] /\ s[n] \in Nat
  PROVE  \A n \in 0..k : g[n] = h[n] /\ g[n] \in Nat
<1> DEFINE K == {n \in Nat : n \in 0..k => g[n] = h[n] /\ g[n] \in Nat}
<1>1. 0 \in K
  BY SumsAt
<1>2. ASSUME NEW n \in K
      PROVE  n + 1 \in K
  <2> SUFFICES ASSUME n + 1 \in 0..k
               PROVE  g[n + 1] = h[n + 1] /\ g[n + 1] \in Nat
    OBVIOUS
  <2>1. n \in 0..k /\ n + 1 \in 1..k /\ n + 1 \in 1..l /\ (n + 1) - 1 = n
    OBVIOUS
  <2>2. g[n + 1] = g[n] + s[n + 1]
    BY <2>1, SumsAt
  <2>3. h[n + 1] = h[n] + t[n + 1]
    BY <2>1, SumsAt
  <2>4. g[n] = h[n] /\ g[n] \in Nat
    BY <2>1
  <2> QED
    BY <2>1, <2>2, <2>3, <2>4
<1>3. K = Nat
  <2> HIDE DEF K
  <2>1. K \in SUBSET Nat
    BY DEF K
  <2> QED
    BY <1>1, <1>2, <2>1, SetInduction
<1> QED
  BY <1>3

LEMMA SumIs ==
  ASSUME NEW s \in Seq(Nat)
  PROVE  \E g : SumsTo(s, g, Len(s)) /\ Sum(s) = g[Len(s)]
<1>1. \E g : SumsTo(s, g, Len(s))
  <2>1. Len(s) \in Nat
    OBVIOUS
  <2> QED
    BY <2>1, SumsExist, Zenon
<1>2. SumsTo(s, CHOOSE g : SumsTo(s, g, Len(s)), Len(s))
  BY <1>1, Zenon
<1> QED
  BY <1>2, Zenon DEF Sum, SumsTo

\* The sum of naturals is a natural; one more item adds its amount.
LEMMA SumType ==
  ASSUME NEW s \in Seq(Nat)
  PROVE  Sum(s) \in Nat
<1>1. PICK g : SumsTo(s, g, Len(s)) /\ Sum(s) = g[Len(s)]
  BY SumIs
<1>2. Len(s) \in Nat /\ \A n \in 1..Len(s) : s[n] = s[n] /\ s[n] \in Nat
  OBVIOUS
<1>3. \A n \in 0..Len(s) : g[n] = g[n] /\ g[n] \in Nat
  BY <1>1, <1>2, SumsAgree
<1> QED
  BY <1>1, <1>2, <1>3

LEMMA SumAppend ==
  ASSUME NEW s \in Seq(Nat), NEW a \in Nat
  PROVE  Sum(Append(s, a)) = Sum(s) + a
<1> DEFINE t == Append(s, a)
           k == Len(s)
<1>1. t \in Seq(Nat) /\ Len(t) = k + 1 /\ k \in Nat /\ t[k + 1] = a
      /\ \A n \in 1..k : s[n] = t[n] /\ s[n] \in Nat
  OBVIOUS
<1> HIDE DEF t, k
<1>2. PICK g : SumsTo(s, g, k) /\ Sum(s) = g[k]
  BY SumIs DEF k
<1>3. PICK h : SumsTo(t, h, k + 1) /\ Sum(t) = h[k + 1]
  BY <1>1, SumIs
<1>4. g[k] = h[k]
  <2>1. k + 1 \in Nat /\ k <= k + 1 /\ k \in 0..k
    BY <1>1
  <2>2. SumsTo(s, g, k) /\ SumsTo(t, h, k + 1)
    BY <1>2, <1>3
  <2>3. k \in Nat /\ \A n \in 1..k : s[n] = t[n] /\ s[n] \in Nat
    BY <1>1
  <2>4. \A n \in 0..k : g[n] = h[n] /\ g[n] \in Nat
    BY <2>1, <2>2, <2>3, SumsAgree, Zenon
  <2> QED
    BY <2>1, <2>4
<1>5. h[k + 1] = h[k] + a
  <2>1. k + 1 \in Nat /\ k + 1 \in 1..(k + 1) /\ (k + 1) - 1 = k
    BY <1>1
  <2>2. h[k + 1] = h[(k + 1) - 1] + t[k + 1]
    BY <1>3, <2>1, SumsAt
  <2> QED
    BY <1>1, <2>1, <2>2
<1> QED
  BY <1>2, <1>3, <1>4, <1>5 DEF t, k

LEMMA SumOne == \A a \in Nat : Sum(<<a>>) = a
<1> SUFFICES ASSUME NEW a \in Nat
             PROVE  Sum(<<a>>) = a
  OBVIOUS
<1>1. PICK g : SumsTo(<<>>, g, 0) /\ Sum(<<>>) = g[0]
  <2>1. <<>> \in Seq(Nat) /\ Len(<<>>) = 0
    OBVIOUS
  <2> QED
    BY <2>1, SumIs
<1>2. Sum(<<>>) = 0
  BY <1>1, SumsAt
<1>3. <<a>> = Append(<<>>, a) /\ <<>> \in Seq(Nat)
  OBVIOUS
<1>4. Sum(Append(<<>>, a)) = Sum(<<>>) + a
  BY <1>3, SumAppend
<1> QED
  BY <1>2, <1>3, <1>4

-----------------------------------------------------------------------------
(* Type correctness.                                                       *)

LEMMA AmountsAreNaturals ==
  Amounts \subseteq Nat /\ Seq(Amounts) \subseteq Seq(Nat)
BY WordAssumption DEF Amounts

LEMMA EditTypes ==
  ASSUME NEW new \in Edits
  PROVE  new \in Seq(Amounts) /\ Len(new) \in Nat
BY ItemsAssumption DEF Edits

\* What the triggers leave is a word: the sum was checked, by the edit or by the
\* database.
LEMMA ContentTypes ==
  ASSUME TypeOK, Next
  PROVE  items' \in Seq(Amounts) /\ total' \in Amounts /\ total' = Sum(items')
<1>1. ASSUME NEW c \in Clients, NEW t \in Texts, NEW new \in Edits, Update(c, t, new)
      PROVE  items' \in Seq(Amounts) /\ total' \in Amounts /\ total' = Sum(items')
  <2>1. items' = new /\ total' = Sum(new) /\ Sum(new) <= MaxAmount
    BY <1>1 DEF Update, InsertTransactionItems, SyncTotal, ValidItems
  <2>2. new \in Seq(Amounts) /\ Sum(new) \in Nat
    BY EditTypes, AmountsAreNaturals, SumType
  <2> QED
    BY <2>1, <2>2, WordAssumption DEF Amounts
<1>2. ASSUME NEW d \in Receipts, NEW a \in Amounts \union {None}, Attach(d, a)
      PROVE  items' \in Seq(Amounts) /\ total' \in Amounts /\ total' = Sum(items')
  <2>1. /\ a \in Amounts /\ total + a <= MaxAmount
        /\ items' = Append(items, a) /\ total' = Sum(items')
    BY <1>2 DEF Attach, Bookable, SyncTotal
  <2>2. items \in Seq(Nat) /\ a \in Nat /\ total \in Nat /\ total = Sum(items)
    BY <2>1, AmountsAreNaturals DEF TypeOK
  <2>3. Sum(Append(items, a)) = total + a
    BY <2>2, SumAppend
  <2>4. items' \in Seq(Amounts)
    BY <2>1 DEF TypeOK
  <2> QED
    BY <2>1, <2>2, <2>3, <2>4, WordAssumption DEF Amounts
<1>3. \/ items' = items /\ total' = total
      \/ \E c \in Clients, t \in Texts, new \in Edits : Update(c, t, new)
      \/ \E d \in Receipts, a \in Amounts \union {None} : Attach(d, a)
  BY DEF Next, GetTransaction, ListTransactionItems, CloseView, UpdateText, Submit, Delete,
         Claim, Park, AttachFails
<1> QED
  BY <1>1, <1>2, <1>3 DEF TypeOK

LEMMA VersionTypes ==
  ASSUME TypeOK, Next
  PROVE  version' \in 1..MaxVersion
<1>1. ASSUME NEW n \in Nat, BumpVersion(n)
      PROVE  version' \in 1..MaxVersion
  BY <1>1, VersionAssumption DEF BumpVersion, TypeOK
<1>2. ASSUME NEW c \in Clients, NEW t \in Texts, NEW new \in Edits, Update(c, t, new)
      PROVE  version' \in 1..MaxVersion
  <2>1. Len(items) \in Nat /\ Len(new) \in Nat
    BY EditTypes DEF TypeOK
  <2> QED
    BY <1>1, <1>2, <2>1 DEF Update, InsertTransactionItems
<1>3. \/ version' = version \/ BumpVersion(1)
      \/ \E c \in Clients, t \in Texts, new \in Edits : Update(c, t, new)
  BY DEF Next, GetTransaction, ListTransactionItems, CloseView, UpdateText, Submit, Delete,
         Claim, Park, Attach, AttachFails
<1> QED
  BY <1>1, <1>2, <1>3 DEF TypeOK

LEMMA ScreenTypes ==
  ASSUME TypeOK, Next
  PROVE  view' \in [Clients -> View \union {None}]
<1>1. ASSUME NEW c \in Clients, NEW t \in Texts
      PROVE  [version |-> version', text |-> t, items |-> None] \in View
  BY VersionTypes DEF View
<1>2. ASSUME NEW c \in Clients, NEW t \in Texts,
             UpdateText(c, t) \/ \E new \in Edits : Update(c, t, new)
      PROVE  view' \in [Clients -> View \union {None}]
  BY <1>1, <1>2 DEF UpdateText, Update, TypeOK
<1>3. ASSUME NEW c \in Clients, GetTransaction(c)
      PROVE  view' \in [Clients -> View \union {None}]
  <2>1. Row \in View
    BY DEF Row, View, TypeOK
  <2> QED
    BY <1>3, <2>1 DEF GetTransaction, TypeOK
<1>4. ASSUME NEW c \in Clients, ListTransactionItems(c)
      PROVE  view' \in [Clients -> View \union {None}]
  <2>1. view[c] \in View
    BY <1>4 DEF ListTransactionItems, TypeOK
  <2>2. [view[c] EXCEPT !.items = items] \in View
    BY <2>1 DEF View, TypeOK
  <2>3. view' = [view EXCEPT ![c] = [view[c] EXCEPT !.items = items]]
    BY <1>4 DEF ListTransactionItems
  <2> QED
    BY <2>2, <2>3 DEF TypeOK
<1>5. ASSUME NEW c \in Clients, CloseView(c)
      PROVE  view' \in [Clients -> View \union {None}]
  BY <1>5 DEF CloseView, TypeOK
<1>6. \/ view' = view
      \/ \E c \in Clients :
           \/ GetTransaction(c) \/ ListTransactionItems(c) \/ CloseView(c)
           \/ \E t \in Texts : UpdateText(c, t) \/ \E new \in Edits : Update(c, t, new)
  BY DEF Next, Submit, Delete, Claim, Park, Attach, AttachFails
<1> QED
  BY <1>2, <1>3, <1>4, <1>5, <1>6 DEF TypeOK

LEMMA TypeStep ==
  ASSUME TypeOK, Next
  PROVE  TypeOK'
<1>1. /\ status' \in {"draft", "pending_approval", "deleted"} /\ text' \in Texts
      /\ ocr' \in [Receipts -> {"linked", "processing", "completed", "needs_review",
                                "stranded"}]
  BY DEF TypeOK, Next, GetTransaction, ListTransactionItems, CloseView, UpdateText, Update,
         Submit, Delete, Claim, Park, Attach, AttachFails
<1> QED
  BY <1>1, ContentTypes, VersionTypes, ScreenTypes DEF TypeOK

\* Every variable keeps its type, and the column total_amount is always the sum
\* of the items and a word, whoever edits and whatever OCR adds.
THEOREM TypeCorrect == Spec => []TypeOK
<1>1. Init => TypeOK
  <2> SUFFICES ASSUME Init
               PROVE  TypeOK
    OBVIOUS
  <2>1. PICK a \in Amounts : items = <<a>> /\ total = a
    BY DEF Init
  <2>2. items \in Seq(Amounts) /\ total \in Amounts /\ total = Sum(items)
    BY <2>1, AmountsAreNaturals, SumOne
  <2> QED
    BY <2>2, VersionAssumption DEF Init, TypeOK
<1>2. TypeOK /\ [Next]_vars => TypeOK'
  <2>1. ASSUME UNCHANGED vars, TypeOK
        PROVE  TypeOK'
    BY <2>1 DEF vars, TypeOK
  <2> QED
    BY <2>1, TypeStep
<1> QED
  BY <1>1, <1>2, PTL DEF Spec

\* Only a draft that is gone strands a receipt: on the total read under the lock
\* the code's check of the sum is the trigger's.
THEOREM OverflowParked == Spec => OverflowIsParked
<1>1. ASSUME TypeOK, Next, NEW d \in Receipts, ocr'[d] = "stranded", ocr[d] # "stranded"
      PROVE  status = "deleted"
  <2>1. PICK a \in Amounts \union {None} : AttachFails(d, a)
    <3>1. \E b \in Receipts, a \in Amounts \union {None} : AttachFails(b, a)
      BY <1>1 DEF TypeOK, Next, GetTransaction, ListTransactionItems, CloseView, UpdateText,
                  Update, Submit, Delete, Claim, Park, Attach
    <3> QED
      BY <1>1, <3>1 DEF TypeOK, AttachFails
  <2>2. Bookable(a) => total + a <= MaxAmount
    BY <1>1, WordAssumption DEF Bookable, Fits, TypeOK, Amounts
  <2>3. total \in Nat /\ (Bookable(a) => a \in Nat)
    BY <1>1, AmountsAreNaturals DEF Bookable, TypeOK
  <2> QED
    BY <2>1, <2>2, <2>3, WordAssumption DEF AttachFails
<1>2. TypeOK /\ [Next]_vars =>
        [\A d \in Receipts : ocr'[d] = "stranded" /\ ocr[d] # "stranded" => status = "deleted"]_vars
  BY <1>1
<1> QED
  BY <1>2, TypeCorrect, PTL DEF Spec, OverflowIsParked

-----------------------------------------------------------------------------
(* Screens.                                                                *)

\* Inductive: a screen is never newer than the draft, and what it shows under
\* the current version is current.
Screens ==
  /\ version \in Nat
  /\ items \in Seq(Amounts)
  /\ view \in [Clients -> [version: Nat, text: Texts, items: Seq(Amounts) \union {None}]
                          \union {None}]
  /\ text \in Texts
  /\ ocr \in [Receipts -> {"linked", "processing", "completed", "needs_review", "stranded"}]
  /\ \A c \in Clients : view[c] # None => view[c].version <= version
  /\ CurrentVersionShowsContents

\* The steps that leave the version alone touch neither text nor items; the
\* others raise it.
LEMMA VersionSteps ==
  ASSUME Screens, Next
  PROVE  \/ version' = version /\ text' = text /\ items' = items
         \/ /\ version' \in Nat /\ version < version'
            /\ text' \in Texts /\ items' \in Seq(Amounts)
<1>1. ASSUME NEW c \in Clients, NEW t \in Texts, UpdateText(c, t)
      PROVE  version' \in Nat /\ version < version' /\ text' \in Texts /\ items' \in Seq(Amounts)
  BY <1>1 DEF UpdateText, BumpVersion, Screens
<1>2. ASSUME NEW c \in Clients, NEW t \in Texts, NEW new \in Edits, Update(c, t, new)
      PROVE  version' \in Nat /\ version < version' /\ text' \in Texts /\ items' \in Seq(Amounts)
  <2>1. new \in Seq(Amounts) /\ Len(new) \in Nat /\ Len(items) \in Nat
    BY ItemsAssumption DEF Edits, Screens
  <2>2. items' = new /\ text' = t /\ version' = version + (1 + Len(items) + Len(new))
    BY <1>2 DEF Update, InsertTransactionItems, BumpVersion
  <2> QED
    BY <2>1, <2>2 DEF Screens
<1>3. ASSUME NEW d \in Receipts, NEW a \in Amounts \union {None}, Attach(d, a)
      PROVE  version' \in Nat /\ version < version' /\ text' \in Texts /\ items' \in Seq(Amounts)
  <2>1. a \in Amounts
    BY <1>3 DEF Attach, Bookable
  <2>2. items' = Append(items, a) /\ text' = text /\ version' = version + 1
    BY <1>3 DEF Attach, BumpVersion
  <2> QED
    BY <2>1, <2>2 DEF Screens
<1>4. ASSUME Submit \/ Delete
      PROVE  version' \in Nat /\ version < version' /\ text' \in Texts /\ items' \in Seq(Amounts)
  BY <1>4 DEF Submit, Delete, BumpVersion, Screens
<1>5. \/ version' = version /\ text' = text /\ items' = items
      \/ \E c \in Clients, t \in Texts :
           UpdateText(c, t) \/ \E new \in Edits : Update(c, t, new)
      \/ Submit \/ Delete
      \/ \E d \in Receipts, a \in Amounts \union {None} : Attach(d, a)
  BY DEF Next, GetTransaction, ListTransactionItems, CloseView, Claim, Park, AttachFails
<1> QED
  BY <1>1, <1>2, <1>3, <1>4, <1>5

\* What a client has on his screen after a step.
LEMMA ViewSteps ==
  ASSUME Screens, Next, NEW c \in Clients, view'[c] # None
  PROVE  /\ view'[c] \in [version: Nat, text: Texts, items: Seq(Amounts) \union {None}]
         /\ \/ view'[c] = view[c]
            \/ /\ view'[c].version = version' /\ view'[c].text = text'
               /\ view'[c].items = None
            \/ /\ view[c] # None /\ version' = version
               /\ view'[c].version = view[c].version /\ view'[c].text = view[c].text
               /\ view'[c].items = items'
<1>0. view[c] # None => view[c] \in [version: Nat, text: Texts, items: Seq(Amounts) \union {None}]
  BY DEF Screens
<1>1. CASE view' = view
  BY <1>0, <1>1
<1>2. ASSUME NEW b \in Clients, b # c,
             \/ GetTransaction(b) \/ ListTransactionItems(b) \/ CloseView(b)
             \/ \E t \in Texts : UpdateText(b, t) \/ \E new \in Edits : Update(b, t, new)
      PROVE  view'[c] = view[c]
  BY <1>2 DEF Screens, GetTransaction, ListTransactionItems, CloseView, UpdateText, Update
<1>3. CASE GetTransaction(c)
  <2>1. view'[c] = Row /\ UNCHANGED <<version, text>>
    BY <1>3 DEF Screens, GetTransaction
  <2> QED
    BY <2>1 DEF Row, Screens
<1>4. CASE ListTransactionItems(c)
  <2>1. /\ view[c] # None /\ view'[c] = [view[c] EXCEPT !.items = items]
        /\ UNCHANGED <<version, items>>
    BY <1>4 DEF Screens, ListTransactionItems
  <2> QED
    BY <1>0, <2>1 DEF Screens
<1>5. CASE CloseView(c)
  BY <1>5 DEF Screens, CloseView
<1>6. ASSUME NEW t \in Texts, UpdateText(c, t) \/ \E new \in Edits : Update(c, t, new)
      PROVE  /\ view'[c] \in [version: Nat, text: Texts, items: Seq(Amounts) \union {None}]
             /\ view'[c].version = version' /\ view'[c].text = text'
             /\ view'[c].items = None
  <2>1. view'[c] = [version |-> version', text |-> t, items |-> None] /\ text' = t
    BY <1>6 DEF Screens, UpdateText, Update
  <2>2. version' \in Nat
    BY VersionSteps DEF Screens
  <2> QED
    BY <2>1, <2>2
<1>7. \/ view' = view
      \/ \E b \in Clients :
           \/ GetTransaction(b) \/ ListTransactionItems(b) \/ CloseView(b)
           \/ \E t \in Texts : UpdateText(b, t) \/ \E new \in Edits : Update(b, t, new)
  BY DEF Next, Submit, Delete, Claim, Park, Attach, AttachFails
<1> QED
  BY <1>0, <1>1, <1>2, <1>3, <1>4, <1>5, <1>6, <1>7

LEMMA ScreensStep ==
  ASSUME Screens, Next
  PROVE  Screens'
<1>1. version' \in Nat /\ items' \in Seq(Amounts) /\ text' \in Texts
  BY VersionSteps DEF Screens
<1>2. view' \in [Clients -> [version: Nat, text: Texts, items: Seq(Amounts) \union {None}]
                           \union {None}]
  <2>1. DOMAIN view' = Clients /\ view' = [c \in Clients |-> view'[c]]
    BY DEF Screens, Next, GetTransaction, ListTransactionItems, CloseView, UpdateText, Update,
           Submit, Delete, Claim, Park, Attach, AttachFails
  <2> QED
    BY <2>1, ViewSteps
<1>3. ASSUME NEW c \in Clients, view'[c] # None
      PROVE  /\ view'[c].version <= version'
             /\ view'[c].version = version' =>
                  view'[c].text = text' /\ view'[c].items \in {None, items'}
  <2>1. CASE view'[c] = view[c]
    <3>1. /\ view[c].version \in Nat /\ view[c].version <= version /\ version \in Nat
          /\ view[c].version = version => view[c].text = text /\ view[c].items \in {None, items}
      BY <1>3, <2>1 DEF Screens, CurrentVersionShowsContents
    <3> QED
      BY <2>1, <3>1, VersionSteps
  <2>2. CASE /\ view'[c].version = version' /\ view'[c].text = text'
             /\ view'[c].items = None
    BY <1>1, <2>2
  <2>3. CASE /\ view[c] # None /\ version' = version
             /\ view'[c].version = view[c].version /\ view'[c].text = view[c].text
             /\ view'[c].items = items'
    <3>1. text' = text
      BY <2>3, VersionSteps DEF Screens
    <3> QED
      BY <2>3, <3>1 DEF Screens, CurrentVersionShowsContents
  <2> QED
    BY <1>3, <2>1, <2>2, <2>3, ViewSteps
<1>4. ocr' \in [Receipts -> {"linked", "processing", "completed", "needs_review", "stranded"}]
  BY DEF Screens, Next, GetTransaction, ListTransactionItems, CloseView, UpdateText, Update,
         Submit, Delete, Claim, Park, Attach, AttachFails
<1> QED
  BY <1>1, <1>2, <1>3, <1>4 DEF Screens, CurrentVersionShowsContents

LEMMA ScreensAlways == Spec => []Screens
<1>1. Init => Screens
  <2> SUFFICES ASSUME Init
               PROVE  Screens
    OBVIOUS
  <2>1. items \in Seq(Amounts)
    BY DEF Init
  <2> QED
    BY <2>1 DEF Init, Screens, CurrentVersionShowsContents
<1>2. Screens /\ [Next]_vars => Screens'
  <2>1. ASSUME UNCHANGED vars, Screens
        PROVE  Screens'
    BY <2>1 DEF vars, Screens, CurrentVersionShowsContents
  <2> QED
    BY <2>1, ScreensStep
<1> QED
  BY <1>1, <1>2, PTL DEF Spec

\* Whoever holds the current version sees the current contents.
THEOREM VersionIsHonest == Spec => []CurrentVersionShowsContents
<1>1. Screens => CurrentVersionShowsContents
  BY DEF Screens
<1> QED
  BY <1>1, ScreensAlways, PTL

\* No edit overwrites what its client has not seen.
THEOREM EditsInformed == Spec => EditIsInformed
<1>1. ASSUME Screens, Next, ocr' = ocr, <<text, items>>' # <<text, items>>
      PROVE  \E c \in Clients :
               view[c] # None /\ view[c].text = text /\ view[c].items = items
  <2>1. PICK c \in Clients :
          \E t \in Texts : UpdateText(c, t) \/ \E new \in Edits : Update(c, t, new)
    <3>1. ASSUME NEW d \in Receipts, NEW a \in Amounts \union {None}, Attach(d, a)
          PROVE  ocr' # ocr
      BY <1>1, <3>1 DEF Attach, Screens
    <3> QED
      BY <1>1, <3>1 DEF Next, GetTransaction, ListTransactionItems, CloseView, Submit, Delete,
                        Claim, Park, AttachFails
  <2>2. view[c] # None /\ view[c].items # None /\ version = view[c].version
    BY <2>1 DEF UpdateText, Update
  <2> QED
    BY <1>1, <2>2 DEF Screens, CurrentVersionShowsContents
<1>2. Screens /\ [Next]_vars =>
        [ocr' = ocr /\ <<text, items>>' # <<text, items>> =>
           \E c \in Clients :
             view[c] # None /\ view[c].text = text /\ view[c].items = items]_vars
  BY <1>1
<1> QED
  BY <1>2, ScreensAlways, PTL DEF Spec, EditIsInformed
=============================================================================
