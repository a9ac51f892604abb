--------------------------- MODULE TransactionDraft --------------------------
(***************************************************************************)
(* The contents of one draft: its items, its total and its version         *)
(* (internal/service/transaction/service.go, the triggers of               *)
(* db/migrations/00008 and 00017, ocrconsumer/service.go).  OCR creates    *)
(* the draft and appends the items of later receipts, while people who may *)
(* edit it read it, two statements at a time, and send back what they have *)
(* made of it with the version they were shown.                            *)
(*                                                                         *)
(* Grain.  A transaction, under the lock on the row, is one action; each   *)
(* read outside one is an action.  Amounts are words: the database fails a *)
(* statement whose sum does not fit, which rolls its transaction back.     *)
(* Descriptions, currency and category are one text; permissions are left  *)
(* out.                                                                    *)
(***************************************************************************)
EXTENDS Integers, Sequences

CONSTANTS
  Clients,      \* people with the draft open
  Receipts,     \* documents linked to the draft that OCR has not read yet
  Texts,        \* what an edit may put into the description
  MaxAmount,    \* the largest word (2^63 - 1)
  MaxItems,     \* items an edit may send (200)
  MaxVersion,   \* bound on the versions
  None

ASSUME WordAssumption == MaxAmount \in Nat \ {0}
ASSUME ItemsAssumption == MaxItems \in Nat \ {0}
ASSUME VersionAssumption == MaxVersion \in Nat \ {0, 1}

VARIABLES
  status,       \* draft, pending_approval or deleted
  text,         \* description, currency and category of the row
  items,        \* amounts of the rows of transaction_items, in their order
  total,        \* the column total_amount
  version,      \* the column version
  view,         \* what each client has on his screen, or None
  ocr           \* state of each receipt

vars == <<status, text, items, total, version, view, ocr>>

Amounts == 0..MaxAmount
Sum(s) ==
  LET sum[n \in 0..Len(s)] == IF n = 0 THEN 0 ELSE sum[n - 1] + s[n]
  IN  sum[Len(s)]

\* A screen: the row as it was read and, once they are read, the items.
View == [version: 1..MaxVersion, text: Texts, items: Seq(Amounts) \union {None}]

TypeOK ==
  /\ status \in {"draft", "pending_approval", "deleted"}
  /\ text \in Texts
  /\ items \in Seq(Amounts)
  /\ total \in Amounts /\ total = Sum(items)
  /\ version \in 1..MaxVersion
  /\ view \in [Clients -> View \union {None}]
  /\ ocr \in [Receipts -> {"linked", "processing", "completed", "needs_review",
                           "stranded"}]

-----------------------------------------------------------------------------
(* The row and its triggers. *)

SetTotalOnInsert(new) == total' = IF Len(new) > Len(items) THEN Sum(new) ELSE total

\* Every inserted or deleted item has the total summed up again ...
SyncTotal(new) == total' = Sum(new)

\* ... and every update of the row counts its version up: n updates.
BumpVersion(n) == version + n <= MaxVersion /\ version' = version + n

\* createDraft: the first item has set the total and the version.
Init ==
  /\ status = "draft"
  /\ text \in Texts
  /\ \E a \in Amounts : items = <<a>> /\ total = a
  /\ version = 2
  /\ view = [c \in Clients |-> None]
  /\ ocr = [d \in Receipts |-> "linked"]

-----------------------------------------------------------------------------
(* Clients. *)

\* The row as a statement reads it.
Row == [version |-> version, text |-> text, items |-> None]

\* Get, first statement.  A pending transaction may be looked at, too.
GetTransaction(c) ==
  /\ status # "deleted"
  /\ view' = [view EXCEPT ![c] = Row]
  /\ UNCHANGED <<status, text, items, total, version, ocr>>

\* buildDetail, after Get or after an edit: the items as they are now.
ListTransactionItems(c) ==
  /\ view[c] # None /\ view[c].items = None
  /\ view' = [view EXCEPT ![c].items = items]
  /\ UNCHANGED <<status, text, items, total, version, ocr>>

\* An edit without items: one update of the row, whose new version is returned.
UpdateText(c, t) ==
  /\ view[c] # None /\ view[c].items # None
  /\ status = "draft" /\ version = view[c].version
  /\ text' = t
  /\ BumpVersion(1)
  /\ view' = [view EXCEPT ![c] = [version |-> version', text |-> t, items |-> None]]
  /\ UNCHANGED <<status, items, total, ocr>>

\* All items are deleted and new ones inserted, each with its triggers.
InsertTransactionItems(new) ==
  /\ items' = new
  /\ SyncTotal(new)
  /\ BumpVersion(1 + Len(items) + Len(new))

\* The items of a request: few enough, and their sum is a word.
ValidItems(new) == Len(new) <= MaxItems /\ Sum(new) <= MaxAmount

UpdateAnyVersion(c, t, new) ==
  /\ view[c] # None /\ view[c].items # None
  /\ ValidItems(new)
  /\ status = "draft"
  /\ text' = t
  /\ InsertTransactionItems(new)
  /\ view' = [view EXCEPT ![c] = [version |-> version', text |-> t, items |-> None]]
  /\ UNCHANGED <<status, ocr>>

\* An edit with items: the row is updated and its items are replaced.  A client
\* whose version is old is refused.
Update(c, t, new) ==
  /\ view[c] # None /\ view[c].items # None
  /\ ValidItems(new)
  /\ status = "draft" /\ version = view[c].version
  /\ text' = t
  /\ InsertTransactionItems(new)
  /\ view' = [view EXCEPT ![c] = [version |-> version', text |-> t, items |-> None]]
  /\ UNCHANGED <<status, ocr>>

\* The client gets no answer, or is refused, and has to open the draft again.
CloseView(c) ==
  /\ view[c] # None
  /\ view' = [view EXCEPT ![c] = None]
  /\ UNCHANGED <<status, text, items, total, version, ocr>>

Submit ==
  /\ status = "draft" /\ total > 0
  /\ status' = "pending_approval"
  /\ BumpVersion(1)
  /\ UNCHANGED <<text, items, total, view, ocr>>

Delete ==
  /\ status = "draft"
  /\ status' = "deleted"
  /\ BumpVersion(1)
  /\ UNCHANGED <<text, items, total, view, ocr>>

-----------------------------------------------------------------------------
(* OCR. *)

Claim(d) ==
  /\ ocr[d] = "linked"
  /\ ocr' = [ocr EXCEPT ![d] = "processing"]
  /\ UNCHANGED <<status, text, items, total, version, view>>

FitsAlmost(a) == a <= MaxAmount - total + 1

\* The check of the sum, on the total read under the lock.
Fits(a) == a <= MaxAmount - total

\* There is an amount, and the draft can take it.
Bookable(a) == status = "draft" /\ a # None /\ Fits(a)

\* The result keeps the receipt for review: there is no amount, the draft has
\* been submitted or the sum would not be a word.
Park(d, a) ==
  /\ ocr[d] = "processing" /\ status # "deleted"
  /\ ~Bookable(a)
  /\ ocr' = [ocr EXCEPT ![d] = "needs_review"]
  /\ UNCHANGED <<status, text, items, total, version, view>>

\* attach inserts one item.
Attach(d, a) ==
  /\ ocr[d] = "processing" /\ Bookable(a)
  /\ total + a <= MaxAmount   \* or the trigger fails the statement
  /\ items' = Append(items, a)
  /\ SyncTotal(items')
  /\ BumpVersion(1)
  /\ ocr' = [ocr EXCEPT ![d] = "completed"]
  /\ UNCHANGED <<status, text, view>>

\* attach is rolled back: the draft is gone, or the trigger's sum is no word.
\* The receipt was claimed by a transaction of its own and stays claimed.
AttachFails(d, a) ==
  /\ ocr[d] = "processing"
  /\ \/ status = "deleted"
     \/ Bookable(a) /\ total + a > MaxAmount
  /\ ocr' = [ocr EXCEPT ![d] = "stranded"]
  /\ UNCHANGED <<status, text, items, total, version, view>>

Edits == UNION {[1..n -> Amounts] : n \in 0..MaxItems}

Next ==
  \/ \E c \in Clients :
       \/ GetTransaction(c) \/ ListTransactionItems(c) \/ CloseView(c)
       \/ \E t \in Texts : UpdateText(c, t) \/ \E new \in Edits : Update(c, t, new)
  \/ Submit
  \/ Delete
  \/ \E d \in Receipts :
       \/ Claim(d)
       \/ \E a \in Amounts \union {None} : Park(d, a) \/ Attach(d, a) \/ AttachFails(d, a)

Spec == Init /\ [][Next]_vars

-----------------------------------------------------------------------------
(* Properties. *)

\* Whoever holds the current version, and has read the items after it, has the
\* current contents on his screen: reading the row first makes a torn read old,
\* never wrong.
CurrentVersionShowsContents ==
  \A c \in Clients :
    view[c] # None /\ view[c].version = version =>
      view[c].text = text /\ view[c].items \in {None, items}

\* No lost update: an edit replaces a text and items its client has seen, also
\* when OCR or somebody else has changed the draft since he opened it.
EditIsInformed ==
  [][ocr' = ocr /\ <<text, items>>' # <<text, items>> =>
       \E c \in Clients :
         view[c] # None /\ view[c].text = text /\ view[c].items = items]_vars

\* A receipt is never left in processing because the sum of a live draft does
\* not fit: it is parked instead.
OverflowIsParked ==
  [][\A d \in Receipts : ocr'[d] = "stranded" /\ ocr[d] # "stranded" => status = "deleted"]_vars
=============================================================================
