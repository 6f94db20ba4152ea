---------------------------- MODULE StoresProofs ----------------------------
(***************************************************************************)
(* What the stores' rows and their readers guarantee, for any number of    *)
(* stores, products, carts, documents, writers and tills, and requests     *)
(* that overlap in any way.  First StoreStock: the documents are in the    *)
(* ledger, and the levels need no part in it.  Then BookstoreShop: the     *)
(* door's code outlives other settings' writes, and an invoice outlives    *)
(* its sale for a cause only.  Then DeltaPull: what a till has not pulled  *)
(* is ahead of its cursor.  Last Storefront: what its pages show can be    *)
(* ordered.                                                                *)
(***************************************************************************)
EXTENDS BackOffice, SequenceTheorems, FiniteSetTheorems, WellFoundedInduction, TLAPS

---------------------------------------------------------------------------
(* The inductive invariant.                                                *)

(* No line of a purchase order has come more than it was ordered.          *)
OrdersAreRows ==
  /\ purchase \in [Purchases -> Stock!Purchase \cup {None}]
  /\ \A o \in Purchases : purchase[o] # None =>
       \A p \in Goods : purchase[o].got[p] <= purchase[o].ordered[p]

PurchaseBooked ==
  DOMAIN moved = Stock!Docs /\ \A o \in Purchases : moved[o] \in [Goods -> Nat]

OfAPurchase(r) == r.id \in Purchases /\ purchase[r.id] \in Stock!Purchase

(* A receipt under way takes no more than was missing from the row that it *)
(* read, of which everything had been booked; what was ordered stays.      *)
IsReceipt(r) ==
  /\ OfAPurchase(r)
  /\ r.row \in Stock!Purchase /\ r.row.ordered = purchase[r.id].ordered
  /\ r.take \in [Goods -> Nat]
  /\ \A p \in Goods : r.row.got[p] + r.take[p] <= r.row.ordered[p]
  /\ r.delta = [p \in Goods |-> IF p \in Untracked THEN 0 ELSE r.take[p]]
  /\ \A p \in Goods \ Untracked : r.row.got[p] <= moved[r.id][p]

(* What the requests that write documents are about.                       *)
IsRequest(r) ==
  /\ r.op = "record" =>
       /\ {"op", "ids", "each"} \subseteq DOMAIN r
       /\ r.ids \subseteq Counts \cup TillMoves
       /\ \A m \in r.ids \cap TillMoves : r.each[m] = Stock!Moved(m)
  /\ r.op = "transfer" => {"op", "id"} \subseteq DOMAIN r /\ r.id \in Transfers
  /\ r.op = "newPurchase" => r.id \in Purchases /\ r.qty \in Stock!Qty
  /\ r.op = "patchPurchase" => OfAPurchase(r) /\ r.status \in {"ordered", "cancelled"}
  /\ r.op = "receive" =>
       /\ {"op", "id", "row", "take", "delta"} \subseteq DOMAIN r
       /\ IsReceipt(r)

SessionsAreRequests ==
  /\ DOMAIN desk = Workers
  /\ \A w \in Workers : "op" \in DOMAIN desk[w] /\ IsRequest(desk[w])

StockInv ==
  /\ OrdersAreRows /\ PurchaseBooked
  /\ SessionsAreRequests
  /\ Stock!ReceivedWasBooked /\ Stock!MovementBookedOnce

---------------------------------------------------------------------------
(* The requests.                                                           *)

LEMMA IdleIsRequest == "op" \in DOMAIN Stock!Idle /\ Stock!Idle.op = "none"
     /\ IsRequest(Stock!Idle)
BY DEF Stock!Idle, IsRequest

LEMMA PurchaseForms ==
  ASSUME Stock!StockParameters, OrdersAreRows, NEW o \in Purchases, purchase[o] # None
  PROVE  /\ purchase[o] \in Stock!Purchase
         /\ purchase[o].got \in [Goods -> Nat] /\ purchase[o].ordered \in [Goods -> Nat]
         /\ \A p \in Goods : purchase[o].got[p] <= purchase[o].ordered[p]
BY DEF Stock!StockParameters, OrdersAreRows, Stock!Purchase, Stock!Qty

(* A request that does not write a document of its own.                    *)
LEMMA PlainRequest ==
  ASSUME NEW r, r.op \notin {"record", "transfer", "newPurchase", "patchPurchase", "receive"}
  PROVE  IsRequest(r)
BY DEF IsRequest

(* What is taken of a line is no more than is missing.                     *)
LEMMA TakenType ==
  ASSUME Stock!StockParameters, OrdersAreRows, NEW o \in Purchases, purchase[o] # None,
         NEW qty \in Stock!Qty
  PROVE  /\ Stock!Taken(purchase[o], qty) \in [Goods -> Nat]
         /\ \A p \in Goods :
              purchase[o].got[p] + Stock!Taken(purchase[o], qty)[p] <= purchase[o].ordered[p]
<1> DEFINE row == purchase[o]
<1>1. \A p \in Goods : /\ row.got[p] \in Nat /\ row.ordered[p] \in Nat
                          /\ row.got[p] <= row.ordered[p] /\ qty[p] \in Nat
  BY PurchaseForms DEF Stock!Qty, Stock!StockParameters
<1>2. \A p \in Goods :
        Stock!Taken(row, qty)[p] = Stock!Smaller(qty[p], row.ordered[p] - row.got[p])
  BY DEF Stock!Taken
<1>3. \A p \in Goods : /\ Stock!Smaller(qty[p], row.ordered[p] - row.got[p]) \in Nat
                          /\ row.got[p] + Stock!Smaller(qty[p], row.ordered[p] - row.got[p])
                               <= row.ordered[p]
  BY <1>1 DEF Stock!Smaller
<1>4. Stock!Taken(row, qty) \in [Goods -> Nat]
  BY <1>3 DEF Stock!Taken
<1> QED
  BY <1>2, <1>3, <1>4

LEMMA ReceiptBegins ==
  ASSUME Stock!StockParameters, StockInv, NEW w \in Workers, NEW o \in Purchases,
         NEW qty \in OrderLines, Stock!ReceivePurchase(w, o, qty)
  PROVE  \E r : Stock!Begin(w, r) /\ "op" \in DOMAIN r /\ IsRequest(r)
<1> DEFINE row == purchase[o]
           take == Stock!Taken(row, qty)
           r == [op |-> "receive", id |-> o, store |-> OrderedAt(o), row |-> row,
                 take |-> take, level |-> None,
                 delta |-> [p \in Goods |-> IF p \in Untracked THEN 0 ELSE take[p]]]
<1>1. Stock!Begin(w, r) /\ row # None /\ qty \in Stock!Qty
  BY DEF Stock!ReceivePurchase, Stock!StockParameters
<1>2. row \in Stock!Purchase /\ take \in [Goods -> Nat]
      /\ \A p \in Goods : row.got[p] + take[p] <= row.ordered[p]
  BY <1>1, PurchaseForms, TakenType DEF StockInv
<1>3. \A p \in Goods \ Untracked : row.got[p] <= moved[o][p]
  BY <1>1 DEF StockInv, Stock!ReceivedWasBooked
<1> HIDE DEF take
<1>4. IsReceipt(r)
  BY <1>2, <1>3 DEF IsReceipt, OfAPurchase
<1>5. {"op", "id", "row", "take", "delta"} \subseteq DOMAIN r /\ r.op = "receive"
  OBVIOUS
<1> HIDE DEF r
<1>6. IsRequest(r)
  BY <1>4, <1>5 DEF IsRequest
<1> QED
  BY <1>1, <1>5, <1>6

LEMMA AskBegins ==
  ASSUME Stock!StockParameters, StockInv, NEW w \in Workers, Stock!Ask(w)
  PROVE  \E r : Stock!Begin(w, r) /\ "op" \in DOMAIN r /\ IsRequest(r)
<1>1. ASSUME NEW s \in Stores, NEW p \in Goods, NEW n,
             \/ Stock!AdjustBy(w, s, p, n) \/ Stock!AdjustTo(w, s, p, n)
             \/ Stock!UpdateLevel(w, s, p, n) \/ Stock!ReceiveBook(w, s, p, n)
      PROVE  \E r : Stock!Begin(w, r) /\ "op" \in DOMAIN r /\ IsRequest(r)
  <2>1. CASE Stock!AdjustBy(w, s, p, n)
    <3> DEFINE r == [op |-> "adjust", id |-> None, store |-> s,
                     delta |-> [Stock!Nothing EXCEPT ![p] = n], level |-> levels[s]]
    <3>1. Stock!Begin(w, r)
      BY <2>1 DEF Stock!AdjustBy
    <3> QED
      BY <3>1, PlainRequest
  <2>2. CASE Stock!AdjustTo(w, s, p, n)
    <3> DEFINE r == [op |-> "set", id |-> p, store |-> s, level |-> levels[s],
                     delta |-> [Stock!Nothing EXCEPT ![p] = n - Stock!Now(s, p)], target |-> n]
    <3>1. Stock!Begin(w, r)
      BY <2>2 DEF Stock!AdjustTo
    <3> QED
      BY <3>1, PlainRequest
  <2>3. CASE Stock!UpdateLevel(w, s, p, n)
    <3> DEFINE r == [op |-> "patch", id |-> p, store |-> s, delta |-> Stock!Nothing,
                     level |-> [levels[s] EXCEPT ![p] = n]]
    <3>1. Stock!Begin(w, r)
      BY <2>3 DEF Stock!UpdateLevel
    <3> QED
      BY <3>1, PlainRequest
  <2>4. CASE Stock!ReceiveBook(w, s, p, n)
    <3> DEFINE r == [op |-> "book", id |-> None, store |-> s,
                     delta |-> [Stock!Nothing EXCEPT ![p] = n], level |-> None]
    <3>1. Stock!Begin(w, r)
      BY <2>4 DEF Stock!ReceiveBook
    <3> QED
      BY <3>1, PlainRequest
  <2> QED
    BY <1>1, <2>1, <2>2, <2>3, <2>4
<1>2. ASSUME NEW s \in Stores, NEW ms \in SUBSET TillMoves, Stock!RecordMovements(w, s, ms)
      PROVE  \E r : Stock!Begin(w, r) /\ "op" \in DOMAIN r /\ IsRequest(r)
  <2> DEFINE new == ms \ recorded
             r == [op |-> "record", ids |-> new, store |-> s, level |-> None,
                   each |-> [m \in new |-> Stock!Moved(m)], delta |-> Stock!MovedBy(new)]
  <2>1. Stock!Begin(w, r)
    BY <1>2 DEF Stock!RecordMovements
  <2>2. IsRequest(r)
    BY DEF IsRequest
  <2> QED
    BY <2>1, <2>2
<1>3. ASSUME NEW t \in Transfers, NEW row \in Drawn, Stock!CreateTransfer(w, t, row)
      PROVE  \E r : Stock!Begin(w, r) /\ "op" \in DOMAIN r /\ IsRequest(r)
  BY <1>3, PlainRequest DEF Stock!CreateTransfer
<1>4. ASSUME NEW t \in Transfers, NEW status, Stock!UpdateTransfer(w, t, status)
      PROVE  \E r : Stock!Begin(w, r) /\ "op" \in DOMAIN r /\ IsRequest(r)
  <2> DEFINE row == transfer[t]
             delta == CASE status = "dispatched" -> [p \in Goods |-> -row.qty[p]]
                        [] status = "received" -> row.came
                        [] OTHER -> Stock!Nothing
             r == [op |-> "transfer", id |-> t, read |-> row.status,
                   status |-> status, level |-> None,
                   store |-> IF status = "received" THEN row.to ELSE row.from,
                   delta |-> delta]
  <2>1. Stock!Begin(w, r)
    BY <1>4 DEF Stock!UpdateTransfer
  <2> HIDE DEF delta
  <2>2. IsRequest(r)
    BY DEF IsRequest
  <2> QED
    BY <2>1, <2>2
<1>5. ASSUME NEW c \in Counts, NEW count \in CountRows, Stock!CreateStocktake(w, c, count)
      PROVE  \E r : Stock!Begin(w, r) /\ "op" \in DOMAIN r /\ IsRequest(r)
  <2> DEFINE delta == [p \in Goods |-> count.actual[p] - count.expected[p]]
             r == [op |-> "record", ids |-> {c}, store |-> count.store, level |-> None,
                   each |-> [x \in {c} |-> delta], delta |-> delta]
  <2>1. Stock!Begin(w, r)
    BY <1>5 DEF Stock!CreateStocktake
  <2> HIDE DEF delta
  <2>2. IsRequest(r)
    BY DEF IsRequest, Stock!StockParameters
  <2> QED
    BY <2>1, <2>2
<1>6. ASSUME NEW o \in Purchases, NEW qty \in OrderLines, Stock!CreatePurchase(w, o, qty)
      PROVE  \E r : Stock!Begin(w, r) /\ "op" \in DOMAIN r /\ IsRequest(r)
  <2> DEFINE r == [op |-> "newPurchase", id |-> o, qty |-> qty, level |-> None]
  <2>1. Stock!Begin(w, r) /\ IsRequest(r)
    BY <1>6 DEF Stock!CreatePurchase, IsRequest, Stock!StockParameters
  <2> QED
    BY <2>1
<1>7. ASSUME NEW o \in Purchases, NEW status \in {"ordered", "cancelled"},
             Stock!PatchPurchase(w, o, status)
      PROVE  \E r : Stock!Begin(w, r) /\ "op" \in DOMAIN r /\ IsRequest(r)
  <2> DEFINE r == [op |-> "patchPurchase", id |-> o, status |-> status, level |-> None]
  <2>1. purchase[o] \in Stock!Purchase
    BY <1>7, PurchaseForms DEF Stock!PatchPurchase, StockInv
  <2>2. Stock!Begin(w, r) /\ IsRequest(r)
    BY <1>7, <2>1 DEF Stock!PatchPurchase, IsRequest, OfAPurchase
  <2> QED
    BY <2>2
<1> QED
  BY <1>1, <1>2, <1>3, <1>4, <1>5, <1>6, <1>7, ReceiptBegins DEF Stock!Ask

---------------------------------------------------------------------------
(* The steps.                                                              *)

LEMMA StockInit == ASSUME Stock!StockParameters, Stock!Init PROVE StockInv
<1>1. Stock!Nothing \in Stock!Qty /\ Stock!Nothing \in [Goods -> Nat]
           /\ \A p \in Goods : Stock!Nothing[p] = 0
  BY DEF Stock!Nothing, Stock!Qty, Stock!StockParameters
<1>2. ASSUME NEW o \in Purchases, purchase[o] # None
      PROVE  purchase[o] \in Stock!Purchase /\ purchase[o].got = Stock!Nothing
             /\ purchase[o].ordered \in Stock!Qty
  <2>1. purchase[o] \in Stock!Placed
    BY <1>2 DEF Stock!Init
  <2> QED
    BY <1>1, <2>1 DEF Stock!Placed, Stock!Purchase, Stock!StockParameters
<1>3. purchase \in [Purchases -> Stock!Purchase \cup {None}]
  BY <1>2 DEF Stock!Init
<1>4. OrdersAreRows
  BY <1>1, <1>2, <1>3 DEF OrdersAreRows, Stock!Qty
<1>5. DOMAIN moved = Stock!Docs /\ \A x \in Stock!Docs : moved[x] = Stock!Nothing
  BY DEF Stock!Init
<1>6. PurchaseBooked /\ Stock!ReceivedWasBooked
  BY <1>1, <1>2, <1>5 DEF PurchaseBooked, Stock!ReceivedWasBooked, Stock!Docs
<1>7. Stock!MovementBookedOnce
  BY <1>5 DEF Stock!Init, Stock!MovementBookedOnce, Stock!Docs
<1>8. SessionsAreRequests
  BY IdleIsRequest DEF Stock!Init, SessionsAreRequests
<1> QED
  BY <1>4, <1>6, <1>7, <1>8 DEF StockInv

(* Orders keep what was ordered, and their ledger only grows.              *)
Grows ==
  /\ \A o \in Purchases : purchase[o] \in Stock!Purchase =>
       purchase'[o] \in Stock!Purchase /\ purchase'[o].ordered = purchase[o].ordered
  /\ \A o \in Purchases, p \in Goods \ Untracked : moved[o][p] <= moved'[o][p]

LEMMA RequestStays ==
  ASSUME Stock!StockParameters, StockInv, Grows, OrdersAreRows', PurchaseBooked',
         NEW r, IsRequest(r)
  PROVE  IsRequest(r)'
<1>1. OfAPurchase(r) => OfAPurchase(r)'
  BY DEF Grows, OfAPurchase
<1>2. ASSUME IsReceipt(r)
      PROVE  IsReceipt(r)'
  <2>1. \A p \in Goods : r.row.got[p] \in Int
    BY <1>2 DEF IsReceipt, Stock!Purchase, Stock!Qty
  <2>2. \A p \in Goods \ Untracked :
          moved[r.id][p] \in Int /\ moved'[r.id][p] \in Int
          /\ moved[r.id][p] <= moved'[r.id][p]
    BY <1>2 DEF IsReceipt, OfAPurchase, StockInv, PurchaseBooked, Grows
  <2>3. \A p \in Goods \ Untracked : r.row.got[p] <= moved'[r.id][p]
    BY <1>2, <2>1, <2>2 DEF IsReceipt
  <2>4. r.row.ordered = purchase'[r.id].ordered
    BY <1>2 DEF IsReceipt, OfAPurchase, Grows
  <2> QED
    BY <1>1, <1>2, <2>3, <2>4 DEF IsReceipt
<1> QED
  BY <1>1, <1>2 DEF IsRequest

LEMMA SessionsStay ==
  ASSUME Stock!StockParameters, StockInv, Grows, OrdersAreRows', PurchaseBooked',
         NEW w \in Workers, NEW r, "op" \in DOMAIN r, IsRequest(r),
         desk' = [desk EXCEPT ![w] = r]
  PROVE  SessionsAreRequests'
<1>1. /\ DOMAIN desk' = Workers
      /\ \A v \in Workers : desk'[v] = IF v = w THEN r ELSE desk[v]
  BY DEF StockInv, SessionsAreRequests
<1>2. \A x : IsRequest(x) => IsRequest(x)'
  BY RequestStays
<1> QED
  BY <1>1, <1>2 DEF StockInv, SessionsAreRequests

(* A request begins, reads the levels, or ends without a document.         *)
LEMMA DocumentsStay ==
  ASSUME Stock!StockParameters, StockInv, UNCHANGED <<purchase, moved, recorded>>,
         NEW w \in Workers, NEW r, "op" \in DOMAIN r, IsRequest(r),
         desk' = [desk EXCEPT ![w] = r]
  PROVE  StockInv'
<1>1. OrdersAreRows' /\ PurchaseBooked' /\ Stock!ReceivedWasBooked' /\ Stock!MovementBookedOnce'
  BY DEF StockInv, OrdersAreRows, PurchaseBooked, Stock!ReceivedWasBooked,
         Stock!MovementBookedOnce
<1>2. Grows
  BY DEF Grows, StockInv, PurchaseBooked
<1>3. SessionsAreRequests'
  BY <1>1, <1>2, SessionsStay
<1> QED
  BY <1>1, <1>3 DEF StockInv

LEMMA AskKeeps ==
  ASSUME Stock!StockParameters, StockInv, NEW w \in Workers, Stock!Ask(w)
  PROVE  StockInv'
<1>1. PICK r : Stock!Begin(w, r) /\ "op" \in DOMAIN r /\ IsRequest(r)
  BY AskBegins
<1> QED
  BY <1>1, DocumentsStay DEF Stock!Begin

LEMMA ReadLevelKeeps ==
  ASSUME Stock!StockParameters, StockInv, NEW w \in Workers, Stock!ReadLevel(w)
  PROVE  StockInv'
<1> DEFINE r == desk[w]
<1>1. "op" \in DOMAIN r /\ IsRequest(r) /\ r.op \notin {"newPurchase", "patchPurchase"}
  BY DEF StockInv, SessionsAreRequests, Stock!ReadLevel, Stock!Movers
<1>2. \A was : /\ "op" \in DOMAIN [r EXCEPT !.level = was]
                 /\ IsRequest([r EXCEPT !.level = was])
  <2> SUFFICES ASSUME NEW was
               PROVE  /\ "op" \in DOMAIN [r EXCEPT !.level = was]
                      /\ IsRequest([r EXCEPT !.level = was])
    OBVIOUS
  <2> DEFINE s == [r EXCEPT !.level = was]
  <2>1. DOMAIN s = DOMAIN r /\ \A d \in DOMAIN r : d # "level" => s[d] = r[d]
    OBVIOUS
  <2>2. s.op = r.op
    BY <1>1, <2>1
  <2>3. r.op = "record" => s.ids = r.ids /\ s.each = r.each
    BY <1>1, <2>1 DEF IsRequest
  <2>4. r.op = "transfer" => s.id = r.id
    BY <1>1, <2>1 DEF IsRequest
  <2>5. r.op = "receive" => s.id = r.id /\ s.row = r.row /\ s.take = r.take /\ s.delta = r.delta
    BY <1>1, <2>1 DEF IsRequest
  <2> HIDE DEF s
  <2> QED
    BY <1>1, <2>1, <2>2, <2>3, <2>4, <2>5 DEF IsRequest, IsReceipt, OfAPurchase, s
<1> DEFINE s == [r EXCEPT !.level = levels[r.store]]
<1>3. desk' = [desk EXCEPT ![w] = s] /\ UNCHANGED <<purchase, moved, recorded>>
  BY DEF Stock!ReadLevel
<1>4. "op" \in DOMAIN s /\ IsRequest(s)
  BY <1>2
<1> HIDE DEF s
<1> QED
  BY <1>3, <1>4, DocumentsStay

(* Levels alone are changed, a transfer is, or the request fails.          *)
LEMMA EndKeeps ==
  ASSUME Stock!StockParameters, StockInv, NEW w \in Workers,
         Stock!CommitAdjust(w) \/ Stock!CommitPatch(w) \/ Stock!CommitNewTransfer(w)
              \/ Stock!Abort(w)
  PROVE  StockInv'
<1>1. desk' = [desk EXCEPT ![w] = Stock!Idle] /\ UNCHANGED <<purchase, moved, recorded>>
  BY DEF Stock!CommitAdjust, Stock!CommitPatch, Stock!CommitNewTransfer, Stock!Abort,
         Stock!Done
<1> QED
  BY <1>1, IdleIsRequest, DocumentsStay

(* A transfer is booked: its document is none of the others.               *)
LEMMA CommitTransferKeeps ==
  ASSUME Stock!StockParameters, StockInv, NEW w \in Workers, Stock!CommitTransfer(w)
  PROVE  StockInv'
<1> DEFINE t == desk[w].id
<1>1. /\ t \in Transfers /\ t \notin Purchases /\ t \notin TillMoves
  BY DEF Stock!CommitTransfer, StockInv, SessionsAreRequests, IsRequest,
         Stock!StockParameters
<1>2. /\ desk' = [desk EXCEPT ![w] = Stock!Idle] /\ UNCHANGED <<purchase, recorded>>
      /\ DOMAIN moved' = DOMAIN moved
      /\ \A x \in Stock!Docs \ {t} : moved'[x] = moved[x]
  BY DEF Stock!CommitTransfer, Stock!Booked, Stock!Done, StockInv, PurchaseBooked
<1>3. \A x \in Purchases \cup TillMoves : moved'[x] = moved[x]
  BY <1>1, <1>2 DEF Stock!Docs
<1>4. OrdersAreRows' /\ PurchaseBooked' /\ Stock!ReceivedWasBooked' /\ Stock!MovementBookedOnce'
  BY <1>2, <1>3
     DEF StockInv, OrdersAreRows, PurchaseBooked, Stock!ReceivedWasBooked,
         Stock!MovementBookedOnce
<1>5. Grows
  BY <1>2, <1>3 DEF Grows, StockInv, PurchaseBooked
<1>6. SessionsAreRequests'
  BY <1>2, <1>4, <1>5, IdleIsRequest, SessionsStay
<1> QED
  BY <1>4, <1>6 DEF StockInv

(* Movements and stocktakes are booked under ids that had no row.          *)
LEMMA CommitRecordKeeps ==
  ASSUME Stock!StockParameters, StockInv, NEW w \in Workers, Stock!CommitRecord(w)
  PROVE  StockInv'
<1> DEFINE r == desk[w]
<1>1. /\ r.ids \subseteq Counts \cup TillMoves /\ r.ids \cap recorded = {}
      /\ \A m \in r.ids \cap TillMoves : r.each[m] = Stock!Moved(m)
  BY DEF Stock!CommitRecord, StockInv, SessionsAreRequests, IsRequest
<1>2. /\ desk' = [desk EXCEPT ![w] = Stock!Idle] /\ UNCHANGED purchase
      /\ recorded' = recorded \cup r.ids
      /\ moved' = [x \in Stock!Docs |->
           IF x \in r.ids THEN [p \in Goods |-> moved[x][p] + r.each[x][p]]
           ELSE moved[x]]
  BY DEF Stock!CommitRecord, Stock!Done
<1>3. \A x \in Purchases : moved'[x] = moved[x]
  BY <1>1, <1>2 DEF Stock!StockParameters, Stock!Docs
<1>4. OrdersAreRows' /\ PurchaseBooked' /\ Stock!ReceivedWasBooked'
  BY <1>2, <1>3 DEF StockInv, OrdersAreRows, PurchaseBooked, Stock!ReceivedWasBooked
<1>5. ASSUME NEW m \in TillMoves
      PROVE  moved'[m] = IF m \in recorded' THEN Stock!Moved(m) ELSE Stock!Nothing
  <2>1. CASE m \in r.ids
    <3>1. moved[m] = Stock!Nothing
      BY <1>1, <2>1 DEF StockInv, Stock!MovementBookedOnce
    <3>2. moved'[m] = [p \in Goods |-> Stock!Nothing[p] + Stock!Moved(m)[p]]
      BY <1>1, <1>2, <2>1, <3>1 DEF Stock!Docs
    <3>3. /\ Stock!Moved(m) = [p \in Goods |-> IF p = MoveOf(m).product THEN MoveOf(m).qty ELSE 0]
          /\ MoveOf(m).qty \in Int
      BY DEF Stock!Moved, Stock!Nothing, Stock!StockParameters
    <3>4. [p \in Goods |-> Stock!Nothing[p] + Stock!Moved(m)[p]] = Stock!Moved(m)
      BY <3>3 DEF Stock!Nothing
    <3> QED
      BY <1>2, <2>1, <3>2, <3>4
  <2>2. CASE m \notin r.ids
    BY <1>2, <2>2 DEF Stock!Docs, StockInv, Stock!MovementBookedOnce
  <2> QED
    BY <2>1, <2>2
<1>6. Stock!MovementBookedOnce'
  BY <1>5 DEF Stock!MovementBookedOnce, Stock!Moved, Stock!Nothing
<1>7. Grows
  <2>1. \A o \in Purchases, p \in Goods : moved[o][p] \in Int
    BY DEF StockInv, PurchaseBooked
  <2>2. \A o \in Purchases, p \in Goods \ Untracked : moved[o][p] <= moved'[o][p]
    BY <1>3, <2>1
  <2>3. UNCHANGED purchase
    BY <1>2
  <2> QED
    BY <2>2, <2>3 DEF Grows
<1>8. SessionsAreRequests'
  BY <1>2, <1>4, <1>7, IdleIsRequest, SessionsStay
<1> QED
  BY <1>4, <1>6, <1>8 DEF StockInv

(* An order is written where there was none.                               *)
LEMMA CommitNewPurchaseKeeps ==
  ASSUME Stock!StockParameters, StockInv, NEW w \in Workers, Stock!CommitNewPurchase(w)
  PROVE  StockInv'
<1> DEFINE r == desk[w]
           new == [status |-> "draft", ordered |-> r.qty, got |-> Stock!Nothing]
<1>1. r.id \in Purchases /\ purchase[r.id] = None /\ r.qty \in Stock!Qty
  BY DEF Stock!CommitNewPurchase, StockInv, SessionsAreRequests, IsRequest
<1>2. /\ desk' = [desk EXCEPT ![w] = Stock!Idle] /\ UNCHANGED <<moved, recorded>>
      /\ purchase' = [purchase EXCEPT ![r.id] = new]
  BY DEF Stock!CommitNewPurchase, Stock!Done
<1>3. Stock!Nothing \in Stock!Qty /\ \A p \in Goods : Stock!Nothing[p] = 0
  BY DEF Stock!Nothing, Stock!Qty, Stock!StockParameters
<1>4. new \in Stock!Purchase /\ \A p \in Goods : new.got[p] = 0 /\ 0 <= new.ordered[p]
  BY <1>1, <1>3 DEF Stock!Purchase, Stock!Qty
<1>5. new.got = Stock!Nothing
  OBVIOUS
<1> HIDE DEF new
<1>6. OrdersAreRows'
  BY <1>1, <1>2, <1>4 DEF StockInv, OrdersAreRows
<1>7. \A o \in Purchases : purchase'[o] = IF o = r.id THEN new ELSE purchase[o]
  BY <1>2 DEF StockInv, OrdersAreRows
<1>8. PurchaseBooked' /\ Stock!MovementBookedOnce'
  BY <1>2 DEF StockInv, PurchaseBooked, Stock!MovementBookedOnce
<1>9. Stock!ReceivedWasBooked'
  <2>1. \A p \in Goods \ Untracked : moved[r.id][p] >= 0
    BY <1>1 DEF StockInv, PurchaseBooked
  <2> QED
    BY <1>2, <1>4, <1>7, <2>1 DEF StockInv, Stock!ReceivedWasBooked
<1>10. Grows
  BY <1>1, <1>2, <1>7 DEF Grows, StockInv, PurchaseBooked, Stock!StockParameters
<1>11. SessionsAreRequests'
  BY <1>2, <1>6, <1>8, <1>10, IdleIsRequest, SessionsStay
<1> QED
  BY <1>6, <1>8, <1>9, <1>11 DEF StockInv

(* An order is given another status.                                       *)
LEMMA CommitPatchPurchaseKeeps ==
  ASSUME Stock!StockParameters, StockInv, NEW w \in Workers, Stock!CommitPatchPurchase(w)
  PROVE  StockInv'
<1> DEFINE r == desk[w]
           row == purchase[r.id]
           new == [row EXCEPT !.status = r.status]
<1>1. r.id \in Purchases /\ row \in Stock!Purchase /\ r.status \in {"ordered", "cancelled"}
  BY DEF Stock!CommitPatchPurchase, StockInv, SessionsAreRequests, IsRequest,
         OfAPurchase
<1>2. /\ desk' = [desk EXCEPT ![w] = Stock!Idle] /\ UNCHANGED <<moved, recorded>>
      /\ purchase' = [purchase EXCEPT ![r.id] = new]
  BY DEF Stock!CommitPatchPurchase, Stock!Done
<1>3. new \in Stock!Purchase /\ new.got = row.got /\ new.ordered = row.ordered
  BY <1>1 DEF Stock!Purchase
<1>4. row # None
  BY <1>1 DEF Stock!StockParameters
<1> HIDE DEF new
<1>5. \A o \in Purchases : purchase'[o] = IF o = r.id THEN new ELSE purchase[o]
  BY <1>2 DEF StockInv, OrdersAreRows
<1>6. OrdersAreRows'
  BY <1>1, <1>2, <1>3, <1>4, <1>5 DEF StockInv, OrdersAreRows
<1>7. PurchaseBooked' /\ Stock!MovementBookedOnce'
  BY <1>2 DEF StockInv, PurchaseBooked, Stock!MovementBookedOnce
<1>8. Stock!ReceivedWasBooked'
  BY <1>1, <1>2, <1>3, <1>4, <1>5 DEF StockInv, Stock!ReceivedWasBooked
<1>9. Grows
  BY <1>2, <1>3, <1>5 DEF Grows, StockInv, PurchaseBooked
<1>10. SessionsAreRequests'
  BY <1>2, <1>6, <1>7, <1>9, IdleIsRequest, SessionsStay
<1> QED
  BY <1>6, <1>7, <1>8, <1>10 DEF StockInv

(* A receipt is booked.  Another may have been since it read the order:    *)
(* its goods are in the ledger too, while the order counts those of one.   *)
LEMMA CommitReceiveKeeps ==
  ASSUME Stock!StockParameters, StockInv, NEW w \in Workers, Stock!CommitReceive(w)
  PROVE  StockInv'
<1> DEFINE r == desk[w]
           o == r.id
           row == purchase[o]
           sum == [p \in Goods |-> r.row.got[p] + r.take[p]]
           got == [p \in Goods |-> IF r.take[p] = 0 THEN row.got[p] ELSE sum[p]]
           became == Stock!Recomputed(r.row, sum)
           status == IF became = r.row.status THEN row.status ELSE became
           new == [row EXCEPT !.status = status, !.got = got]
<1>1. IsReceipt(r)
  BY DEF Stock!CommitReceive, StockInv, SessionsAreRequests, IsRequest
<1>2. /\ o \in Purchases /\ row \in Stock!Purchase /\ row # None
      /\ r.row \in Stock!Purchase /\ r.row.ordered = row.ordered
  BY <1>1 DEF IsReceipt, OfAPurchase, Stock!StockParameters
<1>3. \A p \in Goods :
        /\ r.take[p] \in Nat /\ r.row.got[p] \in Nat /\ row.got[p] \in Nat
        /\ row.ordered[p] \in 0..MaxQty /\ row.got[p] <= row.ordered[p]
        /\ r.row.got[p] + r.take[p] <= row.ordered[p]
        /\ moved[o][p] \in Nat
  <2>1. /\ r.take \in [Goods -> Nat]
        /\ r.row.got \in Stock!Qty /\ row.got \in Stock!Qty /\ row.ordered \in Stock!Qty
        /\ moved[o] \in [Goods -> Nat]
    BY <1>1, <1>2 DEF IsReceipt, Stock!Purchase, StockInv, PurchaseBooked
  <2>2. \A p \in Goods : /\ r.row.got[p] + r.take[p] <= row.ordered[p]
                            /\ row.got[p] <= row.ordered[p]
    BY <1>1, <1>2 DEF IsReceipt, StockInv, OrdersAreRows
  <2> QED
    BY <2>1, <2>2 DEF Stock!Qty, Stock!StockParameters
<1>4. got \in Stock!Qty /\ \A p \in Goods : got[p] <= row.ordered[p]
  <2>1. \A p \in Goods : got[p] \in 0..MaxQty /\ got[p] <= row.ordered[p]
    BY <1>3 DEF Stock!StockParameters
  <2> QED
    BY <2>1 DEF Stock!Qty
<1>5. status \in {"draft", "ordered", "partial", "received", "cancelled"}
  <2>1. r.row.status \in {"draft", "ordered", "partial", "received", "cancelled"}
        /\ row.status \in {"draft", "ordered", "partial", "received", "cancelled"}
    BY <1>2 DEF Stock!Purchase
  <2>2. became \in {"received", "partial", r.row.status}
    BY DEF Stock!Recomputed
  <2> HIDE DEF became
  <2> QED
    BY <2>1, <2>2
<1>6. /\ desk' = [desk EXCEPT ![w] = Stock!Idle] /\ UNCHANGED recorded
      /\ moved' = [moved EXCEPT ![o] = [p \in Goods |-> moved[o][p] + r.delta[p]]]
  BY DEF Stock!CommitReceive, Stock!Booked, Stock!Done
<1>7. purchase' = [purchase EXCEPT ![o] = new]
  BY <1>2 DEF Stock!CommitReceive, StockInv, OrdersAreRows
<1> HIDE DEF status, became
<1>8. new \in Stock!Purchase /\ new.got = got /\ new.ordered = row.ordered
  BY <1>2, <1>4, <1>5 DEF Stock!Purchase
<1>9. \A p \in Goods \ Untracked : got[p] <= moved[o][p] + r.delta[p]
  <2> SUFFICES ASSUME NEW p \in Goods \ Untracked
               PROVE  got[p] <= moved[o][p] + r.delta[p]
    OBVIOUS
  <2>1. r.delta[p] = r.take[p] /\ r.row.got[p] <= moved[o][p]
    BY <1>1 DEF IsReceipt
  <2>2. row.got[p] <= moved[o][p]
    BY <1>2 DEF StockInv, Stock!ReceivedWasBooked
  <2>3. got[p] = IF r.take[p] = 0 THEN row.got[p] ELSE r.row.got[p] + r.take[p]
    OBVIOUS
  <2> HIDE DEF got
  <2> QED
    BY <1>3, <2>1, <2>2, <2>3
<1> HIDE DEF new, got
<1>10. \A q \in Purchases : purchase'[q] = IF q = o THEN new ELSE purchase[q]
  BY <1>7 DEF StockInv, OrdersAreRows
<1>11. /\ DOMAIN moved' = Stock!Docs
       /\ \A x \in Stock!Docs \ {o} : moved'[x] = moved[x]
       /\ moved'[o] = [p \in Goods |-> moved[o][p] + r.delta[p]]
  BY <1>2, <1>6 DEF StockInv, PurchaseBooked, Stock!Docs
<1>12. \A p \in Goods : r.delta[p] \in Nat
  BY <1>1, <1>3 DEF IsReceipt
<1>13. \A x \in TillMoves : moved'[x] = moved[x]
  BY <1>2, <1>11 DEF Stock!Docs, Stock!StockParameters
<1> HIDE DEF o, r
<1>14. OrdersAreRows'
  BY <1>2, <1>4, <1>7, <1>8, <1>10 DEF StockInv, OrdersAreRows
<1>15. moved'[o] \in [Goods -> Nat]
  BY <1>3, <1>11, <1>12
<1>16. PurchaseBooked'
  BY <1>11, <1>15 DEF StockInv, PurchaseBooked, Stock!Docs
<1>17. Stock!MovementBookedOnce'
  BY <1>6, <1>13 DEF StockInv, Stock!MovementBookedOnce, Stock!Moved, Stock!Nothing
<1>18. Stock!ReceivedWasBooked'
  <2>1. \A q \in Purchases \ {o} : moved'[q] = moved[q] /\ purchase'[q] = purchase[q]
    BY <1>10, <1>11 DEF Stock!Docs
  <2>2. \A p \in Goods \ Untracked : purchase'[o].got[p] <= moved'[o][p]
    BY <1>2, <1>8, <1>9, <1>10, <1>11
  <2> QED
    BY <2>1, <2>2 DEF StockInv, Stock!ReceivedWasBooked
<1>19. Grows
  <2>1. \A q \in Purchases, p \in Goods : moved[q][p] <= moved'[q][p]
    <3>1. \A q \in Purchases, p \in Goods : moved[q][p] \in Nat
      BY DEF StockInv, PurchaseBooked
    <3>2. \A p \in Goods : moved'[o][p] = moved[o][p] + r.delta[p]
      BY <1>11
    <3>3. \A q \in Purchases \ {o} : moved'[q] = moved[q]
      BY <1>11 DEF Stock!Docs
    <3> QED
      BY <1>12, <3>1, <3>2, <3>3
  <2> QED
    BY <1>8, <1>10, <2>1 DEF Grows
<1>20. SessionsAreRequests'
  BY <1>6, <1>14, <1>16, <1>19, IdleIsRequest, SessionsStay
<1> QED
  BY <1>14, <1>16, <1>17, <1>18, <1>20 DEF StockInv

LEMMA StockStep ==
  ASSUME Stock!StockParameters, StockInv, [Stock!Next]_Stock!vars
  PROVE  StockInv'
<1>1. ASSUME NEW w \in Workers, Stock!Ask(w) \/ Stock!ReadLevel(w) \/ Stock!Commit(w)
             \/ Stock!Abort(w)
      PROVE  StockInv'
  BY <1>1, AskKeeps, ReadLevelKeeps, EndKeeps, CommitTransferKeeps, CommitRecordKeeps,
     CommitNewPurchaseKeeps, CommitPatchPurchaseKeeps, CommitReceiveKeeps
     DEF Stock!Commit
<1>2. CASE UNCHANGED Stock!vars
  <2>1. UNCHANGED <<purchase, recorded, moved, desk>>
    BY <1>2 DEF Stock!vars
  <2> QED
    BY <2>1
       DEF StockInv, OrdersAreRows, PurchaseBooked, SessionsAreRequests, IsRequest,
           IsReceipt, OfAPurchase, Stock!ReceivedWasBooked, Stock!MovementBookedOnce
<1> QED
  BY <1>1, <1>2 DEF Stock!Next

---------------------------------------------------------------------------
(* The theorems.                                                           *)

(* A purchase order never counts more as come than was ordered, and none   *)
(* of it without a movement; a till's movement moves its goods once, for   *)
(* any requests that overlap (receive_purchase_order, record_movement and  *)
(* record_movements).                                                      *)
THEOREM StockAlways ==
  ASSUME Stock!StockParameters
  PROVE  Stock!Spec => [](Stock!StockIsBooked /\ OrdersAreRows)
<1>1. Stock!Init => StockInv
  BY StockInit
<1>2. StockInv /\ [Stock!Next]_Stock!vars => StockInv'
  BY StockStep
<1>3. StockInv => Stock!StockIsBooked /\ OrdersAreRows
  BY DEF StockInv, Stock!StockIsBooked
<1> QED
  BY <1>1, <1>2, <1>3, PTL DEF Stock!Spec

(* A step of the back office, of the part about stock, is one of StoreStock. *)
LEMMA StockStepIsOwn ==
  ASSUME BackOfficeNext \/ UNCHANGED backOfficeVars, part = "stock"
  PROVE  part' = part /\ (Stock!Next \/ UNCHANGED Stock!vars)
<1>1. CASE BackOfficeNext
  BY <1>1 DEF BackOfficeNext
<1>2. CASE UNCHANGED backOfficeVars
  BY <1>2 DEF backOfficeVars
<1> QED
  BY <1>1, <1>2

(* In the back office: whatever a purchase order counts as come is in the  *)
(* ledger, and a movement that is sent again is in it once.                *)
THEOREM StockIsBookedAlways == BackOfficeSpec => []StockIsBooked
<1> DEFINE Inv == part = "stock" => StockInv
<1>1. BackOfficeInit => Inv
  BY StockParametersHold, StockInit DEF BackOfficeInit
<1>2. Inv /\ [BackOfficeNext]_backOfficeVars => Inv'
  <2> SUFFICES ASSUME Inv, [BackOfficeNext]_backOfficeVars, part' = "stock"
               PROVE  StockInv'
    OBVIOUS
  <2>1. part = "stock"
    BY DEF BackOfficeNext, backOfficeVars
  <2>2. [Stock!Next]_Stock!vars
    BY <2>1, StockStepIsOwn
  <2> QED
    BY <2>1, <2>2, StockParametersHold, StockStep
<1>3. Inv => StockIsBooked
  BY DEF StockInv, StockIsBooked, Stock!StockIsBooked
<1> QED
  BY <1>1, <1>2, <1>3, PTL DEF BackOfficeSpec

---------------------------------------------------------------------------
(* The bookstore's shop (BookstoreShop).  The greater of two.              *)
LEMMA GreaterOfTwo ==
  ASSUME NEW a \in Nat, NEW b \in Nat
  PROVE  Shop!Max({a, b}) = IF a >= b THEN a ELSE b
<1> DEFINE c == IF a >= b THEN a ELSE b
<1>1. c \in {a, b} /\ \A x \in {a, b} : c >= x
  OBVIOUS
<1>2. ASSUME NEW d \in {a, b}, \A x \in {a, b} : d >= x
      PROVE  d = c
  BY <1>2
<1> QED
  BY <1>1, <1>2 DEF Shop!Max

(* What a request that writes the settings has read and is to write: the   *)
(* part that is the door's is whole, and its code is no earlier one.       *)
IsDoor(s) ==
  /\ {"qr", "content"} \subseteq DOMAIN s
  /\ s.qr \in Nat /\ (s.content # None => s.content = s.qr)

WritesDoor(r) == IsDoor(r.read) /\ IsDoor(r.to) /\ r.to.qr >= r.read.qr

(* An issued invoice of a refunded sale is to be voided: the refund has    *)
(* not looked for it yet, or has seen it, and there is no other.           *)
Refunding(r) == r.at = "void" /\ r.by = "refund"

InvoiceIsLookedFor ==
  checkout.status = "refunded" /\ ~excused =>
    \/ Shop!RefundToLook
    \/ \A i \in DOMAIN rows : rows[i] # "issued"
    \/ /\ \E w \in Workers : Refunding(shopping[w])
       /\ \A i \in DOMAIN rows : rows[i] = "issued" => i = 1

ShopInv ==
  /\ DOMAIN shopping = Workers
  /\ \A w \in Workers :
       /\ shopping[w].at \in {"settings", "paying"} => WritesDoor(shopping[w])
       /\ Refunding(shopping[w]) => shopping[w].row = 1
  /\ IsDoor(json) /\ newest \in Nat
  /\ json.qr < newest => undone
  /\ "status" \in DOMAIN checkout
  /\ rows \in Seq({"issued", "failed", "voided"})
  /\ InvoiceIsLookedFor

(* The sale is not refunded in this step.                                   *)
StaysSold ==
  /\ "status" \in DOMAIN checkout'
  /\ checkout'.status = "refunded" => checkout.status = "refunded"

LEMMA ShopInit == ASSUME Shop!ShopParameters, Shop!Init PROVE ShopInv
BY DEF Shop!ShopParameters, Shop!Init, ShopInv, Shop!Idle, IsDoor, Refunding, InvoiceIsLookedFor

(* The requests of a step: those of other workers stay.                    *)
RequestsKept ==
  /\ DOMAIN shopping' = Workers
  /\ \A w \in Workers :
       /\ shopping'[w].at \in {"settings", "paying"} => WritesDoor(shopping'[w])
       /\ Refunding(shopping'[w]) => shopping'[w].row = 1

LEMMA RequestsAreKept ==
  ASSUME ShopInv, NEW w \in Workers, NEW r, shopping' = [shopping EXCEPT ![w] = r],
         r.at \in {"settings", "paying"} => WritesDoor(r),
         Refunding(r) => r.row = 1
  PROVE  RequestsKept /\ shopping'[w] = r /\ \A v \in Workers \ {w} : shopping'[v] = shopping[v]
BY DEF ShopInv, RequestsKept

(* A write of the settings that were read.                                 *)
LEMMA WriteKeeps ==
  ASSUME ShopInv, NEW r, WritesDoor(r), Shop!Write(r)
  PROVE  IsDoor(json)' /\ newest' \in Nat /\ (json'.qr < newest' => undone')
<1>1. json' = IF r.to = r.read THEN json ELSE r.to
  BY DEF Shop!Write
<1>2. IsDoor(json)'
  BY <1>1 DEF ShopInv, WritesDoor, IsDoor
<1>3. newest' = IF newest >= json'.qr THEN newest ELSE json'.qr
  BY <1>2, GreaterOfTwo DEF Shop!Write, ShopInv, IsDoor
<1>4. newest' \in Nat
  BY <1>2, <1>3 DEF ShopInv, IsDoor
<1>5. ASSUME json'.qr < newest' PROVE undone'
  <2>1. newest' = newest /\ json'.qr < newest
    BY <1>2, <1>3, <1>5 DEF ShopInv, IsDoor
  <2>2. CASE r.to = r.read
    BY <1>1, <2>1, <2>2 DEF Shop!Write, ShopInv
  <2>3. CASE r.to # r.read /\ json = r.read
    <3>1. json.qr < newest
      BY <1>1, <2>1, <2>3 DEF ShopInv, WritesDoor, IsDoor
    <3> QED
      BY <3>1 DEF ShopInv, Shop!Write
  <2>4. CASE r.to # r.read /\ json # r.read
    BY <2>4 DEF Shop!Write
  <2> QED
    BY <2>2, <2>3, <2>4
<1> QED
  BY <1>2, <1>4, <1>5

(* What looks for the invoice stays where the step is of another's.        *)
LEMMA LookStays ==
  ASSUME ShopInv, RequestsKept, NEW w \in Workers,
         \A v \in Workers \ {w} : shopping'[v] = shopping[v],
         shopping[w] # [at |-> "look", by |-> "refund"], ~Refunding(shopping[w]),
         StaysSold,
         excused => excused',
         rows' \in Seq({"issued", "failed", "voided"}),
         \A i \in DOMAIN rows' : rows'[i] = "issued" => i \in DOMAIN rows /\ rows[i] = "issued"
  PROVE  InvoiceIsLookedFor'
<1> SUFFICES ASSUME checkout'.status = "refunded", ~excused'
             PROVE  \/ Shop!RefundToLook'
                    \/ \A i \in DOMAIN rows' : rows'[i] # "issued"
                    \/ /\ \E v \in Workers : Refunding(shopping'[v])
                       /\ \A i \in DOMAIN rows' : rows'[i] = "issued" => i = 1
  BY DEF InvoiceIsLookedFor, Refunding, StaysSold
<1>1. CASE Shop!RefundToLook
  <2>1. PICK v \in Workers : shopping[v] = [at |-> "look", by |-> "refund"]
    BY <1>1 DEF Shop!RefundToLook
  <2>2. shopping'[v] = [at |-> "look", by |-> "refund"]
    BY <2>1
  <2> QED
    BY <2>2 DEF Shop!RefundToLook
<1>2. CASE \A i \in DOMAIN rows : rows[i] # "issued"
  BY <1>2
<1>3. CASE /\ \E v \in Workers : Refunding(shopping[v])
           /\ \A i \in DOMAIN rows : rows[i] = "issued" => i = 1
  <2>1. PICK v \in Workers : Refunding(shopping[v])
    BY <1>3
  <2>2. Refunding(shopping'[v])
    BY <2>1
  <2> QED
    BY <1>3, <2>2
<1> QED
  BY <1>1, <1>2, <1>3 DEF ShopInv, InvoiceIsLookedFor, StaysSold

(* Steps that leave the settings alone.                                    *)
LEMMA DoorStays ==
  ASSUME ShopInv, UNCHANGED <<json, newest, undone>>
  PROVE  IsDoor(json)' /\ newest' \in Nat /\ (json'.qr < newest' => undone')
BY DEF ShopInv, IsDoor

(* The requests that read the settings, and their commit.                  *)
LEMMA SettleKeeps ==
  ASSUME ShopInv, NEW w \in Workers, NEW to, Shop!Settle(w, to),
         IsDoor(to), to.qr >= json.qr
  PROVE  ShopInv'
<1> DEFINE r == [at |-> "settings", read |-> json, to |-> to]
<1>1. /\ shopping' = [shopping EXCEPT ![w] = r] /\ shopping[w] = Shop!Idle
      /\ UNCHANGED <<json, newest, undone, checkout, rows, excused>>
  BY DEF Shop!Settle, Shop!Begin, Shop!door, Shop!sale
<1>2. WritesDoor(r) /\ ~Refunding(r)
  BY DEF ShopInv, WritesDoor, Refunding
<1>3. RequestsKept /\ \A v \in Workers \ {w} : shopping'[v] = shopping[v]
  BY <1>1, <1>2, RequestsAreKept
<1>4. shopping[w] # [at |-> "look", by |-> "refund"] /\ ~Refunding(shopping[w])
  BY <1>1 DEF Shop!Idle, Refunding
<1>5. rows' \in Seq({"issued", "failed", "voided"}) /\ StaysSold
  BY <1>1 DEF ShopInv, StaysSold
<1>6. InvoiceIsLookedFor'
  BY <1>1, <1>3, <1>4, <1>5, LookStays
<1> QED
  BY <1>1, <1>3, <1>5, <1>6, DoorStays DEF ShopInv, RequestsKept, StaysSold

LEMMA SettingsKeep ==
  ASSUME Shop!ShopParameters, ShopInv, NEW w \in Workers,
         Shop!UpdateSettings(w) \/ Shop!RotateDoorQr(w) \/ Shop!GetDoorQr(w)
  PROVE  ShopInv'
<1>1. CASE Shop!UpdateSettings(w)
  <2>1. PICK patch \in SettingsPatches : Shop!Settle(w, Shop!Patched(patch))
    BY <1>1 DEF Shop!UpdateSettings
  <2>2. "qr" \notin DOMAIN patch /\ "content" \notin DOMAIN patch
    BY DEF Shop!ShopParameters
  <2>3. IsDoor(Shop!Patched(patch)) /\ Shop!Patched(patch).qr >= json.qr
    BY <2>2 DEF Shop!Patched, ShopInv, IsDoor
  <2> QED
    BY <2>1, <2>3, SettleKeeps
<1>2. CASE Shop!RotateDoorQr(w)
  <2> DEFINE to == [json EXCEPT !.qr = @ + 1, !.content = json.qr + 1]
  <2>1. Shop!Settle(w, to)
    BY <1>2 DEF Shop!RotateDoorQr
  <2>2. IsDoor(to) /\ to.qr >= json.qr
    BY DEF ShopInv, IsDoor
  <2> QED
    BY <2>1, <2>2, SettleKeeps
<1>3. CASE Shop!GetDoorQr(w)
  <2> DEFINE to == [json EXCEPT !.content = json.qr]
  <2>1. Shop!Settle(w, to)
    BY <1>3 DEF Shop!GetDoorQr
  <2>2. IsDoor(to) /\ to.qr >= json.qr
    BY DEF ShopInv, IsDoor
  <2> QED
    BY <2>1, <2>2, SettleKeeps
<1> QED
  BY <1>1, <1>2, <1>3

LEMMA CommitSettingsKeeps ==
  ASSUME ShopInv, NEW w \in Workers, Shop!CommitSettings(w)
  PROVE  ShopInv'
<1>1. /\ shopping[w].at = "settings" /\ Shop!Write(shopping[w])
      /\ shopping' = [shopping EXCEPT ![w] = Shop!Idle]
      /\ UNCHANGED <<checkout, rows, excused>>
  BY DEF Shop!CommitSettings, Shop!End, Shop!sale
<1>2. ~Refunding(Shop!Idle) /\ Shop!Idle.at \notin {"settings", "paying"}
  BY DEF Shop!Idle, Refunding
<1>3. RequestsKept /\ \A v \in Workers \ {w} : shopping'[v] = shopping[v]
  BY <1>1, <1>2, RequestsAreKept
<1>4. shopping[w] # [at |-> "look", by |-> "refund"] /\ ~Refunding(shopping[w])
  BY <1>1 DEF Refunding
<1>5. rows' \in Seq({"issued", "failed", "voided"}) /\ StaysSold
  BY <1>1 DEF ShopInv, StaysSold
<1>6. InvoiceIsLookedFor'
  BY <1>1, <1>3, <1>4, <1>5, LookStays
<1>7. WritesDoor(shopping[w])
  BY <1>1 DEF ShopInv
<1>8. IsDoor(json)' /\ newest' \in Nat /\ (json'.qr < newest' => undone')
  BY <1>1, <1>7, WriteKeeps
<1> QED
  BY <1>3, <1>5, <1>6, <1>8 DEF ShopInv, RequestsKept, StaysSold

LEMMA ClaimKeeps ==
  ASSUME ShopInv, NEW w \in Workers, Shop!Claim(w)
  PROVE  ShopInv'
<1> DEFINE r == [at |-> "paying", read |-> json, to |-> Shop!WithIdentity]
<1>1. /\ shopping' = [shopping EXCEPT ![w] = r] /\ shopping[w] = Shop!Idle
      /\ UNCHANGED <<json, newest, undone, checkout, rows, excused>>
  BY DEF Shop!Claim, Shop!Begin, Shop!door, Shop!sale
<1>2. WritesDoor(r) /\ ~Refunding(r)
  BY DEF ShopInv, WritesDoor, Refunding, Shop!WithIdentity, IsDoor
<1>3. RequestsKept /\ \A v \in Workers \ {w} : shopping'[v] = shopping[v]
  BY <1>1, <1>2, RequestsAreKept
<1>4. shopping[w] # [at |-> "look", by |-> "refund"] /\ ~Refunding(shopping[w])
  BY <1>1 DEF Shop!Idle, Refunding
<1>5. rows' \in Seq({"issued", "failed", "voided"}) /\ StaysSold
  BY <1>1 DEF ShopInv, StaysSold
<1>6. InvoiceIsLookedFor'
  BY <1>1, <1>3, <1>4, <1>5, LookStays
<1> QED
  BY <1>1, <1>3, <1>5, <1>6, DoorStays DEF ShopInv, RequestsKept, StaysSold

LEMMA CommitPaidKeeps ==
  ASSUME ShopInv, NEW w \in Workers, Shop!CommitPaid(w)
  PROVE  ShopInv'
<1> DEFINE r == [at |-> "look", by |-> "sale"]
<1>1. /\ shopping[w].at = "paying" /\ Shop!Write(shopping[w])
      /\ shopping' = [shopping EXCEPT ![w] = r]
      /\ checkout' = [checkout EXCEPT !.status = "paid"]
      /\ UNCHANGED <<rows, excused>>
  BY DEF Shop!CommitPaid
<1>2. ~Refunding(r)
  BY DEF Refunding
<1>3. RequestsKept /\ \A v \in Workers \ {w} : shopping'[v] = shopping[v]
  BY <1>1, <1>2, RequestsAreKept
<1>4. shopping[w] # [at |-> "look", by |-> "refund"] /\ ~Refunding(shopping[w])
  BY <1>1 DEF Refunding
<1>5. rows' \in Seq({"issued", "failed", "voided"})
  BY <1>1 DEF ShopInv
<1>6. StaysSold
  BY <1>1 DEF ShopInv, StaysSold
<1>7. InvoiceIsLookedFor'
  BY <1>1, <1>3, <1>4, <1>5, <1>6, LookStays
<1>8. WritesDoor(shopping[w])
  BY <1>1 DEF ShopInv
<1>9. IsDoor(json)' /\ newest' \in Nat /\ (json'.qr < newest' => undone')
  BY <1>1, <1>8, WriteKeeps
<1> QED
  BY <1>3, <1>5, <1>6, <1>7, <1>9 DEF ShopInv, RequestsKept, StaysSold

(* The requests about the sale, but for a refund's own look and void.      *)
LEMMA SaleKeeps ==
  ASSUME ShopInv, NEW w \in Workers, NEW r, shopping' = [shopping EXCEPT ![w] = r],
         r.at \notin {"settings", "paying"}, ~Refunding(r),
         shopping[w] # [at |-> "look", by |-> "refund"], ~Refunding(shopping[w]),
         UNCHANGED <<json, newest, undone>>,
         StaysSold,
         excused => excused',
         rows' \in Seq({"issued", "failed", "voided"}),
         \A i \in DOMAIN rows' : rows'[i] = "issued" => i \in DOMAIN rows /\ rows[i] = "issued"
  PROVE  ShopInv'
<1>1. RequestsKept /\ \A v \in Workers \ {w} : shopping'[v] = shopping[v]
  BY RequestsAreKept
<1>2. InvoiceIsLookedFor'
  BY <1>1, LookStays
<1> QED
  BY <1>1, <1>2, DoorStays DEF ShopInv, RequestsKept, StaysSold

LEMMA IssueLookKeeps ==
  ASSUME ShopInv, NEW w \in Workers, Shop!IssueLook(w) \/ Shop!StaffIssue(w) \/ Shop!StaffVoid(w)
  PROVE  ShopInv'
<1>1. PICK r : /\ shopping' = [shopping EXCEPT ![w] = r]
               /\ r.at \in {"idle", "issue"} \/ (r.at = "void" /\ r.by = "staff")
  <2>1. CASE Shop!IssueLook(w)
    <3> DEFINE r == [at |-> "issue", by |-> "sale", seen |-> rows,
                     items |-> Shop!InvoiceLines(checkout.lines, checkout.discount)]
    <3>1. shopping' = [shopping EXCEPT ![w] = Shop!Idle] \/ shopping' = [shopping EXCEPT ![w] = r]
      BY <2>1 DEF Shop!IssueLook, Shop!End
    <3>2. Shop!Idle.at = "idle" /\ r.at = "issue"
      BY DEF Shop!Idle
    <3> HIDE DEF r
    <3> QED
      BY <3>1, <3>2
  <2>2. CASE Shop!StaffIssue(w)
    <3> DEFINE r == [at |-> "issue", by |-> "staff", seen |-> rows, items |-> Shop!OrderItems]
    <3>1. shopping' = [shopping EXCEPT ![w] = r]
      BY <2>2 DEF Shop!StaffIssue, Shop!Begin
    <3>2. r.at = "issue"
      OBVIOUS
    <3> HIDE DEF r
    <3> QED
      BY <3>1, <3>2
  <2>3. CASE Shop!StaffVoid(w)
    <3>1. PICK i \in DOMAIN rows :
            shopping' = [shopping EXCEPT ![w] = [at |-> "void", by |-> "staff", row |-> i]]
      BY <2>3 DEF Shop!StaffVoid, Shop!Begin
    <3> DEFINE r == [at |-> "void", by |-> "staff", row |-> i]
    <3>2. shopping' = [shopping EXCEPT ![w] = r]
      BY <3>1
    <3>3. r.at = "void" /\ r.by = "staff"
      OBVIOUS
    <3> HIDE DEF r
    <3> QED
      BY <3>2, <3>3
  <2> QED
    BY <2>1, <2>2, <2>3
<1>2. shopping[w] # [at |-> "look", by |-> "refund"] /\ ~Refunding(shopping[w])
  BY DEF Shop!IssueLook, Shop!StaffIssue, Shop!StaffVoid, Shop!Begin, Shop!Idle, Refunding
<1>3. /\ UNCHANGED <<json, newest, undone, rows, excused>>
      /\ StaysSold
  <2>1. CASE Shop!IssueLook(w)
    <3>1. checkout' = checkout \/ checkout' = [checkout EXCEPT !.invoice = "skipped"]
      BY <2>1 DEF Shop!IssueLook
    <3> QED
      BY <2>1, <3>1 DEF ShopInv, StaysSold, Shop!IssueLook, Shop!door
  <2>2. CASE Shop!StaffIssue(w) \/ Shop!StaffVoid(w)
    BY <2>2 DEF ShopInv, StaysSold, Shop!StaffIssue, Shop!StaffVoid, Shop!door, Shop!sale
  <2> QED
    BY <2>1, <2>2
<1>4. /\ rows' \in Seq({"issued", "failed", "voided"})
      /\ \A i \in DOMAIN rows' : rows'[i] = "issued" => i \in DOMAIN rows /\ rows[i] = "issued"
      /\ excused => excused'
  BY <1>3 DEF ShopInv
<1>5. r.at \notin {"settings", "paying"} /\ ~Refunding(r)
  BY <1>1 DEF Refunding
<1>6. shopping' = [shopping EXCEPT ![w] = r]
  BY <1>1
<1> HIDE DEF Refunding
<1> QED
  BY <1>2, <1>3, <1>4, <1>5, <1>6, SaleKeeps

(* A row that is written.                                                  *)
LEMMA RowWritten ==
  ASSUME NEW S, NEW s \in Seq(S), NEW i, NEW v \in S
  PROVE  LET t == [s EXCEPT ![i] = v] IN
         /\ t \in Seq(S) /\ DOMAIN t = DOMAIN s
         /\ \A k \in DOMAIN s : t[k] = IF k = i THEN v ELSE s[k]
<1>1. CASE i \in DOMAIN s
  BY <1>1, ExceptSeq
<1>2. CASE i \notin DOMAIN s
  <2>1. [s EXCEPT ![i] = v] = s
    BY <1>2
  <2> QED
    BY <1>2, <2>1
<1> QED
  BY <1>1, <1>2

(* The gateway's answer to an issue.                                       *)
LEMMA CommitIssueKeeps ==
  ASSUME ShopInv, NEW w \in Workers, NEW answer \in {"issued", "failed"},
         Shop!CommitIssue(w, answer)
  PROVE  ShopInv'
<1>1. /\ shopping[w].at = "issue"
      /\ shopping' = [shopping EXCEPT ![w] = Shop!Idle]
      /\ \/ rows' = rows \/ rows' = Append(rows, answer) \/ rows' = [rows EXCEPT ![1] = answer]
      /\ checkout' = checkout \/ checkout' = [checkout EXCEPT !.invoice = answer]
      /\ excused' = (excused \/ (answer = "issued" /\ checkout.status = "refunded"
                                 /\ ~Shop!RefundToLook))
      /\ UNCHANGED <<json, newest, undone>>
  BY DEF Shop!CommitIssue, Shop!End, Shop!door
<1>2. Shop!Idle.at \notin {"settings", "paying"} /\ ~Refunding(Shop!Idle)
  BY DEF Shop!Idle, Refunding
<1>3. shopping[w] # [at |-> "look", by |-> "refund"] /\ ~Refunding(shopping[w])
  BY <1>1 DEF Refunding
<1>4. StaysSold
  BY <1>1 DEF ShopInv, StaysSold
<1>5. /\ rows' \in Seq({"issued", "failed", "voided"})
      /\ answer = "failed" =>
           \A i \in DOMAIN rows' : rows'[i] = "issued" => i \in DOMAIN rows /\ rows[i] = "issued"
  <2>1. rows \in Seq({"issued", "failed", "voided"})
    BY DEF ShopInv
  <2>2. CASE rows' = rows
    BY <2>1, <2>2
  <2>3. CASE rows' = Append(rows, answer)
    BY <2>1, <2>3, AppendProperties
  <2>4. CASE rows' = [rows EXCEPT ![1] = answer]
    <3>1. /\ rows' \in Seq({"issued", "failed", "voided"}) /\ DOMAIN rows' = DOMAIN rows
          /\ \A k \in DOMAIN rows : rows'[k] = IF k = 1 THEN answer ELSE rows[k]
      BY <2>1, <2>4, RowWritten
    <3> QED
      BY <3>1
  <2> QED
    BY <1>1, <2>2, <2>3, <2>4
<1>6. CASE answer = "failed"
  <2>1. \A i \in DOMAIN rows' : rows'[i] = "issued" => i \in DOMAIN rows /\ rows[i] = "issued"
    BY <1>5, <1>6
  <2>2. excused => excused'
    BY <1>1
  <2>3. rows' \in Seq({"issued", "failed", "voided"})
    BY <1>5
  <2>4. shopping' = [shopping EXCEPT ![w] = Shop!Idle] /\ UNCHANGED <<json, newest, undone>>
    BY <1>1
  <2> QED
    BY <1>2, <1>3, <1>4, <2>1, <2>2, <2>3, <2>4, SaleKeeps
<1>7. CASE answer = "issued"
  <2>1. RequestsKept /\ \A v \in Workers \ {w} : shopping'[v] = shopping[v]
    BY <1>1, <1>2, RequestsAreKept
  <2>2. Shop!RefundToLook => Shop!RefundToLook'
    BY <1>3, <2>1 DEF Shop!RefundToLook
  <2>3. checkout'.status = "refunded" /\ ~excused' => Shop!RefundToLook'
    BY <1>1, <1>4, <1>7, <2>2 DEF StaysSold
  <2>4. InvoiceIsLookedFor'
    BY <2>3 DEF InvoiceIsLookedFor
  <2> QED
    BY <1>1, <1>4, <1>5, <2>1, <2>4, DoorStays DEF ShopInv, RequestsKept, StaysSold
<1> QED
  BY <1>6, <1>7

(* The refund, its look for the invoice, and what is voided.               *)
LEMMA RefundCheckoutKeeps ==
  ASSUME ShopInv, NEW w \in Workers, Shop!RefundCheckout(w)
  PROVE  ShopInv'
<1> DEFINE r == [at |-> "look", by |-> "refund"]
<1>1. /\ shopping' = [shopping EXCEPT ![w] = r]
      /\ checkout' = [checkout EXCEPT !.status = "refunded"]
      /\ UNCHANGED <<json, newest, undone, rows, excused>>
  BY DEF Shop!RefundCheckout, Shop!Begin, Shop!door
<1>2. ~Refunding(r)
  BY DEF Refunding
<1>3. RequestsKept /\ shopping'[w] = r
  BY <1>1, <1>2, RequestsAreKept
<1>4. Shop!RefundToLook'
  BY <1>3 DEF Shop!RefundToLook
<1>5. InvoiceIsLookedFor'
  BY <1>4 DEF InvoiceIsLookedFor
<1> QED
  BY <1>1, <1>3, <1>5, DoorStays DEF ShopInv, RequestsKept

LEMMA RefundLookKeeps ==
  ASSUME ShopInv, NEW w \in Workers, Shop!RefundLook(w)
  PROVE  ShopInv'
<1>1. PICK r : /\ shopping' = [shopping EXCEPT ![w] = r]
               /\ r = IF Shop!ToVoid = {} THEN Shop!Idle
                      ELSE [at |-> "void", by |-> "refund", row |-> 1]
  BY DEF Shop!RefundLook, Shop!End
<1>2. /\ excused' = (excused \/ Len(rows) > 1)
      /\ UNCHANGED <<json, newest, undone, checkout, rows>>
  BY DEF Shop!RefundLook, Shop!door
<1>3. r.at \notin {"settings", "paying"} /\ (Refunding(r) => r.row = 1)
  BY <1>1 DEF Shop!Idle, Refunding
<1>4. RequestsKept /\ shopping'[w] = r
  BY <1>1, <1>3, RequestsAreKept
<1>5. rows \in Seq({"issued", "failed", "voided"}) /\ DOMAIN rows = 1..Len(rows) /\ Len(rows) \in Nat
  BY DEF ShopInv
<1>6. InvoiceIsLookedFor'
  <2>1. CASE Len(rows) > 1
    BY <1>2, <2>1 DEF InvoiceIsLookedFor
  <2>2. CASE Len(rows) <= 1 /\ Shop!ToVoid = {}
    <3>1. ASSUME NEW i \in DOMAIN rows, rows[i] = "issued" PROVE FALSE
      <4>1. Len(rows) = 1
        BY <1>5, <2>2
      <4>2. i \in Shop!ToVoid
        BY <3>1, <4>1 DEF Shop!ToVoid
      <4> QED
        BY <2>2, <4>2
    <3> QED
      BY <1>2, <3>1 DEF InvoiceIsLookedFor
  <2>3. CASE Len(rows) <= 1 /\ Shop!ToVoid # {}
    <3>1. Refunding(shopping'[w])
      BY <1>1, <1>4, <2>3 DEF Refunding
    <3>2. \A i \in DOMAIN rows' : i = 1
      BY <1>2, <1>5, <2>3
    <3> QED
      BY <3>1, <3>2 DEF InvoiceIsLookedFor
  <2> QED
    BY <1>5, <2>1, <2>2, <2>3
<1>7. rows' \in Seq({"issued", "failed", "voided"})
  BY <1>2, <1>5
<1> QED
  BY <1>2, <1>4, <1>6, <1>7, DoorStays DEF ShopInv, RequestsKept

(* A request of the refund's that ends in something that excuses.          *)
LEMMA ExcusedKeeps ==
  ASSUME ShopInv, NEW w \in Workers, shopping' = [shopping EXCEPT ![w] = Shop!Idle],
         UNCHANGED <<json, newest, undone>>, excused',
         rows' \in Seq({"issued", "failed", "voided"}), "status" \in DOMAIN checkout'
  PROVE  ShopInv'
<1>1. Shop!Idle.at \notin {"settings", "paying"} /\ ~Refunding(Shop!Idle)
  BY DEF Shop!Idle, Refunding
<1>2. RequestsKept
  BY <1>1, RequestsAreKept
<1>3. InvoiceIsLookedFor'
  BY DEF InvoiceIsLookedFor
<1> QED
  BY <1>2, <1>3, DoorStays DEF ShopInv, RequestsKept

LEMMA CommitVoidKeeps ==
  ASSUME ShopInv, NEW w \in Workers, Shop!CommitVoid(w)
  PROVE  ShopInv'
<1> DEFINE r == shopping[w]
<1>1. /\ shopping[w].at = "void"
      /\ shopping' = [shopping EXCEPT ![w] = Shop!Idle]
      /\ \/ rows' = [rows EXCEPT ![shopping[w].row] = "voided"] /\ UNCHANGED excused
         \/ excused' = (excused \/ shopping[w].by = "refund") /\ UNCHANGED rows
      /\ UNCHANGED <<json, newest, undone, checkout>>
  BY DEF Shop!CommitVoid, Shop!End, Shop!door
<1>2. Shop!Idle.at \notin {"settings", "paying"} /\ ~Refunding(Shop!Idle)
  BY DEF Shop!Idle, Refunding
<1>3. RequestsKept /\ \A v \in Workers \ {w} : shopping'[v] = shopping[v]
  BY <1>1, <1>2, RequestsAreKept
<1>4. shopping[w] # [at |-> "look", by |-> "refund"]
  BY <1>1
<1>5. rows \in Seq({"issued", "failed", "voided"})
  BY DEF ShopInv
<1>6. /\ rows' \in Seq({"issued", "failed", "voided"})
      /\ \A i \in DOMAIN rows' : rows'[i] = "issued" => i \in DOMAIN rows /\ rows[i] = "issued"
      /\ rows' = rows \/ \A i \in DOMAIN rows' : i = shopping[w].row => rows'[i] # "issued"
  <2>1. CASE UNCHANGED rows
    BY <1>5, <2>1
  <2>2. CASE rows' = [rows EXCEPT ![shopping[w].row] = "voided"]
    <3>1. /\ rows' \in Seq({"issued", "failed", "voided"}) /\ DOMAIN rows' = DOMAIN rows
          /\ \A k \in DOMAIN rows : rows'[k] = IF k = shopping[w].row THEN "voided" ELSE rows[k]
      BY <1>5, <2>2, RowWritten
    <3> QED
      BY <3>1
  <2> QED
    BY <1>1, <2>1, <2>2
<1>7. excused => excused'
  BY <1>1
<1>8. StaysSold
  BY <1>1 DEF ShopInv, StaysSold
<1>9. CASE ~Refunding(shopping[w])
  BY <1>1, <1>2, <1>4, <1>6, <1>7, <1>8, <1>9, SaleKeeps
<1>10. CASE Refunding(shopping[w]) /\ rows' = rows /\ excused'
  BY <1>1, <1>6, <1>8, <1>10, ExcusedKeeps DEF StaysSold
<1>11. CASE Refunding(shopping[w]) /\ rows' = [rows EXCEPT ![shopping[w].row] = "voided"]
  <2>1. shopping[w].row = 1
    BY <1>11 DEF ShopInv
  <2>2. /\ DOMAIN rows' = DOMAIN rows
        /\ \A k \in DOMAIN rows : rows'[k] = IF k = 1 THEN "voided" ELSE rows[k]
    BY <1>5, <1>11, <2>1, RowWritten
  <2>3. InvoiceIsLookedFor'
    <3> SUFFICES ASSUME checkout'.status = "refunded", ~excused'
                 PROVE  Shop!RefundToLook' \/ \A i \in DOMAIN rows' : rows'[i] # "issued"
      BY DEF InvoiceIsLookedFor
    <3>1. CASE Shop!RefundToLook
      <4>1. PICK v \in Workers : shopping[v] = [at |-> "look", by |-> "refund"]
        BY <3>1 DEF Shop!RefundToLook
      <4>2. shopping'[v] = [at |-> "look", by |-> "refund"]
        BY <1>3, <1>4, <4>1
      <4> QED
        BY <4>2 DEF Shop!RefundToLook
    <3>2. CASE \A i \in DOMAIN rows : rows[i] = "issued" => i = 1
      BY <2>2, <3>2
    <3> QED
      BY <1>7, <1>8, <3>1, <3>2 DEF ShopInv, InvoiceIsLookedFor, StaysSold
  <2>4. rows' \in Seq({"issued", "failed", "voided"}) /\ UNCHANGED <<json, newest, undone>>
    BY <1>1, <1>6
  <2> QED
    BY <1>3, <1>8, <2>3, <2>4, DoorStays DEF ShopInv, RequestsKept, StaysSold
<1> QED
  BY <1>1, <1>9, <1>10, <1>11 DEF Refunding

LEMMA CrashKeeps ==
  ASSUME ShopInv, NEW w \in Workers, Shop!Crash(w)
  PROVE  ShopInv'
<1>1. /\ shopping' = [shopping EXCEPT ![w] = Shop!Idle]
      /\ excused' = (excused \/ (shopping[w].at \in {"look", "void"} /\ shopping[w].by = "refund"))
      /\ UNCHANGED <<json, newest, undone, checkout, rows>>
  BY DEF Shop!Crash, Shop!End, Shop!door
<1>2. Shop!Idle.at \notin {"settings", "paying"} /\ ~Refunding(Shop!Idle)
  BY DEF Shop!Idle, Refunding
<1>3. rows' \in Seq({"issued", "failed", "voided"}) /\ "status" \in DOMAIN checkout'
  BY <1>1 DEF ShopInv
<1>4. CASE shopping[w].at \in {"look", "void"} /\ shopping[w].by = "refund"
  <2>1. excused'
    BY <1>1, <1>4
  <2> QED
    BY <1>1, <1>3, <2>1, ExcusedKeeps
<1>5. CASE ~(shopping[w].at \in {"look", "void"} /\ shopping[w].by = "refund")
  <2>1. shopping[w] # [at |-> "look", by |-> "refund"] /\ ~Refunding(shopping[w])
    BY <1>5 DEF Refunding
  <2>2. /\ StaysSold
        /\ excused => excused'
        /\ \A i \in DOMAIN rows' : rows'[i] = "issued" => i \in DOMAIN rows /\ rows[i] = "issued"
    BY <1>1, <1>3 DEF StaysSold
  <2> QED
    BY <1>1, <1>2, <1>3, <2>1, <2>2, SaleKeeps
<1> QED
  BY <1>4, <1>5

(* The customer's own steps touch no request, and refund nothing.          *)
LEMMA CustomerKeeps ==
  ASSUME ShopInv, Shop!ResolveDoorQr \/ Shop!CreateCheckout \/ Shop!SelectCash \/ UNCHANGED Shop!shopVars
  PROVE  ShopInv'
<1>1. UNCHANGED <<json, newest, undone, rows, excused, shopping>>
  BY DEF Shop!ResolveDoorQr, Shop!CreateCheckout, Shop!SelectCash, Shop!shopVars, Shop!door, Shop!sale
<1>2. StaysSold
  <2>1. CASE Shop!ResolveDoorQr \/ UNCHANGED Shop!shopVars
    BY <2>1 DEF ShopInv, StaysSold, Shop!ResolveDoorQr, Shop!shopVars, Shop!sale
  <2>2. CASE Shop!CreateCheckout
    BY <2>2 DEF ShopInv, StaysSold, Shop!CreateCheckout
  <2>3. CASE Shop!SelectCash
    <3>1. \E t, d : checkout' = [checkout EXCEPT !.cash = TRUE, !.total = t, !.discount = d]
      BY <2>3, Zenon DEF Shop!SelectCash
    <3> QED
      BY <3>1 DEF ShopInv, StaysSold
  <2> QED
    BY <2>1, <2>2, <2>3
<1>3. InvoiceIsLookedFor'
  BY <1>1, <1>2 DEF ShopInv, StaysSold, InvoiceIsLookedFor, Shop!RefundToLook
<1>4. IsDoor(json)' /\ newest' \in Nat /\ (json'.qr < newest' => undone')
  BY <1>1, DoorStays
<1> QED
  BY <1>1, <1>2, <1>3, <1>4 DEF ShopInv, StaysSold

LEMMA ShopStep ==
  ASSUME Shop!ShopParameters, ShopInv, Shop!Next \/ UNCHANGED Shop!shopVars
  PROVE  ShopInv'
<1>1. ASSUME NEW w \in Workers, Shop!Handle(w) PROVE ShopInv'
  <2>1. CASE Shop!UpdateSettings(w) \/ Shop!RotateDoorQr(w) \/ Shop!GetDoorQr(w)
    BY <2>1, SettingsKeep
  <2>2. CASE Shop!CommitSettings(w)
    BY <2>2, CommitSettingsKeeps
  <2>3. CASE Shop!Claim(w)
    BY <2>3, ClaimKeeps
  <2>4. CASE Shop!CommitPaid(w)
    BY <2>4, CommitPaidKeeps
  <2>5. CASE Shop!IssueLook(w) \/ Shop!StaffIssue(w) \/ Shop!StaffVoid(w)
    BY <2>5, IssueLookKeeps
  <2>6. ASSUME NEW answer \in {"issued", "failed"}, Shop!CommitIssue(w, answer) PROVE ShopInv'
    BY <2>6, CommitIssueKeeps
  <2>7. CASE Shop!RefundCheckout(w)
    BY <2>7, RefundCheckoutKeeps
  <2>8. CASE Shop!RefundLook(w)
    BY <2>8, RefundLookKeeps
  <2>9. CASE Shop!CommitVoid(w)
    BY <2>9, CommitVoidKeeps
  <2>10. CASE Shop!Crash(w)
    BY <2>10, CrashKeeps
  <2> QED
    BY <1>1, <2>1, <2>2, <2>3, <2>4, <2>5, <2>6, <2>7, <2>8, <2>9, <2>10 DEF Shop!Handle
<1>2. CASE Shop!ResolveDoorQr \/ Shop!CreateCheckout \/ Shop!SelectCash \/ UNCHANGED Shop!shopVars
  BY <1>2, CustomerKeeps
<1> QED
  BY <1>1, <1>2 DEF Shop!Next

LEMMA ShopHolds ==
  ASSUME ShopInv PROVE Shop!DoorCodeKept /\ Shop!InvoiceOutlivesSaleForCause
<1>1. Shop!DoorCodeKept
  BY DEF ShopInv, IsDoor, Shop!DoorCodeKept
<1>2. Shop!InvoiceOutlivesSaleForCause
  BY DEF ShopInv, InvoiceIsLookedFor, Refunding, Shop!RefundToLook, Shop!Idle,
         Shop!InvoiceOutlivesSaleForCause
<1> QED
  BY <1>1, <1>2

(* The shop, for any number of workers, patches, baskets and requests: the *)
(* poster that the store shows is the one that works, a code that was      *)
(* rotated away works again only where two writes of the settings          *)
(* overlapped, and a refunded sale keeps an issued invoice for a known     *)
(* cause only (bookstore.py, bookstore_partner.py, invoices.py).           *)
THEOREM ShopAlways ==
  ASSUME Shop!ShopParameters
  PROVE  Shop!Spec => [](Shop!DoorCodeKept /\ Shop!InvoiceOutlivesSaleForCause)
<1>1. Shop!Init => ShopInv
  BY ShopInit
<1>2. ShopInv /\ [Shop!Next]_(Shop!shopVars) => ShopInv'
  BY ShopStep
<1>3. ShopInv => Shop!DoorCodeKept /\ Shop!InvoiceOutlivesSaleForCause
  BY ShopHolds
<1> QED
  BY <1>1, <1>2, <1>3, PTL DEF Shop!Spec

LEMMA ShopStepIsOwn ==
  ASSUME BackOfficeNext \/ UNCHANGED backOfficeVars, part = "shop"
  PROVE  part' = part /\ (Shop!Next \/ UNCHANGED Shop!shopVars)
<1>1. CASE BackOfficeNext
  BY <1>1 DEF BackOfficeNext
<1>2. CASE UNCHANGED backOfficeVars
  BY <1>2 DEF backOfficeVars
<1> QED
  BY <1>1, <1>2

LEMMA BackOfficeShop ==
  BackOfficeSpec => [](DoorCodeKept /\ InvoiceOutlivesSaleForCause)
<1> DEFINE Inv == part = "shop" => ShopInv
<1>1. BackOfficeInit => Inv
  BY ShopParametersHold, ShopInit DEF BackOfficeInit
<1>2. Inv /\ [BackOfficeNext]_backOfficeVars => Inv'
  <2> SUFFICES ASSUME Inv, [BackOfficeNext]_backOfficeVars, part' = "shop"
               PROVE  ShopInv'
    OBVIOUS
  <2>1. part = "shop"
    BY DEF BackOfficeNext, backOfficeVars
  <2>2. Shop!Next \/ UNCHANGED Shop!shopVars
    BY <2>1, ShopStepIsOwn
  <2> QED
    BY <2>1, <2>2, ShopParametersHold, ShopStep
<1>3. Inv => DoorCodeKept /\ InvoiceOutlivesSaleForCause
  BY ShopHolds DEF DoorCodeKept, InvoiceOutlivesSaleForCause
<1> QED
  BY <1>1, <1>2, <1>3, PTL DEF BackOfficeSpec

(* In the back office: no write of the settings, a first sale's included,  *)
(* drops or sets back the door's code but where two writes overlapped      *)
(* (write_bookstore_settings, ensure_app_identity, rotate_door_qr).        *)
THEOREM DoorCodeKeptAlways == BackOfficeSpec => []DoorCodeKept
BY BackOfficeShop, PTL

(* In the back office: a refunded sale keeps an issued invoice only where  *)
(* it was issued after the refund had looked, there were two rows, the     *)
(* gateway refused, or the refund was cut short (refund_checkout).         *)
THEOREM InvoiceOutlivesSaleForCauseAlways == BackOfficeSpec => []InvoiceOutlivesSaleForCause
BY BackOfficeShop, PTL

---------------------------------------------------------------------------
(* The delta pull of a till (DeltaPull): any number of rows, writers and   *)
(* pulls, pages of any size, and whatever fails or restarts.               *)

Pages == UNION {[S -> Pulling!Version] : S \in SUBSET Rows}

IsPull(u) ==
  \/ u \in {Pulling!Idle, [at |-> "begins"]}
  \/ u \in [at : {"asked"}, since : Pulling!Time]
  \/ u \in [at : {"answered", "applied"}, next : Pulling!Time, rows : Pages]

PullsAreTyped == DOMAIN pull = Pulls /\ \A p \in Pulls : IsPull(pull[p])

(* A row has as many versions as there were transactions, and those under  *)
(* way may add one each.                                                   *)
UnderWay == {w \in Writers : began[w] # None}

WritesCounted ==
  /\ writes \in 0..MaxWrites
  /\ \A r \in Rows : server[r].v + Cardinality(UnderWay) <= writes

(* Transactions begin after the epoch, from which a full resync asks.      *)
StampsAreTimes ==
  /\ clock # 0 /\ \A w \in Writers : began[w] # 0
  /\ \A r \in Rows : server[r].stamp = 0 => server[r].v = 0

(* Pulls overlap at a full resync only, which excuses every row.           *)
OnePull ==
  skipped = Rows \/ \A p, q \in Pulls : pull[p] # Pulling!Idle
       /\ pull[q] # Pulling!Idle => p = q

(* The cursor stays as it was read until the answer is there.              *)
AskedFromHere ==
  skipped = Rows \/ \A p \in Pulls : pull[p].at = "asked" => pull[p].since = since

(* The version of row r that the till will have when it has stored what    *)
(* pull p was answered.                                                    *)
WillHave(p, r) ==
  IF pull[p].at = "answered" /\ r \in DOMAIN pull[p].rows THEN pull[p].rows[r] ELSE till[r]

(* Of what is behind the cursor or will be, the till has or will have the  *)
(* latest version.                                                         *)
NothingLeftOut ==
  \A p \in Pulls : Pulling!Answered(p) =>
    \A r \in Rows \ skipped :
      server[r].stamp <= since \/ server[r].stamp <= pull[p].next =>
        WillHave(p, r) = server[r].v

DeltaInv ==
  /\ Pulling!DeltaTypeOK /\ PullsAreTyped
  /\ WritesCounted /\ StampsAreTimes
  /\ OnePull /\ AskedFromHere /\ NothingLeftOut
  /\ Pulling!MissedForCause

---------------------------------------------------------------------------
(* The cursor after a page.                                                *)

(* A set of bounded natural numbers has a greatest one.                    *)
LEMMA GreatestOfBounded ==
  ASSUME NEW n \in Nat, NEW T \in SUBSET (0..n), T # {}
  PROVE  Max(T) \in T /\ \A t \in T : t <= Max(T)
<1> DEFINE Less == {ss \in Nat \X Nat : ss[1] < ss[2]}
           Gaps == {m \in Nat : \E t \in T : m = n - t}
<1>1. IsWellFoundedOn(Less, Nat)
  BY NatLessThanWellFounded DEF OpToRel
<1>2. Gaps \subseteq Nat
  OBVIOUS
<1>3. Gaps # {}
  <2>1. PICK t \in T : t \in 0..n
    OBVIOUS
  <2>2. n - t \in Gaps
    BY <2>1
  <2> QED
    BY <2>2
<1>4. \E d \in Gaps : \A e \in Gaps : <<e, d>> \notin Less
  <2> HIDE DEF Gaps, Less
  <2> QED
    BY <1>1, <1>2, <1>3, WFMin
<1>5. PICK d \in Gaps : \A e \in Gaps : <<e, d>> \notin Less
  BY <1>4
<1>6. \A e \in Gaps : ~(e < d)
  <2> HIDE DEF Gaps
  <2> QED
    BY <1>2, <1>5
<1>7. PICK u \in T : d = n - u
  OBVIOUS
<1>8. \A t \in T : n - t \in Gaps
  OBVIOUS
<1>9. \A t \in T : u >= t
  <2> HIDE DEF Gaps
  <2> QED
    BY <1>6, <1>7, <1>8
<1> QED
  BY <1>9 DEF Max

---------------------------------------------------------------------------
(* Pulls.                                                                  *)

LEMMA PullForms ==
  ASSUME NEW u, IsPull(u)
  PROVE  /\ u.at \in {"idle", "begins", "asked", "answered", "applied"}
         /\ u.at = "idle" <=> u = Pulling!Idle
         /\ u.at = "asked" => u.since \in Pulling!Time
         /\ u.at \in {"answered", "applied"} =>
              u.next \in Pulling!Time /\ u.rows \in Pages /\ DOMAIN u = {"at", "next", "rows"}
BY DEF IsPull, Pulling!Idle

LEMMA PageForm ==
  ASSUME NEW f \in Pages
  PROVE  DOMAIN f \subseteq Rows /\ \A r \in DOMAIN f : f[r] \in Pulling!Version
BY DEF Pages

(* The counts of the module are those of its theorems.                     *)
LEMMA CountsAreSame ==
  \A S : (Pulling!IsFiniteSet(S) <=> IsFiniteSet(S)) /\ Pulling!Cardinality(S) = Cardinality(S)
        /\ Pulling!Max(S) = Max(S) /\ Pulling!Min(S) = Min(S)
BY DEF Pulling!IsFiniteSet, IsFiniteSet, Pulling!Cardinality, Cardinality,
       Pulling!Max, Max, Pulling!Min, Min

LEMMA UnderWayIsFinite ==
  ASSUME Pulling!DeltaParameters
  PROVE  IsFiniteSet(UnderWay) /\ Cardinality(UnderWay) \in Nat
<1>1. UnderWay \subseteq Writers
  BY DEF UnderWay
<1>2. IsFiniteSet(UnderWay)
  BY <1>1, CountsAreSame, FS_Subset DEF Pulling!DeltaParameters
<1> QED
  BY <1>2, FS_CardinalityType

(* What is put behind one pull's name keeps the pulls typed.               *)
LEMMA OnePullWritten ==
  ASSUME PullsAreTyped, NEW p \in Pulls, NEW u, IsPull(u),
         pull' = [pull EXCEPT ![p] = u]
  PROVE  PullsAreTyped' /\ pull'[p] = u /\ \A q \in Pulls \ {p} : pull'[q] = pull[q]
<1>1. DOMAIN pull' = Pulls /\ pull'[p] = u /\ \A q \in Pulls \ {p} : pull'[q] = pull[q]
  BY DEF PullsAreTyped
<1>2. IsPull(u)'
  BY DEF IsPull, Pulling!Idle, Pulling!Time, Pages, Pulling!Version
<1>3. ASSUME NEW q \in Pulls
      PROVE  IsPull(pull'[q])
  BY <1>1 DEF PullsAreTyped
<1> QED
  BY <1>1, <1>3 DEF PullsAreTyped

(* What the server keeps says the same as before.                          *)
LEMMA BackendKeeps ==
  ASSUME WritesCounted, StampsAreTimes, UNCHANGED Pulling!backend
  PROVE  WritesCounted' /\ StampsAreTimes'
BY DEF WritesCounted, StampsAreTimes, UnderWay, Pulling!backend

LEMMA DeltaInit ==
  ASSUME Pulling!DeltaParameters, Pulling!Init
  PROVE  DeltaInv
<1>1. UnderWay = {}
  BY DEF Pulling!Init, UnderWay
<1>2. Cardinality(UnderWay) = 0
  BY <1>1, FS_EmptySet
<1>3. Pulling!DeltaTypeOK
  BY DEF Pulling!Init, Pulling!DeltaParameters, Pulling!DeltaTypeOK, Pulling!Time,
         Pulling!Version, Pulling!Idle
<1>4. PullsAreTyped /\ OnePull /\ AskedFromHere /\ NothingLeftOut
  BY DEF Pulling!Init, PullsAreTyped, IsPull, OnePull, AskedFromHere, NothingLeftOut,
         Pulling!Answered, Pulling!Idle
<1>5. WritesCounted /\ StampsAreTimes
  BY <1>2, None \notin Pulling!Time, 1 \in Nat, 0 # None
     DEF Pulling!Init, WritesCounted, StampsAreTimes, Pulling!DeltaParameters,
         Pulling!Time
<1>6. Pulling!MissedForCause
  BY DEF Pulling!Init, Pulling!MissedForCause, Pulling!Missed
<1> QED
  BY <1>3, <1>4, <1>5, <1>6 DEF DeltaInv

---------------------------------------------------------------------------
(* The server's steps.                                                     *)

LEMMA TickStep ==
  ASSUME Pulling!DeltaParameters, DeltaInv, Pulling!Tick
  PROVE  DeltaInv'
<1> USE DEF DeltaInv, Pulling!Tick
<1>1. Pulling!DeltaTypeOK'
  BY DEF Pulling!DeltaTypeOK, Pulling!DeltaParameters, Pulling!Time
<1>2. PullsAreTyped'
  BY DEF PullsAreTyped
<1>3. WritesCounted' /\ StampsAreTimes'
  BY DEF WritesCounted, StampsAreTimes, UnderWay, Pulling!DeltaTypeOK, Pulling!Time
<1>4. OnePull' /\ AskedFromHere' /\ NothingLeftOut' /\ Pulling!MissedForCause'
  BY DEF OnePull, AskedFromHere, NothingLeftOut, Pulling!Answered, WillHave,
         Pulling!MissedForCause, Pulling!Missed
<1> QED
  BY <1>1, <1>2, <1>3, <1>4

LEMMA BeginWriteStep ==
  ASSUME Pulling!DeltaParameters, DeltaInv, NEW w \in Writers, Pulling!BeginWrite(w)
  PROVE  DeltaInv'
<1> USE DEF DeltaInv, Pulling!BeginWrite
<1>1. began' \in [Writers -> Pulling!Time \cup {None}] /\ began'[w] = clock /\ clock # None
  BY DEF Pulling!DeltaTypeOK, Pulling!DeltaParameters
<1>2. UnderWay' = UnderWay \cup {w} /\ w \notin UnderWay
  BY <1>1 DEF UnderWay, Pulling!DeltaTypeOK
<1>3. Cardinality(UnderWay') = Cardinality(UnderWay) + 1
  BY <1>2, UnderWayIsFinite, FS_AddElement
<1>4. Pulling!DeltaTypeOK'
  BY <1>1 DEF Pulling!DeltaTypeOK
<1>5. PullsAreTyped'
  BY DEF PullsAreTyped
<1>6. WritesCounted'
  BY <1>3, UnderWayIsFinite
     DEF WritesCounted, Pulling!DeltaTypeOK, Pulling!DeltaParameters, Pulling!Version
<1>7. StampsAreTimes'
  BY <1>1 DEF StampsAreTimes, Pulling!DeltaTypeOK
<1>8. OnePull' /\ AskedFromHere' /\ NothingLeftOut' /\ Pulling!MissedForCause'
  BY DEF OnePull, AskedFromHere, NothingLeftOut, Pulling!Answered, WillHave,
         Pulling!MissedForCause, Pulling!Missed
<1> QED
  BY <1>4, <1>5, <1>6, <1>7, <1>8

(* A row that a transaction changes is ahead of the cursor, or excused.    *)
LEMMA CommitWriteStep ==
  ASSUME Pulling!DeltaParameters, DeltaInv, NEW w \in Writers, Pulling!CommitWrite(w)
  PROVE  DeltaInv'
<1> USE DEF DeltaInv
<1>1. PICK changed \in SUBSET Rows, stamped \in SUBSET Rows :
        /\ \A r \in changed \ stamped : server[r].v # 0
        /\ server' = [r \in Rows |->
             IF r \notin changed THEN server[r]
             ELSE [v |-> server[r].v + 1,
                   stamp |-> IF r \in stamped THEN began[w] ELSE server[r].stamp]]
        /\ skipped' = skipped \cup {r \in changed : Pulling!Past(server'[r].stamp)}
  BY DEF Pulling!CommitWrite
<1>2. /\ began[w] # None /\ began[w] \in Pulling!Time /\ began[w] # 0
      /\ began' = [began EXCEPT ![w] = None]
      /\ UNCHANGED <<clock, till, since, pull, inFlight, writes, pulls>>
  BY DEF Pulling!CommitWrite, Pulling!DeltaTypeOK, StampsAreTimes
<1>3. UnderWay' = UnderWay \ {w} /\ w \in UnderWay
  BY <1>2 DEF UnderWay, Pulling!DeltaTypeOK
<1>4. Cardinality(UnderWay') = Cardinality(UnderWay) - 1
  BY <1>3, UnderWayIsFinite, FS_RemoveElement
<1>5. Cardinality(UnderWay) # 0
  BY <1>3, UnderWayIsFinite, FS_EmptySet
<1>6. ASSUME NEW r \in Rows
      PROVE  server[r].v + 1 \in Pulling!Version /\ server[r].v \in Nat
  <2>1. server[r].v \in 0..MaxWrites /\ MaxWrites \in Nat /\ writes \in 0..MaxWrites
    BY DEF WritesCounted, Pulling!DeltaTypeOK, Pulling!Version, Pulling!DeltaParameters
  <2>2. server[r].v + Cardinality(UnderWay) <= writes
    BY DEF WritesCounted
  <2>3. Cardinality(UnderWay) \in Nat \ {0}
    BY <1>5, UnderWayIsFinite
  <2> HIDE DEF DeltaInv
  <2> QED
    BY <2>1, <2>2, <2>3 DEF Pulling!Version
<1>7. Pulling!DeltaTypeOK'
  <2>1. server' \in [Rows -> [v : Pulling!Version, stamp : Pulling!Time]]
    BY <1>1, <1>2, <1>6 DEF Pulling!DeltaTypeOK
  <2> QED
    BY <2>1, <1>1, <1>2 DEF Pulling!DeltaTypeOK
<1>8. PullsAreTyped'
  BY <1>2 DEF PullsAreTyped
<1>9. WritesCounted'
  <2>1. \A r \in Rows : server'[r].v \in {server[r].v, server[r].v + 1}
    BY <1>1
  <2> QED
    BY <2>1, <1>2, <1>4, <1>6, UnderWayIsFinite
       DEF WritesCounted, Pulling!DeltaParameters
<1>10. StampsAreTimes'
  <2>1. \A r \in Rows :
          \/ server'[r] = server[r] \/ server'[r].stamp = began[w]
          \/ server'[r].stamp = server[r].stamp /\ server[r].v # 0
    BY <1>1
  <2>2. \A v \in Writers : began'[v] # 0
    BY <1>2
       DEF StampsAreTimes, Pulling!DeltaTypeOK, Pulling!DeltaParameters, Pulling!Time
  <2> QED
    BY <2>1, <2>2, <1>2 DEF StampsAreTimes
<1>11. skipped \subseteq skipped' /\ skipped' \subseteq Rows
  BY <1>1 DEF Pulling!DeltaTypeOK
<1>12. OnePull' /\ AskedFromHere'
  BY <1>2, <1>11 DEF OnePull, AskedFromHere
<1>13. ASSUME NEW r \in Rows \ skipped'
       PROVE  \/ server'[r] = server[r]
              \/ ~Pulling!Past(server'[r].stamp)
  BY <1>1, <1>13
<1>14. NothingLeftOut'
  BY <1>2, <1>11, <1>13 DEF NothingLeftOut, Pulling!Answered, WillHave, Pulling!Past
<1>15. Pulling!MissedForCause'
  BY <1>2, <1>11, <1>13 DEF Pulling!MissedForCause, Pulling!Missed, Pulling!Past
<1> QED
  BY <1>7, <1>8, <1>9, <1>10, <1>12, <1>14, <1>15

LEMMA LeastOfTwo ==
  ASSUME NEW m \in Nat, NEW n \in Nat
  PROVE  Min({m, n}) = IF m <= n THEN m ELSE n
BY DEF Min

(* Rows after t that a page leaves out are past the cursor that goes with  *)
(* it, or as old as a row of the page; an empty page leaves none out.      *)
LEMMA NextSincePasses ==
  ASSUME Pulling!DeltaParameters, Pulling!DeltaTypeOK,
         NEW t \in Pulling!Time, NEW page \in SUBSET Rows, Pulling!IsPage(page, t)
  PROVE  /\ Pulling!NextSince(page) \in Pulling!Time
         /\ \A q \in Pulling!After(t) \ page : server[q].stamp <= Pulling!NextSince(page) =>
              \E r \in page : server[q].stamp = server[r].stamp
<1>1. CASE page = {}
  <2>1. IsFiniteSet(Pulling!After(t)) /\ Cardinality(Pulling!After(t)) \in Nat
    BY CountsAreSame, FS_Subset, FS_CardinalityType
       DEF Pulling!After, Pulling!DeltaParameters
  <2>2. Min({PageSize, Cardinality(Pulling!After(t))}) = 0
    BY <1>1, CountsAreSame, FS_EmptySet DEF Pulling!IsPage
  <2>3. Cardinality(Pulling!After(t)) = 0
    BY <2>1, <2>2, LeastOfTwo DEF Pulling!DeltaParameters
  <2>4. Pulling!After(t) = {}
    BY <2>1, <2>3, FS_EmptySet
  <2> QED
    BY <1>1, <2>4 DEF Pulling!NextSince, Pulling!DeltaTypeOK
<1>2. CASE page # {}
  <2> DEFINE stamps == {server[r].stamp : r \in page}
  <2>1. stamps \in SUBSET (0..MaxClock) /\ stamps # {} /\ MaxClock \in Nat
    BY <1>2 DEF Pulling!DeltaTypeOK, Pulling!Time, Pulling!DeltaParameters
  <2>2. Max(stamps) \in stamps /\ Max(stamps) \in Pulling!Time
    <3> HIDE DEF stamps
    <3> QED
      BY <2>1, GreatestOfBounded DEF Pulling!Time
  <2>3. Pulling!NextSince(page) = Max(stamps)
    BY <1>2, CountsAreSame DEF Pulling!NextSince
  <2>4. PICK r \in page : server[r].stamp = Max(stamps)
    BY <2>2
  <2>5. ASSUME NEW q \in Pulling!After(t) \ page, server[q].stamp <= Pulling!NextSince(page)
        PROVE  server[q].stamp = server[r].stamp
    <3>1. server[r].stamp <= server[q].stamp
      BY <2>5 DEF Pulling!IsPage
    <3>2. server[q].stamp \in Nat /\ server[r].stamp \in Nat
      BY <2>5 DEF Pulling!After, Pulling!DeltaTypeOK, Pulling!Time
    <3> HIDE DEF stamps
    <3> QED
      BY <2>3, <2>4, <2>5, <3>1, <3>2
  <2> HIDE DEF stamps
  <2> QED
    BY <2>2, <2>3, <2>5
<1> QED
  BY <1>1, <1>2

---------------------------------------------------------------------------
(* The till's steps.                                                       *)

(* Once every row is excused there is nothing more to say of the till.     *)
LEMMA AllExcused ==
  ASSUME skipped' = Rows
  PROVE  OnePull' /\ AskedFromHere' /\ NothingLeftOut' /\ Pulling!MissedForCause'
BY DEF OnePull, AskedFromHere, NothingLeftOut, Pulling!MissedForCause

(* A pull that overlaps another excuses every row; alone, it goes on from  *)
(* a till that misses nothing, or from one that has nothing.               *)
LEMMA StartStep ==
  ASSUME Pulling!DeltaParameters, DeltaInv, NEW p \in Pulls,
         NEW full \in BOOLEAN, Pulling!Start(p, full)
  PROVE  DeltaInv'
<1> USE DEF DeltaInv
<1>1. /\ pull' = [pull EXCEPT ![p] = [at |-> "begins"]]
      /\ inFlight' = p /\ UNCHANGED Pulling!backend
      /\ skipped' = IF Pulling!Busy THEN Rows ELSE skipped
      /\ \/ full /\ till' = [r \in Rows |-> 0] /\ since' = 0
         \/ UNCHANGED <<till, since>>
  BY DEF Pulling!Start
<1>2. IsPull([at |-> "begins"])
  BY DEF IsPull
<1>3. /\ PullsAreTyped'
      /\ pull'[p] = [at |-> "begins"] /\ \A q \in Pulls \ {p} : pull'[q] = pull[q]
  BY <1>1, <1>2, OnePullWritten
<1>4. Pulling!DeltaTypeOK'
  <2>1. till' \in [Rows -> Pulling!Version] /\ since' \in Pulling!Time
    BY <1>1
       DEF Pulling!DeltaTypeOK, Pulling!Version, Pulling!Time, Pulling!DeltaParameters
  <2>2. \A q \in Pulls : pull'[q].at \in {"idle", "begins", "asked", "answered", "applied"}
    BY <1>3 DEF Pulling!DeltaTypeOK
  <2> QED
    BY <2>1, <2>2, <1>1 DEF Pulling!DeltaTypeOK, Pulling!backend
<1>5. WritesCounted' /\ StampsAreTimes'
  BY <1>1, BackendKeeps
<1>6. CASE Pulling!Busy
  BY <1>1, <1>3, <1>4, <1>5, <1>6, AllExcused
<1>7. CASE ~Pulling!Busy
  <2>1. \A q \in Pulls \ {p} : pull'[q] = Pulling!Idle
    BY <1>3, <1>7, PullForms DEF Pulling!Busy, PullsAreTyped
  <2>2. OnePull' /\ AskedFromHere' /\ NothingLeftOut'
    BY <2>1, <1>3
       DEF OnePull, AskedFromHere, NothingLeftOut, Pulling!Answered, Pulling!Idle
  <2>3. Pulling!MissedForCause'
    <3>1. CASE UNCHANGED <<till, since>>
      BY <1>1, <1>7, <3>1 DEF Pulling!MissedForCause, Pulling!Missed, Pulling!backend
    <3>2. CASE till' = [r \in Rows |-> 0] /\ since' = 0
      <4>1. \A r \in Rows : server[r].stamp <= 0 => server[r].v = 0
        BY DEF StampsAreTimes, Pulling!DeltaTypeOK, Pulling!Time
      <4> QED
        BY <4>1, <1>1, <3>2 DEF Pulling!MissedForCause, Pulling!Missed, Pulling!backend
    <3> QED
      BY <1>1, <3>1, <3>2
  <2> QED
    BY <1>3, <1>4, <1>5, <2>2, <2>3
<1> QED
  BY <1>6, <1>7

LEMMA ReadSinceStep ==
  ASSUME Pulling!DeltaParameters, DeltaInv, NEW p \in Pulls, Pulling!ReadSince(p)
  PROVE  DeltaInv'
<1> USE DEF DeltaInv
<1> DEFINE asked == [at |-> "asked", since |-> since]
<1>1. /\ pull' = [pull EXCEPT ![p] = asked]
      /\ UNCHANGED <<Pulling!backend, till, since, inFlight, skipped, pulls>>
      /\ pull[p] # Pulling!Idle
  BY DEF Pulling!ReadSince, Pulling!Idle
<1>2. IsPull(asked) /\ asked # Pulling!Idle
  BY DEF IsPull, Pulling!DeltaTypeOK, Pulling!Idle
<1>3. /\ PullsAreTyped'
      /\ pull'[p] = asked /\ \A q \in Pulls \ {p} : pull'[q] = pull[q]
  BY <1>1, <1>2, OnePullWritten
<1>4. Pulling!DeltaTypeOK'
  BY <1>1, <1>3 DEF Pulling!DeltaTypeOK, Pulling!backend
<1>5. WritesCounted' /\ StampsAreTimes'
  BY <1>1, BackendKeeps
<1>6. OnePull'
  BY <1>1, <1>3 DEF OnePull
<1>7. AskedFromHere' /\ NothingLeftOut' /\ Pulling!MissedForCause'
  BY <1>1, <1>3
     DEF AskedFromHere, NothingLeftOut, Pulling!Answered, WillHave,
         Pulling!MissedForCause, Pulling!Missed, Pulling!backend
<1> QED
  BY <1>3, <1>4, <1>5, <1>6, <1>7

LEMMA SyncProductsStep ==
  ASSUME Pulling!DeltaParameters, DeltaInv, NEW p \in Pulls, Pulling!SyncProducts(p)
  PROVE  DeltaInv'
<1> USE DEF DeltaInv
<1> DEFINE t == pull[p].since
<1>1. PICK page \in SUBSET Rows :
        /\ Pulling!IsPage(page, t)
        /\ pull' = [pull EXCEPT ![p] =
             [at |-> "answered", next |-> Pulling!NextSince(page),
              rows |-> [r \in page |-> server[r].v]]]
        /\ skipped' = skipped \cup
             {q \in Pulling!After(t) \ page : \E r \in page : server[q].stamp = server[r].stamp}
  BY DEF Pulling!SyncProducts
<1>2. /\ pull[p].at = "asked" /\ pull[p] # Pulling!Idle /\ t \in Pulling!Time
      /\ UNCHANGED <<Pulling!backend, till, since, inFlight, pulls>>
  BY PullForms DEF Pulling!SyncProducts, PullsAreTyped, Pulling!Idle
<1>3. /\ Pulling!NextSince(page) \in Pulling!Time
      /\ \A q \in Pulling!After(t) \ page : server[q].stamp <= Pulling!NextSince(page) =>
           \E r \in page : server[q].stamp = server[r].stamp
  BY <1>1, <1>2, NextSincePasses
<1> DEFINE answer == [at |-> "answered", next |-> Pulling!NextSince(page),
                      rows |-> [r \in page |-> server[r].v]]
<1>4. answer.rows \in [page -> Pulling!Version]
  BY DEF Pulling!DeltaTypeOK
<1>5. IsPull(answer) /\ answer # Pulling!Idle
  BY <1>3, <1>4 DEF IsPull, Pages, Pulling!Idle
<1> HIDE DEF answer
<1>6. /\ PullsAreTyped'
      /\ pull'[p] = answer /\ \A q \in Pulls \ {p} : pull'[q] = pull[q]
  BY <1>1, <1>5, OnePullWritten DEF answer
<1>7. skipped \subseteq skipped' /\ skipped' \subseteq Rows
  BY <1>1 DEF Pulling!DeltaTypeOK, Pulling!After
<1>8. Pulling!DeltaTypeOK'
  <2>1. pull'[p].at = "answered"
    BY <1>6 DEF answer
  <2> QED
    BY <1>2, <1>6, <1>7, <2>1 DEF Pulling!DeltaTypeOK, Pulling!backend
<1>9. WritesCounted' /\ StampsAreTimes'
  BY <1>2, BackendKeeps
<1>10. Pulling!MissedForCause'
  BY <1>2, <1>7 DEF Pulling!MissedForCause, Pulling!Missed, Pulling!backend
<1>11. CASE skipped' = Rows
  BY <1>6, <1>8, <1>9, <1>11, AllExcused
<1>12. CASE skipped' # Rows
  <2>1. skipped # Rows /\ t = since
    BY <1>2, <1>7, <1>12 DEF AskedFromHere
  <2>2. OnePull' /\ AskedFromHere'
    BY <1>2, <1>6, <1>7, <2>1 DEF OnePull, AskedFromHere, answer
  <2>3. ASSUME NEW q \in Pulls, Pulling!Answered(q)'
        PROVE  q = p
    BY <1>2, <1>6, <2>1, <2>3 DEF OnePull, Pulling!Answered, Pulling!Idle
  <2>4. ASSUME NEW r \in Rows \ skipped',
               server[r].stamp <= since \/ server[r].stamp <= Pulling!NextSince(page)
        PROVE  (IF r \in page THEN server[r].v ELSE till[r]) = server[r].v
    <3>1. CASE r \in page
      BY <3>1
    <3>2. CASE r \notin page /\ r \in Pulling!After(t)
      <4>1. ~(server[r].stamp <= since)
        BY <2>1, <3>2 DEF Pulling!After, Pulling!DeltaTypeOK, Pulling!Time
      <4> QED
        BY <1>1, <1>3, <2>4, <3>2, <4>1
    <3>3. CASE r \notin page /\ r \notin Pulling!After(t)
      <4>1. server[r].stamp <= since
        BY <2>1, <3>3 DEF Pulling!After, Pulling!DeltaTypeOK, Pulling!Time
      <4> QED
        BY <1>7, <3>3, <4>1 DEF Pulling!MissedForCause, Pulling!Missed
    <3> QED
      BY <3>1, <3>2, <3>3
  <2>5. pull'[p].next = Pulling!NextSince(page) /\ pull'[p].at = "answered"
        /\ DOMAIN pull'[p].rows = page /\ \A r \in page : pull'[p].rows[r] = server[r].v
    BY <1>6 DEF answer
  <2>6. NothingLeftOut'
    <3> SUFFICES ASSUME NEW r \in Rows \ skipped',
                        server[r].stamp <= since \/ server[r].stamp <= Pulling!NextSince(page)
                 PROVE  WillHave(p, r)' = server[r].v
      BY <1>2, <2>3, <2>5 DEF NothingLeftOut, Pulling!backend
    <3> QED
      BY <1>2, <2>4, <2>5 DEF WillHave
  <2> QED
    BY <1>6, <1>8, <1>9, <1>10, <2>2, <2>6
<1> QED
  BY <1>11, <1>12

(* A pull that ends leaves the others as they are.                         *)
LEMMA EndedKeeps ==
  ASSUME DeltaInv, NEW p \in Pulls, Pulling!Ended(p),
         UNCHANGED <<Pulling!backend, till, skipped>>, since' \in Pulling!Time
  PROVE  /\ Pulling!DeltaTypeOK' /\ PullsAreTyped' /\ WritesCounted' /\ StampsAreTimes'
         /\ OnePull'
         /\ pull'[p] = Pulling!Idle /\ \A q \in Pulls \ {p} : pull'[q] = pull[q]
<1> USE DEF DeltaInv
<1>1. IsPull(Pulling!Idle)
  BY DEF IsPull
<1>2. /\ PullsAreTyped'
      /\ pull'[p] = Pulling!Idle /\ \A q \in Pulls \ {p} : pull'[q] = pull[q]
  BY <1>1, OnePullWritten DEF Pulling!Ended
<1>3. Pulling!DeltaTypeOK'
  <2>1. inFlight' \in Pulls \cup {None}
    BY DEF Pulling!Ended, Pulling!DeltaTypeOK
  <2>2. \A q \in Pulls : pull'[q].at \in {"idle", "begins", "asked", "answered", "applied"}
    BY <1>2 DEF Pulling!DeltaTypeOK, Pulling!Idle
  <2> QED
    BY <2>1, <2>2 DEF Pulling!DeltaTypeOK, Pulling!backend
<1>4. WritesCounted' /\ StampsAreTimes'
  BY BackendKeeps
<1>5. OnePull'
  BY <1>2 DEF OnePull
<1> QED
  BY <1>2, <1>3, <1>4, <1>5

LEMMA FailStep ==
  ASSUME Pulling!DeltaParameters, DeltaInv, NEW p \in Pulls, Pulling!Fail(p)
  PROVE  DeltaInv'
<1>1. Pulling!Ended(p) /\ UNCHANGED <<Pulling!backend, till, since, skipped, pulls>>
  BY DEF Pulling!Fail
<1>2. since' \in Pulling!Time
  BY <1>1 DEF DeltaInv, Pulling!DeltaTypeOK
<1>3. /\ Pulling!DeltaTypeOK' /\ PullsAreTyped' /\ WritesCounted' /\ StampsAreTimes' /\ OnePull'
      /\ pull'[p] = Pulling!Idle /\ \A q \in Pulls \ {p} : pull'[q] = pull[q]
  BY <1>1, <1>2, EndedKeeps
<1>4. AskedFromHere' /\ NothingLeftOut' /\ Pulling!MissedForCause'
  BY <1>1, <1>3
     DEF DeltaInv, AskedFromHere, NothingLeftOut, Pulling!Answered, WillHave,
         Pulling!MissedForCause, Pulling!Missed, Pulling!backend, Pulling!Idle
<1> QED
  BY <1>3, <1>4 DEF DeltaInv

(* Storing a page makes true what was to come of it.                       *)
LEMMA StoreStep ==
  ASSUME Pulling!DeltaParameters, DeltaInv, NEW p \in Pulls, Pulling!Store(p)
  PROVE  DeltaInv'
<1> USE DEF DeltaInv
<1> DEFINE page == pull[p].rows
           applied == [pull[p] EXCEPT !.at = "applied"]
<1>1. /\ pull[p].at = "answered" /\ pull[p] # Pulling!Idle
      /\ till' = [r \in Rows |-> IF r \in DOMAIN page THEN page[r] ELSE till[r]]
      /\ pull' = [pull EXCEPT ![p] = applied]
      /\ UNCHANGED <<Pulling!backend, since, inFlight, skipped, pulls>>
  BY DEF Pulling!Store, Pulling!Idle
<1>2. /\ pull[p] \in [at : {"answered", "applied"}, next : Pulling!Time, rows : Pages]
      /\ page \in Pages
  BY <1>1 DEF PullsAreTyped, IsPull, Pulling!Idle
<1>3. applied \in [at : {"answered", "applied"}, next : Pulling!Time, rows : Pages]
      /\ applied.at = "applied" /\ applied.next = pull[p].next /\ applied # Pulling!Idle
  BY <1>2 DEF Pulling!Idle
<1>4. IsPull(applied)
  BY <1>3 DEF IsPull
<1> HIDE DEF applied
<1>5. /\ PullsAreTyped'
      /\ pull'[p] = applied /\ \A q \in Pulls \ {p} : pull'[q] = pull[q]
  BY <1>1, <1>4, OnePullWritten
<1>6. DOMAIN page \subseteq Rows /\ \A r \in DOMAIN page : page[r] \in Pulling!Version
  BY <1>2, PageForm
<1>7. Pulling!DeltaTypeOK'
  <2>1. till' \in [Rows -> Pulling!Version]
    BY <1>1, <1>6 DEF Pulling!DeltaTypeOK
  <2>2. \A q \in Pulls : pull'[q].at \in {"idle", "begins", "asked", "answered", "applied"}
    BY <1>3, <1>5 DEF Pulling!DeltaTypeOK
  <2> QED
    BY <1>1, <2>1, <2>2 DEF Pulling!DeltaTypeOK, Pulling!backend
<1>8. WritesCounted' /\ StampsAreTimes'
  BY <1>1, BackendKeeps
<1>9. \A r \in Rows : till'[r] = WillHave(p, r)
  BY <1>1 DEF WillHave
<1>10. ASSUME NEW r \in Rows \ skipped,
              server[r].stamp <= since \/ server[r].stamp <= pull[p].next
       PROVE  till'[r] = server[r].v
  BY <1>1, <1>9, <1>10 DEF NothingLeftOut, Pulling!Answered
<1>11. Pulling!MissedForCause'
  BY <1>1, <1>10 DEF Pulling!MissedForCause, Pulling!Missed, Pulling!backend
<1>12. CASE skipped = Rows
  BY <1>1, <1>5, <1>7, <1>8, <1>12, AllExcused
<1>13. CASE skipped # Rows
  <2>1. \A q \in Pulls \ {p} : pull'[q] = Pulling!Idle
    BY <1>1, <1>5, <1>13 DEF OnePull
  <2>2. OnePull' /\ AskedFromHere'
    BY <2>1, <1>3, <1>5 DEF OnePull, AskedFromHere, Pulling!Idle
  <2>3. NothingLeftOut'
    <3> SUFFICES ASSUME NEW q \in Pulls, Pulling!Answered(q)',
                        NEW r \in Rows \ skipped,
                        server[r].stamp <= since \/ server[r].stamp <= pull'[q].next
                 PROVE  WillHave(q, r)' = server[r].v
      BY <1>1 DEF NothingLeftOut, Pulling!backend
    <3>1. q = p
      BY <2>1 DEF Pulling!Answered, Pulling!Idle
    <3> QED
      BY <3>1, <1>3, <1>5, <1>10 DEF WillHave
  <2> QED
    BY <1>5, <1>7, <1>8, <1>11, <2>2, <2>3
<1> QED
  BY <1>12, <1>13

(* The cursor moves over what the till has stored.                         *)
LEMMA WriteSinceStep ==
  ASSUME Pulling!DeltaParameters, DeltaInv, NEW p \in Pulls, Pulling!WriteSince(p)
  PROVE  DeltaInv'
<1> USE DEF DeltaInv
<1>1. /\ pull[p].at = "applied" /\ pull[p] # Pulling!Idle
      /\ since' = pull[p].next
      /\ \/ Pulling!Ended(p)
         \/ pull' = [pull EXCEPT ![p] = [at |-> "begins"]] /\ UNCHANGED inFlight
      /\ UNCHANGED <<Pulling!backend, till, skipped, pulls>>
  BY DEF Pulling!WriteSince, Pulling!Idle
<1>2. since' \in Pulling!Time
  BY <1>1, PullForms DEF PullsAreTyped
<1>3. Pulling!MissedForCause'
  BY <1>1
     DEF NothingLeftOut, Pulling!Answered, WillHave, Pulling!MissedForCause,
         Pulling!Missed, Pulling!backend
<1>4. /\ PullsAreTyped' /\ Pulling!DeltaTypeOK' /\ WritesCounted' /\ StampsAreTimes'
      /\ pull'[p].at \in {"idle", "begins"}
      /\ \A q \in Pulls \ {p} : pull'[q] = pull[q]
  <2>1. CASE Pulling!Ended(p)
    BY <2>1, <1>1, <1>2, EndedKeeps DEF Pulling!Idle
  <2>2. CASE pull' = [pull EXCEPT ![p] = [at |-> "begins"]] /\ UNCHANGED inFlight
    <3>1. IsPull([at |-> "begins"])
      BY DEF IsPull
    <3>2. /\ PullsAreTyped'
          /\ pull'[p] = [at |-> "begins"] /\ \A q \in Pulls \ {p} : pull'[q] = pull[q]
      BY <2>2, <3>1, OnePullWritten
    <3>3. Pulling!DeltaTypeOK'
      BY <1>1, <1>2, <2>2, <3>2 DEF Pulling!DeltaTypeOK, Pulling!backend
    <3> QED
      BY <1>1, <3>2, <3>3, BackendKeeps
  <2> QED
    BY <1>1, <2>1, <2>2
<1>5. CASE skipped = Rows
  BY <1>1, <1>4, <1>5, AllExcused
<1>6. CASE skipped # Rows
  <2>1. \A q \in Pulls \ {p} : pull'[q] = Pulling!Idle
    BY <1>1, <1>4, <1>6 DEF OnePull
  <2>2. OnePull' /\ AskedFromHere' /\ NothingLeftOut'
    BY <2>1, <1>4
       DEF OnePull, AskedFromHere, NothingLeftOut, Pulling!Answered, Pulling!Idle
  <2> QED
    BY <1>3, <1>4, <2>2
<1> QED
  BY <1>5, <1>6

LEMMA CrashStep ==
  ASSUME Pulling!DeltaParameters, DeltaInv, Pulling!Crash
  PROVE  DeltaInv'
<1> USE DEF DeltaInv
<1>1. /\ pull' = [p \in Pulls |-> Pulling!Idle] /\ inFlight' = None
      /\ UNCHANGED <<Pulling!backend, till, since, skipped, pulls>>
  BY DEF Pulling!Crash
<1>2. Pulling!DeltaTypeOK' /\ PullsAreTyped'
  BY <1>1 DEF Pulling!DeltaTypeOK, PullsAreTyped, IsPull, Pulling!Idle, Pulling!backend
<1>3. WritesCounted' /\ StampsAreTimes'
  BY <1>1, BackendKeeps
<1>4. OnePull' /\ AskedFromHere' /\ NothingLeftOut' /\ Pulling!MissedForCause'
  BY <1>1
     DEF OnePull, AskedFromHere, NothingLeftOut, Pulling!Answered, Pulling!Idle,
         Pulling!MissedForCause, Pulling!Missed, Pulling!backend
<1> QED
  BY <1>2, <1>3, <1>4

LEMMA DeltaStep ==
  ASSUME Pulling!DeltaParameters, DeltaInv, [Pulling!Next]_Pulling!deltaVars
  PROVE  DeltaInv'
<1>1. CASE Pulling!Tick
  BY <1>1, TickStep
<1>2. ASSUME NEW w \in Writers, Pulling!BeginWrite(w) \/ Pulling!CommitWrite(w)
      PROVE  DeltaInv'
  BY <1>2, BeginWriteStep, CommitWriteStep
<1>3. ASSUME NEW p \in Pulls, Pulling!PullStep(p)
      PROVE  DeltaInv'
  <2>1. CASE Pulling!PullAll(p) \/ Pulling!ForceFullResync(p)
    BY <2>1, StartStep DEF Pulling!PullAll, Pulling!ForceFullResync
  <2> QED
    BY <1>3, <2>1, ReadSinceStep, SyncProductsStep, FailStep, StoreStep, WriteSinceStep
       DEF Pulling!PullStep
<1>4. CASE Pulling!Crash
  BY <1>4, CrashStep
<1>5. CASE UNCHANGED Pulling!deltaVars
  BY <1>5
     DEF Pulling!deltaVars, DeltaInv, Pulling!DeltaTypeOK, PullsAreTyped, WritesCounted,
         UnderWay, StampsAreTimes, OnePull, AskedFromHere, NothingLeftOut,
         Pulling!Answered, WillHave, Pulling!MissedForCause, Pulling!Missed
<1> QED
  BY <1>1, <1>2, <1>3, <1>4, <1>5 DEF Pulling!Next

---------------------------------------------------------------------------
(* The theorems.                                                           *)

(* A change that the server has and the till lacks is ahead of the cursor, *)
(* whatever the size of pages and however pulls fail, repeat and restart,  *)
(* but for the rows of the four known gaps (sync_products, update_product  *)
(* and DeltaPuller); and the rows of both keep their types.                    *)
THEOREM DeltaAlways ==
  ASSUME Pulling!DeltaParameters
  PROVE  Pulling!Spec => [](Pulling!MissedForCause /\ Pulling!DeltaTypeOK)
<1>1. Pulling!Init => DeltaInv
  BY DeltaInit
<1>2. DeltaInv /\ [Pulling!Next]_Pulling!deltaVars => DeltaInv'
  BY DeltaStep
<1>3. DeltaInv => Pulling!MissedForCause /\ Pulling!DeltaTypeOK
  BY DEF DeltaInv
<1> QED
  BY <1>1, <1>2, <1>3, PTL DEF Pulling!Spec

(* A step of the back office, of the part that pulls, is one of DeltaPull. *)
LEMMA PullStepIsOwn ==
  ASSUME BackOfficeNext \/ UNCHANGED backOfficeVars, part = "pulls"
  PROVE  part' = part /\ (Pulling!Next \/ UNCHANGED Pulling!deltaVars)
<1>1. CASE BackOfficeNext
  BY <1>1 DEF BackOfficeNext
<1>2. CASE UNCHANGED backOfficeVars
  BY <1>2 DEF backOfficeVars
<1> QED
  BY <1>1, <1>2

(* In the back office: a till that has no pull under way lacks no change of *)
(* a row, but for the four causes.                                         *)
THEOREM MissedForCauseAlways == BackOfficeSpec => []MissedForCause
<1> DEFINE Inv == part = "pulls" => DeltaInv
<1>1. BackOfficeInit => Inv
  BY DeltaParametersHold, DeltaInit DEF BackOfficeInit
<1>2. Inv /\ [BackOfficeNext]_backOfficeVars => Inv'
  <2> SUFFICES ASSUME Inv, [BackOfficeNext]_backOfficeVars, part' = "pulls"
               PROVE  DeltaInv'
    OBVIOUS
  <2>1. part = "pulls"
    BY DEF BackOfficeNext, backOfficeVars
  <2>2. [Pulling!Next]_Pulling!deltaVars
    BY <2>1, PullStepIsOwn
  <2> QED
    BY <2>1, <2>2, DeltaParametersHold, DeltaStep
<1>3. Inv => MissedForCause
  BY DEF DeltaInv, MissedForCause
<1> QED
  BY <1>1, <1>2, <1>3, PTL DEF BackOfficeSpec

---------------------------------------------------------------------------
(* Induction, on a set of naturals.                                        *)
LEMMA LeastOfNaturals ==
  ASSUME NEW T \in SUBSET Nat, T # {}
  PROVE  \E n \in T : \A m \in T : n <= m
<1> DEFINE R == OpToRel(<, Nat)
<1>1. IsWellFoundedOn(R, Nat)
  BY NatLessThanWellFounded, Zenon
<1>2. \A m, n \in Nat : m < n => <<m, n>> \in R
  BY DEF OpToRel
<1> HIDE DEF R
<1>3. PICK n \in T : \A m \in T : <<m, n>> \notin R
  BY <1>1, WFMin
<1>4. \A m \in T : ~(m < n)
  BY <1>2, <1>3
<1> QED
  BY <1>4

LEMMA NaturalsInduct ==
  ASSUME NEW good, 0 \in good, \A n \in Nat : n \in good => n + 1 \in good
  PROVE  \A n \in Nat : n \in good
<1> SUFFICES ASSUME {n \in Nat : n \notin good} # {} PROVE FALSE
  OBVIOUS
<1>1. PICK n \in {k \in Nat : k \notin good} : \A m \in {k \in Nat : k \notin good} : n <= m
  BY LeastOfNaturals
<1>2. n # 0 /\ n - 1 \in Nat /\ n - 1 \in good
  BY <1>1
<1>3. (n - 1) + 1 \in good
  BY <1>2
<1> QED
  BY <1>1, <1>3

---------------------------------------------------------------------------
(* What pages show can be ordered (Storefront).                            *)

LEMMA FrontCounts ==
  \A S : (Front!IsFiniteSet(S) <=> IsFiniteSet(S)) /\ Front!Cardinality(S) = Cardinality(S)
BY DEF Front!IsFiniteSet, IsFiniteSet, Front!Cardinality, Cardinality

(* The way up from a category begins with itself.                          *)
Climbs(g, n, tree, c) ==
  g = [k \in 0..n |->
         IF k = 0 THEN {c} \cap Front!Live(tree)
         ELSE g[k - 1] \cup ({tree[d].parent : d \in g[k - 1]} \cap Front!Live(tree))]

LEMMA ClimbsExist ==
  ASSUME NEW tree, NEW c \in Front!Live(tree), NEW n \in Nat
  PROVE  \E g : Climbs(g, n, tree, c)
<1> DEFINE near(S) == S \cup ({tree[d].parent : d \in S} \cap Front!Live(tree))
           base == {c} \cap Front!Live(tree)
           good == {k \in Nat : \E g : g = [j \in 0..k |-> IF j = 0 THEN base ELSE near(g[j - 1])]}
<1> HIDE DEF near, base
<1>1. 0 \in good
  <2>1. [j \in 0..0 |-> base] = [j \in 0..0 |-> IF j = 0 THEN base ELSE near([i \in 0..0 |-> base][j - 1])]
    OBVIOUS
  <2> QED
    BY <2>1
<1>2. ASSUME NEW k \in Nat, k \in good PROVE k + 1 \in good
  <2>1. PICK g : g = [j \in 0..k |-> IF j = 0 THEN base ELSE near(g[j - 1])]
    BY <1>2
  <2> DEFINE h == [j \in 0..(k + 1) |-> IF j = 0 THEN base ELSE near(g[j - 1])]
  <2>2. \A j \in 0..(k + 1) : j # 0 => h[j - 1] = g[j - 1]
    <3> SUFFICES ASSUME NEW j \in 0..(k + 1), j # 0 PROVE h[j - 1] = g[j - 1]
      OBVIOUS
    <3>1. j - 1 \in 0..k /\ j - 1 \in 0..(k + 1)
      OBVIOUS
    <3> QED
      BY <2>1, <3>1
  <2>3. h = [j \in 0..(k + 1) |-> IF j = 0 THEN base ELSE near(h[j - 1])]
    BY <2>2
  <2> HIDE DEF h
  <2> QED
    BY <2>3
<1> HIDE DEF good
<1>3. n \in good
  BY <1>1, <1>2, NaturalsInduct
<1> QED
  BY <1>3 DEF good, near, base, Climbs

LEMMA ClimbsFromItself ==
  ASSUME NEW tree, NEW c \in Front!Live(tree), NEW n \in Nat, NEW g, Climbs(g, n, tree, c)
  PROVE  c \in g[n]
<1> DEFINE good == {k \in Nat : k <= n => c \in g[k]}
<1>1. 0 \in good
  BY DEF Climbs
<1>2. ASSUME NEW k \in Nat, k \in good PROVE k + 1 \in good
  BY <1>2 DEF Climbs
<1> HIDE DEF good
<1>3. n \in good
  BY <1>1, <1>2, NaturalsInduct
<1> QED
  BY <1>3 DEF good

LEMMA OwnAncestor ==
  ASSUME Front!StorefrontParameters, NEW tree, NEW c \in Front!Live(tree)
  PROVE  c \in Front!Ancestors(tree, c)
<1> DEFINE n == Front!Cardinality(Categories)
           g == CHOOSE f : Climbs(f, n, tree, c)
<1>1. n \in Nat
  BY FrontCounts, FS_CardinalityType DEF Front!StorefrontParameters
<1>2. Front!Ancestors(tree, c) = g[n]
  BY DEF Front!Ancestors, Climbs
<1> HIDE DEF n
<1>3. Climbs(g, n, tree, c)
  BY <1>1, ClimbsExist
<1> HIDE DEF g
<1> QED
  BY <1>1, <1>2, <1>3, ClimbsFromItself

(* A group of options is a row, and a store that takes orders has a way to *)
(* fetch them and to pay, whatever its settings were patched to.           *)
FrontInv ==
  /\ group \in Front!OptionGroup
  /\ ordering \in [MenuStores -> Front!OnlineOrdering \cup {None}]
  /\ \A s \in MenuStores : ordering[s] # None /\ ordering[s].on =>
       ordering[s].supports # {} /\ ordering[s].pays # {}

LEMMA FrontInit == Front!StorefrontParameters /\ Front!StorefrontInit => FrontInv
BY DEF Front!StorefrontParameters, Front!StorefrontInit, Front!Init, FrontInv

LEMMA NormalisedFits ==
  ASSUME Front!StorefrontParameters, NEW patch \in OrderingPatches
  PROVE  /\ Front!Normalised(patch) \in Front!OnlineOrdering \cup {None}
         /\ Front!Normalised(patch) # None /\ Front!Normalised(patch).on =>
              Front!Normalised(patch).supports # {} /\ Front!Normalised(patch).pays # {}
<1>1. CASE patch = None \/ ~patch.on
  BY <1>1 DEF Front!Normalised, Front!StorefrontParameters
<1>2. CASE patch # None /\ patch.on
  <2> DEFINE supports == IF patch.supports = {} THEN Fulfillments \cap {"pickup", "dine_in"}
                         ELSE patch.supports
             pays == IF patch.pays = {} THEN {"counter"} ELSE patch.pays
             row == [patch EXCEPT !.supports = supports, !.pays = pays]
  <2>1. patch \in Front!OnlineOrdering
    BY <1>2 DEF Front!StorefrontParameters
  <2>2. Front!Normalised(patch) = row
    BY <1>2, <2>1 DEF Front!Normalised, Front!OnlineOrdering
  <2>3. supports \in SUBSET Fulfillments /\ supports # {}
    BY <2>1 DEF Front!StorefrontParameters, Front!OnlineOrdering
  <2>4. pays \in SUBSET Front!Payments /\ pays # {}
    BY <2>1 DEF Front!OnlineOrdering, Front!Payments
  <2> HIDE DEF supports, pays
  <2>5. row \in Front!OnlineOrdering /\ row.supports = supports /\ row.pays = pays
    BY <2>1, <2>3, <2>4 DEF Front!OnlineOrdering
  <2> QED
    BY <2>2, <2>3, <2>4, <2>5
<1> QED
  BY <1>1, <1>2

(* No other step changes what the settings of the stores are.              *)
LEMMA FrontStep ==
  ASSUME Front!StorefrontParameters, FrontInv, [Front!StorefrontNext]_(Front!storefrontVars)
  PROVE  FrontInv'
<1>1. CASE UNCHANGED <<group, ordering>>
  BY <1>1 DEF FrontInv
<1>2. CASE Front!Next /\ UNCHANGED Front!shopVars
  <2>1. UNCHANGED ordering
    BY <1>2 DEF Front!shopVars
  <2>2. group' \in Front!OptionGroup
    <3>1. CASE UNCHANGED group
      BY <3>1 DEF FrontInv
    <3>2. ASSUME NEW row \in Groups, Front!UpdateGroup(row) PROVE group' \in Front!OptionGroup
      BY <3>2 DEF Front!UpdateGroup, Front!StorefrontParameters
    <3>3. CASE Front!DeleteGroup
      BY <3>3 DEF Front!DeleteGroup, FrontInv, Front!OptionGroup
    <3> QED
      BY <1>2, <3>1, <3>2, <3>3
         DEF Front!Next, Front!CreateCategory, Front!UpdateCategory, Front!DeleteCategory,
             Front!CommitCategory, Front!Abort, Front!Begin, Front!rows, Front!CreateProduct,
             Front!ImportProduct, Front!UpdateProduct, Front!DeleteProduct, Front!SetGroups,
             Front!SetOverride, Front!DeleteChoice, Front!UpdateChoice
  <2> QED
    BY <2>1, <2>2 DEF FrontInv
<1>3. ASSUME NEW s \in MenuStores, NEW patch \in OrderingPatches,
             Front!SetOnlineOrdering(s, patch)
      PROVE  FrontInv'
  <2>1. UNCHANGED group /\ ordering' = [ordering EXCEPT ![s] = Front!Normalised(patch)]
    BY <1>3 DEF Front!SetOnlineOrdering, Front!Manage, Front!rows
  <2> QED
    BY <2>1, NormalisedFits DEF FrontInv
<1>4. CASE UNCHANGED Front!storefrontVars
  BY <1>1, <1>4 DEF Front!storefrontVars, Front!catalogVars, Front!shopVars
<1>5. CASE \/ \E m \in Modules, on \in BOOLEAN : Front!SetModule(m, on)
           \/ \E s \in MenuStores :
                \/ Front!CreateListing(s) \/ Front!SubmitListing(s) \/ Front!ApproveListing(s)
                \/ Front!SuspendListing(s) \/ Front!DeleteStore(s) \/ Front!HourPasses(s)
                \/ Front!AddFavorite(s) \/ Front!RemoveFavorite(s)
                \/ \E supports \in SUBSET Fulfillments : Front!UpdateListing(s, supports)
           \/ \E p \in MenuItems, k \in FeedCategories \cup OldCategories \cup {None} :
                Front!PlaceInFeed(p, k)
  <2>1. UNCHANGED <<group, ordering>>
    BY <1>5 DEF Front!SetModule, Front!CreateListing, Front!SubmitListing,
       Front!ApproveListing, Front!SuspendListing, Front!DeleteStore, Front!HourPasses,
       Front!AddFavorite, Front!RemoveFavorite, Front!UpdateListing, Front!PlaceInFeed,
       Front!Relist, Front!Manage, Front!rows
  <2> QED
    BY <1>1, <2>1
<1> QED
  BY <1>2, <1>3, <1>4, <1>5 DEF Front!StorefrontNext

---------------------------------------------------------------------------
(* What is shown is what is taken, at the price shown.                     *)
LEMMA ShownAsVisible ==
  ASSUME NEW p
  PROVE  \A x \in Front!Shown(p) : Front!Visible(p, x) /\ Front!ShownPrice(p, x) = Front!Price(p, x)
BY DEF Front!Shown, Front!Visible, Front!ShownPrice, Front!Price

LEMMA MenuItemOrderable ==
  ASSUME Front!StorefrontParameters, NEW p, Front!OnMenu(p)
  PROVE  Front!Orderable(p)
BY OwnAncestor DEF Front!OnMenu, Front!Orderable

LEMMA LeastIsNumber ==
  ASSUME FrontInv, NEW p
  PROVE  Front!AtLeast(p) \in Nat /\ (group.max = None \/ group.max \in Nat)
BY DEF FrontInv, Front!OptionGroup, Front!AtLeast

(* Nothing picked is taken where nothing is shown and nothing asked for.   *)
LEMMA NothingIsTaken ==
  ASSUME FrontInv, NEW p, Front!Answerable(p), Front!Shown(p) = {}
  PROVE  Front!Accepts(p, {})
<1>1. Front!Cardinality({}) = 0
  BY FrontCounts, FS_EmptySet
<1>2. CASE product[p].link = "none" \/ group.gone
  BY <1>2 DEF Front!Accepts
<1>3. CASE product[p].link # "none" /\ ~group.gone
  <2>1. ~Front!Asks(p)
    BY DEF Front!Answerable
  <2>2. CASE group.type = "single"
    BY <1>1, <1>3, <2>1, <2>2 DEF Front!Asks, Front!Accepts
  <2>3. CASE group.type # "single"
    <3>1. Front!AtLeast(p) = 0
      BY <1>3, <2>1, <2>3, LeastIsNumber DEF Front!Asks
    <3>2. group.max # None => 0 <= group.max
      BY LeastIsNumber
    <3> QED
      BY <1>1, <1>3, <2>3, <3>1, <3>2 DEF Front!Accepts
  <2> QED
    BY <2>2, <2>3
<1> QED
  BY <1>2, <1>3

LEMMA NothingShown ==
  ASSUME NEW p, product[p].link = "none" \/ group.gone
  PROVE  Front!Shown(p) = {}
BY DEF Front!Shown

(* Whatever is picked of what is shown, in the number that is asked for.   *)
LEMMA NumberIsTaken ==
  ASSUME NEW p, NEW picked \in SUBSET Front!Shown(p), Front!Shown(p) # {},
         IF group.type = "single" THEN /\ Front!Required(p) => Front!Cardinality(picked) = 1
                                       /\ Front!Cardinality(picked) <= 1
         ELSE /\ Front!Cardinality(picked) >= Front!AtLeast(p)
              /\ group.max # None => Front!Cardinality(picked) <= group.max
  PROVE  Front!Accepts(p, picked)
<1>1. product[p].link # "none" /\ ~group.gone
  BY NothingShown
<1>2. \A x \in picked : Front!Visible(p, x) /\ Front!ShownPrice(p, x) = Front!Price(p, x)
  BY ShownAsVisible
<1> QED
  BY <1>1, <1>2 DEF Front!Accepts

LEMMA ConfirmedIsTaken ==
  ASSUME FrontInv, NEW p, Front!Answerable(p), NEW picked, Front!Confirms(p, picked)
  PROVE  Front!Accepts(p, picked)
<1>1. picked \in SUBSET Front!Shown(p)
  BY DEF Front!Confirms
<1>2. CASE Front!Shown(p) = {}
  <2>1. picked = {}
    BY <1>1, <1>2
  <2> QED
    BY <1>2, <2>1, NothingIsTaken
<1>3. CASE Front!Shown(p) # {}
  <2>1. IF group.type = "single" THEN Front!Cardinality(picked) = 1
        ELSE /\ Front!Cardinality(picked) >= Front!AtLeast(p)
             /\ group.max # None => Front!Cardinality(picked) <= group.max
    BY <1>3 DEF Front!Confirms
  <2> QED
    BY <1>1, <1>3, <2>1, NumberIsTaken
<1> QED
  BY <1>2, <1>3

LEMMA MenuFollows ==
  ASSUME Front!StorefrontParameters, FrontInv
  PROVE  Front!MenuCanBeOrdered
BY MenuItemOrderable, ConfirmedIsTaken DEF Front!MenuCanBeOrdered

(* A card is in one section, that of a category of the feed.               *)
LEMMA OneSection ==
  ASSUME Front!StorefrontParameters, NEW s, NEW p, NEW f, Front!Card(s, p, f)
  PROVE  Front!Cardinality(Front!Sections(s, p, f)) = 1
<1>1. Front!FeedCategory(p) \in FeedCategories
  BY DEF Front!FeedCategory, Front!StorefrontParameters
<1>2. Front!Sections(s, p, f) = {Front!FeedCategory(p)}
  BY <1>1 DEF Front!Sections
<1>3. Cardinality({Front!FeedCategory(p)}) = 1
  BY FS_Singleton
<1> QED
  BY <1>2, <1>3, FrontCounts

LEMMA AddedIsTaken ==
  ASSUME FrontInv, NEW p, Front!Answerable(p), NEW picked, Front!Adds(p, picked)
  PROVE  Front!Accepts(p, picked)
<1>1. CASE product[p].link = "none"
  BY <1>1 DEF Front!Adds, Front!Accepts
<1>2. CASE product[p].link # "none" /\ Front!Shown(p) = {}
  <2>1. picked = {}
    BY <1>2 DEF Front!Adds
  <2> QED
    BY <1>2, <2>1, NothingIsTaken
<1>3. CASE product[p].link # "none" /\ Front!Shown(p) # {}
  BY <1>3, ConfirmedIsTaken DEF Front!Adds
<1> QED
  BY <1>1, <1>2, <1>3

LEMMA CardsFollow ==
  ASSUME Front!StorefrontParameters, FrontInv
  PROVE  Front!CardCanBeOrdered
<1> SUFFICES ASSUME NEW s \in MenuStores, NEW f \in Fulfillments
             PROVE  /\ Front!Listed(s, f) => Front!Answering(s)
                    /\ \A p \in MenuItems : Front!Card(s, p, f) =>
                         /\ Front!Cardinality(Front!Sections(s, p, f)) = 1
                         /\ Front!Answerable(p) =>
                              \A picked \in SUBSET Options :
                                Front!Adds(p, picked) => Front!Takes(s, p, f, picked)
  BY DEF Front!CardCanBeOrdered
<1>1. Front!Listed(s, f) => Front!Answering(s)
  BY DEF Front!Listed, Front!Answering
<1>2. ASSUME NEW p \in MenuItems, Front!Card(s, p, f)
      PROVE  Front!Cardinality(Front!Sections(s, p, f)) = 1
  BY <1>2, OneSection
<1>3. ASSUME NEW p \in MenuItems, Front!Card(s, p, f), Front!Answerable(p),
             NEW picked \in SUBSET Options, Front!Adds(p, picked)
      PROVE  Front!Takes(s, p, f, picked)
  <2>1. Front!Accepts(p, picked)
    BY <1>3, AddedIsTaken
  <2> QED
    BY <1>3, <2>1 DEF Front!Takes, Front!Card, Front!Answering
<1> QED
  BY <1>1, <1>2, <1>3

---------------------------------------------------------------------------
(* The checkout of the shopping pages.                                     *)

(* A store that may be picked has a way to fetch the order and to pay.     *)
LEMMA PickedWorks ==
  ASSUME Front!StorefrontParameters, FrontInv, NEW s \in MenuStores, Front!OnPicker(s)
  PROVE  /\ Front!PickedWay(s) \in Front!Ordering(s).supports
         /\ Front!Ordering(s).pays \in SUBSET {"counter", "online"}
         /\ Front!Ordering(s).pays # {}
<1>1. ordering[s] # None /\ Front!Ordering(s) = ordering[s] /\ ordering[s].on
  BY DEF Front!OnPicker, Front!Ordering
<1>2. ordering[s] \in Front!OnlineOrdering
  BY <1>1 DEF FrontInv
<1>3. ordering[s].supports # {} /\ ordering[s].pays # {}
  BY <1>1 DEF FrontInv
<1>4. ordering[s].supports \subseteq {"pickup", "delivery", "dine_in"}
  BY <1>2 DEF Front!OnlineOrdering, Front!StorefrontParameters
<1>5. ordering[s].pays \subseteq {"counter", "online"}
  BY <1>2 DEF Front!OnlineOrdering, Front!Payments
<1>6. Front!PickedWay(s) \in ordering[s].supports
  BY <1>1, <1>3, <1>4 DEF Front!PickedWay
<1> QED
  BY <1>1, <1>3, <1>5, <1>6

LEMMA SentIsPaid ==
  ASSUME Front!StorefrontParameters, FrontInv, NEW s \in MenuStores, Front!OnPicker(s),
         NEW f, NEW button \in {"cash", "card"}, Front!Sends(s, f, button)
  PROVE  Front!SentMethod(s, button) \in Front!Ordering(s).pays
BY PickedWorks DEF Front!Sends, Front!SentMethod

(* The sheet counts the most, and the least where that is one.             *)
LEMMA SheetIsTaken ==
  ASSUME Front!StorefrontParameters, FrontInv, NEW p, Front!Answerable(p),
         NEW picked \in SUBSET Options, Front!SheetConfirms(p, picked),
         group.type = "multi" => Front!AtLeast(p) <= IF Front!Required(p) THEN 1 ELSE 0
  PROVE  Front!Accepts(p, picked)
<1>1. IsFiniteSet(picked)
  BY FS_Subset, FrontCounts DEF Front!StorefrontParameters
<1>2. Front!Cardinality(picked) \in Nat /\ (Front!Cardinality(picked) = 0 <=> picked = {})
  BY <1>1, FrontCounts, FS_CardinalityType, FS_EmptySet
<1>3. picked \in SUBSET Front!Shown(p)
  BY DEF Front!SheetConfirms
<1>4. group.type = "single" \/ group.type = "multi"
  BY DEF FrontInv, Front!OptionGroup
<1>5. CASE Front!Shown(p) = {}
  <2>1. picked = {}
    BY <1>3, <1>5
  <2> QED
    BY <1>5, <2>1, NothingIsTaken
<1>6. CASE Front!Shown(p) # {} /\ group.type = "single"
  <2>1. Front!Cardinality(picked) <= 1
    BY <1>6 DEF Front!SheetConfirms
  <2>2. Front!Required(p) => Front!Cardinality(picked) = 1
    BY <1>2, <1>6, <2>1 DEF Front!SheetConfirms
  <2> QED
    BY <1>3, <1>6, <2>1, <2>2, NumberIsTaken
<1>7. CASE Front!Shown(p) # {} /\ group.type = "multi"
  <2>1. group.max # None => Front!Cardinality(picked) <= group.max
    BY <1>7 DEF Front!SheetConfirms
  <2>2. Front!Required(p) => Front!Cardinality(picked) >= 1
    BY <1>2, <1>7 DEF Front!SheetConfirms
  <2>3. Front!AtLeast(p) \in Nat
    BY LeastIsNumber
  <2>4. Front!Cardinality(picked) >= Front!AtLeast(p)
    BY <1>2, <1>7, <2>2, <2>3
  <2> QED
    BY <1>3, <1>7, <2>1, <2>4, NumberIsTaken
<1> QED
  BY <1>4, <1>5, <1>6, <1>7

LEMMA ShoppingFollows ==
  ASSUME Front!StorefrontParameters, FrontInv
  PROVE  Front!ShoppingCanBeOrdered
<1> SUFFICES ASSUME NEW s \in MenuStores, Front!OnPicker(s)
             PROVE  /\ Front!ShoppingMenu(s) = Front!StoreMenu
                    /\ \E button \in {"cash", "card"} :
                         Front!Sends(s, Front!PickedWay(s), button)
                    /\ \A p \in Front!ShoppingMenu(s), button \in {"cash", "card"},
                          picked \in SUBSET Options :
                         /\ Front!Answerable(p)
                         /\ group.type = "multi" =>
                              Front!AtLeast(p) <= IF Front!Required(p) THEN 1 ELSE 0
                         /\ Front!Sends(s, Front!PickedWay(s), button)
                         /\ Front!SheetConfirms(p, picked)
                         => Front!TakesShopping(s, p, Front!PickedWay(s),
                                                Front!SentMethod(s, button), picked)
  BY DEF Front!ShoppingCanBeOrdered
<1>1. Front!AnswersShopping(s)
  BY DEF Front!OnPicker, Front!AnswersShopping
<1>2. Front!ShoppingMenu(s) = Front!StoreMenu
  BY <1>1 DEF Front!ShoppingMenu
<1>3. Front!Sends(s, Front!PickedWay(s), "card")
  BY PickedWorks DEF Front!Sends
<1>4. ASSUME NEW p \in Front!ShoppingMenu(s), NEW button \in {"cash", "card"},
             NEW picked \in SUBSET Options, Front!Answerable(p),
             group.type = "multi" => Front!AtLeast(p) <= IF Front!Required(p) THEN 1 ELSE 0,
             Front!Sends(s, Front!PickedWay(s), button), Front!SheetConfirms(p, picked)
      PROVE  Front!TakesShopping(s, p, Front!PickedWay(s), Front!SentMethod(s, button), picked)
  <2>1. Front!Orderable(p)
    BY <1>2, MenuItemOrderable DEF Front!StoreMenu
  <2>2. Front!Accepts(p, picked)
    BY <1>4, SheetIsTaken
  <2>3. Front!SentMethod(s, button) \in Front!Ordering(s).pays
    BY <1>4, SentIsPaid
  <2> QED
    BY <1>1, <2>1, <2>2, <2>3, PickedWorks DEF Front!TakesShopping
<1> QED
  BY <1>2, <1>3, <1>4

LEMMA ShownFollows ==
  ASSUME Front!StorefrontParameters, FrontInv
  PROVE  Front!ShownCanBeOrdered
BY MenuFollows, CardsFollow, ShoppingFollows DEF Front!ShownCanBeOrdered

(* Whatever categories, products, options, listings and settings are       *)
(* changed to, what a page shows can be ordered at the price shown; for    *)
(* any tree, any number of products and options (Storefront by itself).    *)
THEOREM StorefrontAlways ==
  ASSUME Front!StorefrontParameters
  PROVE  Front!StorefrontSpec => []Front!ShownCanBeOrdered
<1>1. Front!StorefrontInit => FrontInv
  BY FrontInit
<1>2. FrontInv /\ [Front!StorefrontNext]_(Front!storefrontVars) => FrontInv'
  BY FrontStep
<1>3. FrontInv => Front!ShownCanBeOrdered
  BY ShownFollows
<1> QED
  BY <1>1, <1>2, <1>3, PTL DEF Front!StorefrontSpec

(* A step of the back office, of the storefront, is one of Storefront.     *)
LEMMA FrontStepIsOwn ==
  ASSUME BackOfficeNext \/ UNCHANGED backOfficeVars, part = "storefront"
  PROVE  part' = part /\ (Front!StorefrontNext \/ UNCHANGED Front!storefrontVars)
<1>1. CASE BackOfficeNext
  BY <1>1 DEF BackOfficeNext
<1>2. CASE UNCHANGED backOfficeVars
  BY <1>2 DEF backOfficeVars
<1> QED
  BY <1>1, <1>2

(* In the back office: what menus, feeds and shopping pages show can be    *)
(* ordered, at the price shown.                                            *)
THEOREM ShownCanBeOrderedAlways == BackOfficeSpec => []ShownCanBeOrdered
<1> DEFINE Inv == part = "storefront" => FrontInv
<1>1. BackOfficeInit => Inv
  BY StorefrontParametersHold, FrontInit DEF BackOfficeInit
<1>2. Inv /\ [BackOfficeNext]_backOfficeVars => Inv'
  <2> SUFFICES ASSUME Inv, [BackOfficeNext]_backOfficeVars, part' = "storefront"
               PROVE  FrontInv'
    OBVIOUS
  <2>1. part = "storefront"
    BY DEF BackOfficeNext, backOfficeVars
  <2>2. [Front!StorefrontNext]_(Front!storefrontVars)
    BY <2>1, FrontStepIsOwn
  <2> QED
    BY <2>1, <2>2, StorefrontParametersHold, FrontStep
<1>3. Inv => ShownCanBeOrdered
  BY StorefrontParametersHold, ShownFollows DEF ShownCanBeOrdered
<1> QED
  BY <1>1, <1>2, <1>3, PTL DEF BackOfficeSpec
=============================================================================
