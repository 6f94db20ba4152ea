----------------------------- MODULE StoreStock -----------------------------
(***************************************************************************)
(* The stock of a tenant's stores as the back office moves it: adjustments *)
(* of a level, movements that tills record, transfers between stores,      *)
(* stocktakes, purchase orders and books taken on consignment              *)
(* (apps/api/app/api/v1/inventories.py and purchasing.py,                  *)
(* services/book_receive.py).                                              *)
(*                                                                         *)
(* A worker handles one request at a time: it reads the document the       *)
(* request is about, then the inventory levels of the store, then commits. *)
(* Nothing is locked, so the rows may have changed in between; a key that  *)
(* another request has inserted meanwhile makes the whole request fail.    *)
(***************************************************************************)
EXTENDS Integers, FiniteSets, Folds

CONSTANTS
  Stores,
  Products,
  Untracked,    \* the products whose stock is not kept
  Purchases,    \* purchase orders
  Transfers,
  Counts,       \* stocktakes
  Moves,        \* the ids tills give to their movements
  Workers,
  MaxQty,       \* bound on the quantity of a line
  Amounts,      \* the amounts a level is adjusted by or set to
  Lines,        \* the quantities that purchase orders are written with
  Drawn,        \* the transfers that are drawn up
  Counted,      \* what stocktakes say
  MaxRequests,  \* bound on the requests handled
  StoreOf(_),   \* StoreOf(o): the store that purchase order o is for
  MoveOf(_),    \* MoveOf(m): what movement m of a till is of
  None          \* no row

VARIABLES
  onHand,     \* onHand[s][p]: on_hand of the level of product p in store s
  purchase,   \* purchase[o]: the row of purchase order o and its lines
  transfer,   \* transfer[t]: the row of transfer t
  recorded,   \* the stocktakes and the tills' movements that have a row
  booked,     \* booked[x][p]: the sum of the movements that refer to x
  session,    \* session[w]: what worker w is at
  requests    \* the number of requests so far

vars == <<onHand, purchase, transfer, recorded, booked, session, requests>>

---------------------------------------------------------------------------
Qty == [Products -> 0..MaxQty]
Nothing == [p \in Products |-> 0]

SumOver(f(_), S) == MapThenFoldSet(+, 0, f, LAMBDA X : CHOOSE x \in X : TRUE, S)

Smaller(a, b) == IF a < b THEN a ELSE b

Purchase ==
  [status : {"draft", "ordered", "partial", "received", "cancelled"},
   ordered : Qty, got : Qty]

TransferRow ==
  {None} \cup [status : {"draft", "dispatched", "received", "cancelled"},
               from : Stores, to : Stores, qty : Qty, came : Qty]

Docs == Purchases \cup Transfers \cup Counts \cup Moves

(* What the constants stand for.  A movement's ref_type tells documents of *)
(* two kinds apart, so that no id is of both.                              *)
StockParameters ==
  /\ MaxQty \in Nat /\ Lines \subseteq Qty
  /\ \A m \in Moves : MoveOf(m) \in [store : Stores, product : Products, qty : Int]
  /\ Purchases \cap (Transfers \cup Counts \cup Moves) = {}
  /\ Moves \cap (Transfers \cup Counts) = {}
  /\ None \notin Purchase

Idle == [op |-> "none"]

TypeOK ==
  /\ onHand \in [Stores -> [Products -> Int \cup {None}]]
  /\ purchase \in [Purchases -> Purchase \cup {None}]
  /\ \A o \in Purchases : purchase[o] # None =>
       \A p \in Products : purchase[o].got[p] <= purchase[o].ordered[p]
  /\ transfer \in [Transfers -> TransferRow]
  /\ recorded \subseteq Counts \cup Moves
  /\ booked \in [Docs -> [Products -> Int]]
  /\ requests \in 0..MaxRequests

Placed == [status : {"ordered"}, ordered : Lines, got : {Nothing}]

(* No store has received anything yet; orders may have been placed.        *)
Init ==
  /\ onHand = [s \in Stores |-> [p \in Products |-> None]]
  /\ purchase \in [Purchases -> {None} \cup Placed]
  /\ transfer = [t \in Transfers |-> None]
  /\ recorded = {}
  /\ booked = [x \in Docs |-> Nothing]
  /\ session = [w \in Workers |-> Idle]
  /\ requests = 0

---------------------------------------------------------------------------
(* The first step of a request: it is checked against what it reads; one   *)
(* that is turned down leaves nothing behind and is no step.               *)

Begin(w, request) ==
  /\ session[w] = Idle
  /\ requests < MaxRequests
  /\ requests' = requests + 1
  /\ session' = [session EXCEPT ![w] = request]
  /\ UNCHANGED <<onHand, purchase, transfer, recorded, booked>>

(* adjust_inventory by a difference: the level is read at once.            *)
AdjustBy(w, s, p, n) ==
  /\ p \notin Untracked
  /\ n # 0
  /\ Begin(w, [op |-> "adjust", id |-> None, store |-> s,
               delta |-> [Nothing EXCEPT ![p] = n], level |-> onHand[s]])

(* adjust_inventory to a target: the difference is to the level it reads.  *)
(* If there is none, nothing is committed, not even a level that is        *)
(* missing.                                                                *)
Now(s, p) == IF onHand[s][p] = None THEN 0 ELSE onHand[s][p]

AdjustTo(w, s, p, n) ==
  /\ p \notin Untracked
  /\ n # Now(s, p)
  /\ Begin(w, [op |-> "set", id |-> p, store |-> s, level |-> onHand[s],
               delta |-> [Nothing EXCEPT ![p] = n - Now(s, p)], target |-> n])

(* update_level writes on_hand as it is told, without a movement.          *)
UpdateLevel(w, s, p, n) ==
  /\ onHand[s][p] # None
  /\ Begin(w, [op |-> "patch", id |-> p, store |-> s, delta |-> Nothing,
               level |-> [onHand[s] EXCEPT ![p] = n]])

Moved(m) == [Nothing EXCEPT ![MoveOf(m).product] = MoveOf(m).qty]

MovedBy(ms) == [p \in Products |-> SumOver(LAMBDA m : Moved(m)[p], ms)]

(* record_movement, for one, and record_movements, which does not ask      *)
(* whether a product's stock is kept.  What has a row is answered with it. *)
RecordMovements(w, s, ms) ==
  LET new == ms \ recorded IN
  /\ new # {} /\ \A m \in ms : MoveOf(m).store = s
  /\ Cardinality(ms) > 1 \/ \A m \in ms : MoveOf(m).product \notin Untracked
  /\ Begin(w, [op |-> "record", ids |-> new, store |-> s, level |-> None,
       each |-> [m \in new |-> Moved(m)],
       delta |-> MovedBy(new)])

CreateTransfer(w, t, row) ==
  Begin(w, [op |-> "newTransfer", id |-> t, level |-> None, row |-> row])

(* update_transfer: no status follows from another.                        *)
UpdateTransfer(w, t, status) ==
  /\ transfer[t] # None
  /\ LET row == transfer[t] IN
     Begin(w, [op |-> "transfer", id |-> t, read |-> row.status,
       status |-> status, level |-> None,
       store |-> IF status = "received" THEN row.to ELSE row.from,
       delta |-> CASE status = "dispatched" -> [p \in Products |-> -row.qty[p]]
                   [] status = "received" -> row.came
                   [] OTHER -> Nothing])

(* create_stocktake books what was counted less what the client expected.  *)
CreateStocktake(w, c, count) ==
  LET delta == [p \in Products |-> count.actual[p] - count.expected[p]]
  IN Begin(w, [op |-> "record", ids |-> {c}, store |-> count.store, level |-> None,
               each |-> [x \in {c} |-> delta], delta |-> delta])

CreatePurchase(w, o, qty) ==
  /\ purchase[o] = None
  /\ Begin(w, [op |-> "newPurchase", id |-> o, qty |-> qty, level |-> None])

(* patch_purchase_order *)
PatchPurchase(w, o, status) ==
  /\ purchase[o] # None
  /\ \/ status = "ordered" /\ purchase[o].status = "draft"
     \/ /\ status = "cancelled"
        /\ purchase[o].status \notin {"received", "cancelled"}
        /\ purchase[o].got = Nothing
  /\ Begin(w, [op |-> "patchPurchase", id |-> o, status |-> status, level |-> None])

(* Mutant: more may come than is missing.                                  *)
TakenAll(row, qty) == qty

(* What receive_purchase_order takes of each line: no more than is missing;*)
(* a line that is complete may not be named again.                         *)
Taken(row, qty) ==
  [p \in Products |-> Smaller(qty[p], row.ordered[p] - row.got[p])]

ReceivePurchase(w, o, qty) ==
  /\ purchase[o] # None
  /\ purchase[o].status \in {"ordered", "partial"}
  /\ \A p \in Products : qty[p] > 0 => purchase[o].got[p] < purchase[o].ordered[p]
  /\ LET take == Taken(purchase[o], qty) IN
     /\ take # Nothing
     /\ Begin(w, [op |-> "receive", id |-> o, store |-> StoreOf(o),
          row |-> purchase[o], take |-> take, level |-> None,
          delta |-> [p \in Products |-> IF p \in Untracked THEN 0 ELSE take[p]]])

(* receive_book_by_barcode, whose movement is of the book it looked up.    *)
ReceiveBook(w, s, p, n) ==
  /\ p \notin Untracked /\ n > 0
  /\ Begin(w, [op |-> "book", id |-> None, store |-> s,
               delta |-> [Nothing EXCEPT ![p] = n], level |-> None])

---------------------------------------------------------------------------
(* _apply_movement reads the level before it adds to it; a row that is in  *)
(* the session already is not read again.                                  *)
Movers == {"adjust", "set", "patch", "record", "transfer", "receive", "book"}

ReadLevel(w) ==
  /\ session[w].op \in Movers
  /\ session[w].level = None
  /\ session' = [session EXCEPT ![w].level = onHand[session[w].store]]
  /\ UNCHANGED <<onHand, purchase, transfer, recorded, booked, requests>>

Applied(before, delta, now) ==
  IF before = None THEN IF delta = 0 THEN now ELSE delta
  ELSE IF delta = 0 THEN now ELSE before + delta

Clashes(r) ==
  \E p \in Products :
    r.level[p] = None /\ onHand[r.store][p] # None /\ r.delta[p] # 0

LevelsMoved(r) ==
  onHand' = [onHand EXCEPT ![r.store] =
    [p \in Products |-> Applied(r.level[p], r.delta[p], @[p])]]

Booked(x, delta) ==
  booked' = [booked EXCEPT ![x] = [p \in Products |-> @[p] + delta[p]]]

Done(w) == session' = [session EXCEPT ![w] = Idle] /\ UNCHANGED requests

CommitAdjust(w) ==
  LET r == session[w] IN
  /\ r.op \in {"adjust", "set", "book"} /\ r.level # None /\ ~Clashes(r)
  /\ LevelsMoved(r)
  /\ Done(w) /\ UNCHANGED <<purchase, transfer, recorded, booked>>

CommitPatch(w) ==
  LET r == session[w] IN
  /\ r.op = "patch"
  /\ onHand' = [onHand EXCEPT ![r.store][r.id] = r.level[r.id]]
  /\ Done(w) /\ UNCHANGED <<purchase, transfer, recorded, booked>>

(* Mutant: nothing keeps a movement from being written twice.              *)
CommitRecordUnkeyed(w) ==
  LET r == session[w] IN
  /\ r.op = "record" /\ r.level # None /\ ~Clashes(r)
  /\ recorded' = recorded \cup r.ids
  /\ LevelsMoved(r)
  /\ booked' = [x \in Docs |->
       IF x \in r.ids THEN [p \in Products |-> booked[x][p] + r.each[x][p]]
       ELSE booked[x]]
  /\ Done(w) /\ UNCHANGED <<purchase, transfer>>

(* Movements of a till, or a stocktake: their ids are keys.                *)
CommitRecord(w) ==
  LET r == session[w] IN
  /\ r.op = "record" /\ r.level # None /\ ~Clashes(r)
  /\ r.ids \cap recorded = {}
  /\ recorded' = recorded \cup r.ids
  /\ LevelsMoved(r)
  /\ booked' = [x \in Docs |->
       IF x \in r.ids THEN [p \in Products |-> booked[x][p] + r.each[x][p]]
       ELSE booked[x]]
  /\ Done(w) /\ UNCHANGED <<purchase, transfer>>

CommitTransfer(w) ==
  LET r == session[w] IN
  /\ r.op = "transfer" /\ r.level # None /\ ~Clashes(r)
  /\ transfer' = [transfer EXCEPT ![r.id].status =
       IF r.status = r.read THEN @ ELSE r.status]
  /\ LevelsMoved(r) /\ Booked(r.id, r.delta)
  /\ Done(w) /\ UNCHANGED <<purchase, recorded>>

CommitNewTransfer(w) ==
  LET r == session[w] IN
  /\ r.op = "newTransfer" /\ transfer[r.id] = None
  /\ transfer' = [transfer EXCEPT ![r.id] = r.row]
  /\ Done(w) /\ UNCHANGED <<onHand, purchase, recorded, booked>>

CommitNewPurchase(w) ==
  LET r == session[w] IN
  /\ r.op = "newPurchase" /\ purchase[r.id] = None
  /\ purchase' = [purchase EXCEPT ![r.id] =
       [status |-> "draft", ordered |-> r.qty, got |-> Nothing]]
  /\ Done(w) /\ UNCHANGED <<onHand, transfer, recorded, booked>>

CommitPatchPurchase(w) ==
  LET r == session[w] IN
  /\ r.op = "patchPurchase"
  /\ purchase' = [purchase EXCEPT ![r.id].status = r.status]
  /\ Done(w) /\ UNCHANGED <<onHand, transfer, recorded, booked>>

(* _recompute_po_status on the lines as the session has them.              *)
Recomputed(row, got) ==
  IF \A p \in Products : got[p] >= row.ordered[p] THEN "received"
  ELSE IF got # Nothing THEN "partial" ELSE row.status

(* Mutant: a line of which something came is taken for complete.           *)
CommitReceiveWhole(w) ==
  LET r == session[w] IN
  /\ r.op = "receive" /\ r.level # None /\ ~Clashes(r)
  /\ purchase' = [purchase EXCEPT ![r.id].status = "received",
       ![r.id].got = [p \in Products |->
         IF r.take[p] = 0 THEN @[p] ELSE r.row.ordered[p]]]
  /\ LevelsMoved(r) /\ Booked(r.id, r.delta)
  /\ Done(w) /\ UNCHANGED <<transfer, recorded>>

(* Columns that are as they were read are not written.                     *)
CommitReceive(w) ==
  LET r == session[w]
      got == [p \in Products |-> r.row.got[p] + r.take[p]]
      status == Recomputed(r.row, got)
  IN
  /\ r.op = "receive" /\ r.level # None /\ ~Clashes(r)
  /\ purchase' = [purchase EXCEPT
       ![r.id].status = IF status = r.row.status THEN @ ELSE status,
       ![r.id].got = [p \in Products |-> IF r.take[p] = 0 THEN @[p] ELSE got[p]]]
  /\ LevelsMoved(r) /\ Booked(r.id, r.delta)
  /\ Done(w) /\ UNCHANGED <<transfer, recorded>>

(* A key exists already, or the server goes down: the rollback.            *)
Abort(w) ==
  /\ session[w] # Idle
  /\ Done(w) /\ UNCHANGED <<onHand, purchase, transfer, recorded, booked>>

---------------------------------------------------------------------------
Ask(w) ==
  \/ \E s \in Stores, p \in Products :
       \/ \E n \in Amounts : AdjustBy(w, s, p, n)
       \/ \E n \in Amounts \cap Nat : AdjustTo(w, s, p, n)
       \/ \E n \in Amounts : UpdateLevel(w, s, p, n)
       \/ \E n \in Amounts : ReceiveBook(w, s, p, n)
  \/ \E s \in Stores, ms \in SUBSET Moves : RecordMovements(w, s, ms)
  \/ \E t \in Transfers, status \in {"draft", "dispatched", "received", "cancelled"} :
       \/ \E row \in Drawn : CreateTransfer(w, t, row)
       \/ UpdateTransfer(w, t, status)
  \/ \E c \in Counts, count \in Counted : CreateStocktake(w, c, count)
  \/ \E o \in Purchases :
       \/ \E qty \in Lines : CreatePurchase(w, o, qty) \/ ReceivePurchase(w, o, qty)
       \/ \E status \in {"ordered", "cancelled"} : PatchPurchase(w, o, status)

Commit(w) ==
  \/ CommitAdjust(w) \/ CommitPatch(w) \/ CommitRecord(w)
  \/ CommitTransfer(w) \/ CommitNewTransfer(w)
  \/ CommitNewPurchase(w) \/ CommitPatchPurchase(w) \/ CommitReceive(w)

Next == \E w \in Workers : Ask(w) \/ ReadLevel(w) \/ Commit(w) \/ Abort(w)

Spec == Init /\ [][Next]_vars

---------------------------------------------------------------------------
(* Whatever a purchase order counts as received of a product whose stock   *)
(* is kept has a movement: two receipts that overlap may book more goods   *)
(* than the order says, never fewer (receive_purchase_order).              *)
ReceivedWasBooked ==
  \A o \in Purchases, p \in Products \ Untracked :
    purchase[o] # None => purchase[o].got[p] <= booked[o][p]

(* A till that sends a movement again, alone or in a batch, moves its      *)
(* goods once (record_movement, record_movements).                         *)
MovementBookedOnce ==
  \A m \in Moves : booked[m] = IF m \in recorded THEN Moved(m) ELSE Nothing

(* What the documents of the store say has come and gone is in its ledger. *)
StockIsBooked == ReceivedWasBooked /\ MovementBookedOnce

=============================================================================
