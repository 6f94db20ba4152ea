----------------------------- MODULE BookstoreShop -----------------------------
(***************************************************************************)
(* Around the self checkout: the settings of a bookstore and its door      *)
(* codes, which share one JSON column (services/bookstore.py,              *)
(* api/v1/bookstore.py, api/v1/bookstore_partner.py), what a basket comes  *)
(* to, and the invoice of a sale: issued when it is paid, issued or voided *)
(* by the staff (api/v1/invoices.py), voided when it is refunded.          *)
(*                                                                         *)
(* One checkout is followed; BookstoreCheckout has its races for stock and *)
(* payment, which are one step here.                                       *)
(***************************************************************************)
EXTENDS Integers, Sequences, FiniteSetsExt, SequencesExt

CONSTANTS
  Workers,
  Patches,      \* what a patch of the settings may hold
  FirstCode,    \* the door code from before its content was kept; 0 is none
  Carts,        \* baskets: sequences of [qty, price, list]
  Redeems,      \* the member_discount_cents asked for
  MaxRotations, \* bound on the door codes
  MaxRequests,  \* bound on the requests
  None

VARIABLES
  json,      \* store.bookstore_json
  newest,    \* the last door code there has been
  undone,    \* whether a write of the JSON undid another
  presence,  \* whether the customer has a presence token
  checkout,  \* the checkout and its order
  rows,      \* the statuses of the order's rows in invoices
  invoices,  \* what the gateway has issued: by whom, the items and the total
  excused,   \* whether a known gap may leave a refunded sale its invoice
  request,   \* request[w]: what worker w is at
  requests

shopVars ==
  <<json, newest, undone, presence, checkout, rows, invoices, excused, request, requests>>

door == <<json, newest, undone>>

sale == <<checkout, rows, invoices, excused>>

(* What the constants stand for: a patch is of the settings that the staff  *)
(* may change (BookstoreSettingsUpdate), a basket has a copy of each line  *)
(* at least, and a price is of whole cents.                                *)
ShopParameters ==
  /\ MaxRotations \in Nat /\ FirstCode \in 0..MaxRotations
  /\ \A patch \in Patches :
       /\ DOMAIN patch \subseteq {"is_open", "cash_enabled", "online", "cash_pct", "book_pct"}
       /\ "cash_pct" \in DOMAIN patch => patch.cash_pct \in 50..100
       /\ "book_pct" \in DOMAIN patch => patch.book_pct \in 10..100
  /\ Carts \subseteq Seq([qty : Nat \ {0}, price : Nat, list : Nat])
  /\ Redeems \subseteq Nat
  /\ None \notin Nat

---------------------------------------------------------------------------
Settings ==
  [is_open : BOOLEAN, cash_enabled : BOOLEAN, online : BOOLEAN,
   cash_pct : 50..100, book_pct : 10..100,
   qr : 0..MaxRotations, content : (0..MaxRotations) \cup {None}, app : BOOLEAN]

Line == [qty : Nat, price : Nat]

Checkout ==
  [status : {"none", "pending", "paid", "refunded"}, cash : BOOLEAN, lines : Seq(Line),
   subtotal : Nat, discount : Nat, total : Nat,
   invoice : {None, "skipped", "issued", "failed"}]

Invoiced == [qty : Nat, price : Int, amount : Int]

Idle == [at |-> "idle"]

ShopTypeOK ==
  /\ json \in Settings
  /\ newest \in 0..MaxRotations
  /\ undone \in BOOLEAN
  /\ presence \in BOOLEAN
  /\ checkout \in Checkout
  /\ rows \in Seq({"issued", "failed", "voided"})
  /\ \A invoice \in invoices :
       /\ invoice.by \in {"sale", "staff"}
       /\ invoice.items \in Seq(Invoiced) /\ invoice.total \in Nat
  /\ excused \in BOOLEAN
  /\ \A w \in Workers : request[w].at \in {"idle", "settings", "paying", "look", "issue", "void"}
  /\ requests \in 0..MaxRequests

Init ==
  /\ json = [is_open |-> TRUE, cash_enabled |-> TRUE, online |-> FALSE,
             cash_pct |-> 100, book_pct |-> 100,
             qr |-> FirstCode, content |-> None, app |-> FALSE]
  /\ newest = FirstCode
  /\ undone = FALSE
  /\ presence = FALSE
  /\ checkout = [status |-> "none", cash |-> FALSE, lines |-> <<>>,
                 subtotal |-> 0, discount |-> 0, total |-> 0, invoice |-> None]
  /\ rows = <<>>
  /\ invoices = {}
  /\ excused = FALSE
  /\ request = [w \in Workers |-> Idle]
  /\ requests = 0

---------------------------------------------------------------------------
Begin(w, r) ==
  /\ request[w] = Idle
  /\ requests < MaxRequests
  /\ requests' = requests + 1
  /\ request' = [request EXCEPT ![w] = r]

End(w) ==
  /\ request' = [request EXCEPT ![w] = Idle]
  /\ UNCHANGED requests

---------------------------------------------------------------------------
(* The settings.  Each request reads the JSON, and writes all of it.       *)

(* effective_cash_price_pct                                                *)
CashPct == IF json.book_pct < 100 THEN 100 ELSE json.cash_pct

(* app_unit_price; a list price of 0 is none.                              *)
AppUnitPrice(item) ==
  IF json.book_pct < 100 /\ item.list > 0 THEN (item.list * json.book_pct) \div 100
  ELSE item.price

Settle(w, to) ==
  /\ Begin(w, [at |-> "settings", read |-> json, to |-> to])
  /\ UNCHANGED <<door, presence, sale>>

(* update_settings                                                         *)
Patched(patch) ==
  [key \in DOMAIN json |-> IF key \in DOMAIN patch THEN patch[key] ELSE json[key]]

UpdateSettings(w) == \E patch \in Patches : Settle(w, Patched(patch))

(* rotate_door_qr: the code is signed after its version is counted.        *)
RotateDoorQr(w) ==
  /\ json.qr < MaxRotations
  /\ Settle(w, [json EXCEPT !.qr = @ + 1, !.content = json.qr + 1])

(* get_door_qr keeps the content of a code from before it was kept.        *)
GetDoorQr(w) ==
  /\ json.content = None
  /\ json.qr > 0
  /\ Settle(w, [json EXCEPT !.content = json.qr])

(* A write that changes nothing is none.                                   *)
Write(r) ==
  /\ json' = IF r.to = r.read THEN json ELSE r.to
  /\ newest' = Max({newest, json'.qr})
  /\ undone' = (undone \/ (r.to # r.read /\ json # r.read))

CommitSettings(w) ==
  /\ request[w].at = "settings"
  /\ Write(request[w])
  /\ End(w)
  /\ UNCHANGED <<presence, sale>>

---------------------------------------------------------------------------
(* The customer.                                                           *)

(* resolve_door_qr takes the poster of the current version only.  The      *)
(* token it gives outlives a rotation; a lapsed one is only refused.       *)
ResolveDoorQr ==
  /\ \E v \in 1..newest : v = json.qr
  /\ ~presence
  /\ presence' = TRUE
  /\ UNCHANGED <<door, sale, request, requests>>

Sum(amounts) == MapThenSumSet(LAMBDA i : amounts[i], DOMAIN amounts)

Amounts(lines) == [i \in DOMAIN lines |-> lines[i].qty * lines[i].price]

(* _redeem_cap                                                             *)
RedeemCap(subtotal) ==
  IF json.cash_enabled /\ ~json.online THEN (subtotal * CashPct) \div 100 ELSE subtotal

CreateCheckout ==
  /\ checkout.status = "none"
  /\ json.is_open
  /\ presence
  /\ \E cart \in Carts, redeem \in Redeems :
       LET lines == [i \in DOMAIN cart |-> [qty |-> cart[i].qty, price |-> AppUnitPrice(cart[i])]]
           subtotal == Sum(Amounts(lines))
           discount == Min({redeem, RedeemCap(subtotal)})
       IN
       /\ subtotal > 0
       /\ checkout' = [checkout EXCEPT !.status = "pending", !.lines = lines,
            !.subtotal = subtotal, !.discount = discount, !.total = subtotal - discount]
  /\ UNCHANGED <<door, presence, rows, invoices, excused, request, requests>>

SelectCash ==
  LET price == (checkout.subtotal * CashPct) \div 100
      total == price - Min({checkout.discount, price})
  IN
  /\ checkout.status = "pending"
  /\ ~checkout.cash
  /\ json.cash_enabled
  /\ checkout' = [checkout EXCEPT !.cash = TRUE, !.total = total,
                                  !.discount = checkout.subtotal - total]
  /\ UNCHANGED <<door, presence, rows, invoices, excused, request, requests>>

(* Mistaken: the settings that are read leave out the keys of the door.    *)
WithIdentityOnly == [json EXCEPT !.app = TRUE, !.qr = 0, !.content = None]

(* ensure_app_identity                                                     *)
WithIdentity == [json EXCEPT !.app = TRUE]

(* confirm_cash or a notification: mark_paid has claimed the checkout, and *)
(* ensure_app_identity reads the settings.                                 *)
Claim(w) ==
  /\ checkout.status = "pending"
  /\ checkout.cash \/ json.online
  /\ \A v \in Workers : request[v].at # "paying"
  /\ Begin(w, [at |-> "paying", read |-> json, to |-> WithIdentity])
  /\ UNCHANGED <<door, presence, sale>>

CommitPaid(w) ==
  /\ request[w].at = "paying"
  /\ Write(request[w])
  /\ checkout' = [checkout EXCEPT !.status = "paid"]
  /\ request' = [request EXCEPT ![w] = [at |-> "look", by |-> "sale"]]
  /\ UNCHANGED <<presence, rows, invoices, excused, requests>>

---------------------------------------------------------------------------
(* The items of the invoice.                                               *)

Shares(amounts, discount) ==
  [i \in DOMAIN amounts |-> (amounts[i] * discount) \div Sum(amounts)]

(* allocate_discount: what the shares leave goes to the largest remainders.*)
AllocateDiscount(amounts, discount) ==
  LET shares == Shares(amounts, discount)
      left == discount - Sum(shares)
      Rest(i) == (amounts[i] * discount) % Sum(amounts)
      Before(i, j) == \/ Rest(i) > Rest(j)
                      \/ Rest(i) = Rest(j) /\ amounts[i] > amounts[j]
                      \/ Rest(i) = Rest(j) /\ amounts[i] = amounts[j] /\ i < j
      Rank(i) == Quantify(DOMAIN amounts, LAMBDA j : Before(j, i))
  IN [i \in DOMAIN amounts |-> shares[i] + (IF Rank(i) < left THEN 1 ELSE 0)]

Item(qty, price) == [qty |-> qty, price |-> price, amount |-> qty * price]

(* invoice_lines: a line that does not divide is split into two items.     *)
InvoiceLines(lines, discount) ==
  LET shares == AllocateDiscount(Amounts(lines), discount)
      Items(i) ==
        LET qty == lines[i].qty
            amount == qty * lines[i].price - shares[i]
            unit == amount \div qty
        IN IF amount % qty = 0 THEN <<Item(qty, unit)>>
           ELSE <<Item(qty - 1, unit), Item(1, amount - unit * (qty - 1))>>
  IN FlattenSeq([i \in DOMAIN lines |-> Items(i)])

---------------------------------------------------------------------------
(* The invoice.  Its row is seen once its transaction commits; the gateway *)
(* is asked within it.                                                     *)

(* issue_invoice_for_checkout.  One that is issued already is issued again *)
(* if it was not for this checkout.                                        *)
IssueLook(w) ==
  /\ request[w] = [at |-> "look", by |-> "sale"]
  /\ \/ checkout' = [checkout EXCEPT !.invoice = "skipped"] /\ End(w)
     \/ Len(rows) > 1 /\ End(w) /\ UNCHANGED checkout   \* scalar_one_or_none raises
     \/ /\ Len(rows) <= 1
        /\ request' = [request EXCEPT ![w] =
             [at |-> "issue", by |-> "sale", seen |-> rows,
              items |-> InvoiceLines(checkout.lines, checkout.discount)]]
        /\ UNCHANGED <<checkout, requests>>
  /\ UNCHANGED <<door, presence, rows, invoices, excused>>

(* The lines of the order, which mark_paid copied before any discount.     *)
OrderItems ==
  [i \in DOMAIN checkout.lines |-> Item(checkout.lines[i].qty, checkout.lines[i].price)]

(* issue_invoice: of any order, whatever became of it.  The total that is  *)
(* sent with the items is the order's, after the discount.                 *)
StaffIssue(w) ==
  /\ checkout.status \in {"paid", "refunded"}
  /\ Len(rows) <= 1
  /\ rows # <<"issued">>
  /\ Begin(w, [at |-> "issue", by |-> "staff", seen |-> rows, items |-> OrderItems])
  /\ UNCHANGED <<door, presence, sale>>

RefundToLook == \E w \in Workers : request[w] = [at |-> "look", by |-> "refund"]

(* The gateway's answer; a status that did not change is not written.      *)
CommitIssue(w, answer) ==
  LET r == request[w] IN
  /\ r.at = "issue"
  /\ rows' = IF r.seen = <<>> THEN Append(rows, answer)
             ELSE IF r.seen[1] = answer THEN rows ELSE [rows EXCEPT ![1] = answer]
  /\ checkout' = IF r.by = "sale" THEN [checkout EXCEPT !.invoice = answer] ELSE checkout
  /\ invoices' = IF answer # "issued" THEN invoices
                 ELSE invoices \cup {[by |-> r.by, items |-> r.items, total |-> checkout.total]}
  /\ excused' = (excused \/ (answer = "issued" /\ checkout.status = "refunded" /\ ~RefundToLook))
  /\ End(w)
  /\ UNCHANGED <<door, presence>>

(* void_invoice                                                            *)
StaffVoid(w) ==
  /\ \E i \in DOMAIN rows :
       /\ rows[i] = "issued"
       /\ Begin(w, [at |-> "void", by |-> "staff", row |-> i])
  /\ UNCHANGED <<door, presence, sale>>

(* refund_checkout commits the refund, and then looks for the invoice.     *)
RefundCheckout(w) ==
  /\ checkout.status = "paid"
  /\ checkout' = [checkout EXCEPT !.status = "refunded"]
  /\ Begin(w, [at |-> "look", by |-> "refund"])
  /\ UNCHANGED <<door, presence, rows, invoices, excused>>

(* Mistaken: the checkout does not know of an invoice the staff issued.    *)
ToVoidOfCheckout == {i \in DOMAIN rows : i = 1 /\ checkout.invoice = "issued"}

(* The row that a refund voids; of two rows, it fails on finding both.     *)
ToVoid == {i \in DOMAIN rows : Len(rows) = 1 /\ rows[i] = "issued"}

RefundLook(w) ==
  /\ request[w] = [at |-> "look", by |-> "refund"]
  /\ IF ToVoid = {} THEN End(w)
     ELSE /\ request' = [request EXCEPT ![w] = [at |-> "void", by |-> "refund", row |-> 1]]
          /\ UNCHANGED requests
  /\ excused' = (excused \/ Len(rows) > 1)
  /\ UNCHANGED <<door, presence, checkout, rows, invoices>>

CommitVoid(w) ==
  LET r == request[w] IN
  /\ r.at = "void"
  /\ \/ rows' = [rows EXCEPT ![r.row] = "voided"] /\ UNCHANGED excused
     \/ excused' = (excused \/ r.by = "refund") /\ UNCHANGED rows    \* refused
  /\ End(w)
  /\ UNCHANGED <<door, presence, checkout, invoices>>

(* The worker is stopped, or the request fails.                            *)
Crash(w) ==
  /\ request[w] # Idle
  /\ excused' = (excused \/ (request[w].at \in {"look", "void"} /\ request[w].by = "refund"))
  /\ End(w)
  /\ UNCHANGED <<door, presence, checkout, rows, invoices>>

Handle(w) ==
  \/ UpdateSettings(w) \/ RotateDoorQr(w) \/ GetDoorQr(w) \/ CommitSettings(w)
  \/ Claim(w) \/ CommitPaid(w) \/ IssueLook(w) \/ StaffIssue(w) \/ StaffVoid(w)
  \/ \E answer \in {"issued", "failed"} : CommitIssue(w, answer)
  \/ RefundCheckout(w) \/ RefundLook(w) \/ CommitVoid(w) \/ Crash(w)

Next ==
  \/ \E w \in Workers : Handle(w)
  \/ ResolveDoorQr \/ CreateCheckout \/ SelectCash

Spec == Init /\ [][Next]_shopVars

---------------------------------------------------------------------------
(* The poster that the store shows is the one that works, and one that was *)
(* rotated away works again only where two writes of the settings          *)
(* overlapped: no request that writes all of the JSON, a first sale's      *)
(* included, drops or sets back the part that is the door's.               *)
DoorCodeKept ==
  /\ json.content # None => json.content = json.qr
  /\ json.qr < newest => undone

(* The items of the invoice that a sale issues, which are whole copies at  *)
(* whole prices, make up the total that is invoiced, whatever the          *)
(* redemption and the cash price took off the basket.  Those of an invoice *)
(* that the staff issue, which is what is left to them when a sale's was   *)
(* refused, come to more than its total: by the discount and no more.      *)
(* None is negative.                                                       *)
InvoiceItemsMakeTotal ==
  \A invoice \in invoices :
    LET items == invoice.items
        over == IF invoice.by = "staff" THEN checkout.discount ELSE 0
    IN
    /\ Sum([i \in DOMAIN items |-> items[i].amount]) = invoice.total + over
    /\ \A i \in DOMAIN items : items[i].amount >= 0

(* A sale that is refunded keeps an issued invoice for these causes only:  *)
(* it was issued after the refund had looked for it, there were two rows,  *)
(* the gateway refused the void, or the refund was cut short.              *)
InvoiceOutlivesSaleForCause ==
  (/\ checkout.status = "refunded"
   /\ \E i \in DOMAIN rows : rows[i] = "issued"
   /\ \A w \in Workers : request[w] = Idle \/ request[w].at \in {"settings", "issue"}) => excused

===============================================================================
