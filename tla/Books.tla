-------------------------------- MODULE Books --------------------------------
(***************************************************************************)
(* Books on consignment: api/v1/books.py with services/book_catalog.py,    *)
(* book_receive.py, book_import.py and book_lookup.py, the shares that     *)
(* upload_order books for a book that is sold, and the settlement that     *)
(* services/consignment_settlement.py makes of sales and refunds.          *)
(*                                                                         *)
(* A receive or an import works in one session: it sees what is committed  *)
(* and what it wrote itself, and commits at its end.  Other requests are   *)
(* one step: PosSync and OrderReview have the interleavings of sales,      *)
(* refunds and voids.                                                      *)
(***************************************************************************)
EXTENDS Integers, Sequences, FiniteSetsExt, TLC

CONSTANTS
  Prods,        \* TAAZE's prodIds, the sku of a book
  Codes,        \* what is scanned; a prodId is a code
  Kind,         \* Kind[c]: what a code is
  Title,        \* Title[c]: the isbn of a product or of a copy, or None
  Canonical,    \* Canonical[i]: the prodId that TAAZE gives for isbn i
  Listed,       \* Listed[p]: TAAZE's price of product p
  Files,        \* the files that are imported, sequences of codes
  Orders, Workers,
  Totals,       \* line_total_cents
  Parts,        \* the amounts of refunds
  Pcts,         \* book_share_pct
  MaxRequests,  \* bound on the requests
  None

VARIABLES
  book,      \* book[p]: the product with sku p and its detail
  codeOf,    \* codeOf[c]: the product of the barcode row c
  level,     \* level[p]: on_hand of the store
  moves,     \* the rows of reason consignment_receive
  roots,     \* the categories named after CONSIGNMENT_CATEGORY_NAME
  settings,  \* consignment_books of the tenant's settings
  order,     \* order[o]: an order of one line, a book
  refunds,   \* refunds[o]: the refunds of order o
  request,   \* request[w]: what worker w is at
  told,      \* what answers have said to be received
  requests

bookVars == <<book, codeOf, level, moves, roots, settings, order, refunds,
              request, told, requests>>

shelf == <<book, codeOf, level, moves, roots>>

sales == <<order, refunds>>

---------------------------------------------------------------------------
Book == [deleted : BOOLEAN, price : Nat]

Order == [of : Prods, total : Nat, share : Nat, refunded : Nat,
          status : {"paid", "partiallyRefunded", "refunded", "voided"}]

Refund == [amount : Nat, status : {"pending", "approved", "rejected"}]

Idle == [op |-> "none"]

(* Amounts are cents, and a share is 0-100 percent.                        *)
BooksParameters ==
  /\ IsFiniteSet(Orders)
  /\ Totals \subseteq Nat /\ Parts \subseteq Nat
  /\ Pcts \subseteq 0..100 /\ Pcts # {}
  /\ MaxRequests \in Nat
  /\ None \notin Order

BooksTypeOK ==
  /\ book \in [Prods -> Book \cup {None}]
  /\ codeOf \in [Codes -> Prods \cup {None}]
  /\ level \in [Prods -> Int \cup {None}]
  /\ moves \in Nat
  /\ roots \in Nat
  /\ settings \in [pct : Pcts, open : BOOLEAN]
  /\ order \in [Orders -> Order \cup {None}]
  /\ \A o \in Orders : \A i \in DOMAIN refunds[o] : refunds[o][i] \in Refund
  /\ told \in Nat
  /\ requests \in 0..MaxRequests

Init ==
  /\ book = [p \in Prods |-> None]
  /\ codeOf = [c \in Codes |-> None]
  /\ level = [p \in Prods |-> None]
  /\ moves = 0
  /\ roots = 0
  /\ settings = [pct |-> Max(Pcts), open |-> TRUE]
  /\ order = [o \in Orders |-> None]
  /\ refunds = [o \in Orders |-> <<>>]
  /\ request = [w \in Workers |-> Idle]
  /\ told = 0
  /\ requests = 0

---------------------------------------------------------------------------
Counted ==
  /\ requests < MaxRequests
  /\ requests' = requests + 1

(* A session with nothing written: no books, barcodes or levels, and which *)
(* of the books and levels are new.                                        *)
Untouched ==
  [op |-> "none", codes |-> <<>>, book |-> <<>>, codeOf |-> <<>>, level |-> <<>>,
   newBooks |-> {}, newLevels |-> {}, moves |-> 0, roots |-> 0,
   received |-> 0, dead |-> FALSE]

(* A request and the codes it is to receive.                               *)
Begin(w, op, codes) ==
  /\ request[w] = Idle
  /\ Counted
  /\ request' = [request EXCEPT ![w] =
       [Untouched EXCEPT !.op = op, !.codes = codes]]
  /\ UNCHANGED <<shelf, settings, sales, told>>

Becomes(w, r) ==
  /\ request' = [request EXCEPT ![w] = r]
  /\ UNCHANGED <<shelf, settings, sales, told, requests>>

(* receive_book: of a store that consignment is open to.                   *)
ReceiveBook(w) ==
  /\ settings.open
  /\ \E c \in Codes : Begin(w, "receive", <<c>>)

(* import_books_csv: any store of the tenant.                              *)
ImportBooks(w) == \E f \in Files : Begin(w, "import", f)

---------------------------------------------------------------------------
(* fetch_taaze_product_by_isbn and _by_logcode: an isbn, and the serial of *)
(* a copy that TAAZE does not index, is its title's canonical product.     *)
Resolved(c) == IF Kind[c] \in {"isbn", "logcode"} THEN Canonical[Title[c]] ELSE c

(* lookup_barcode: a code of another source is a product of its own.       *)
Lookup ==
  [c \in Codes |-> [prod |-> Resolved(c), isbn |-> Title[Resolved(c)],
                    price |-> Listed[Resolved(c)]]]

(* One code, in the session of request r.                                  *)

(* What the session sees.                                                  *)
BookFor(r) == r.book @@ book
CodesFor(r) == r.codeOf @@ codeOf
LevelFor(r) == r.level @@ level

Lives(r, p) == p # None /\ BookFor(r)[p] # None /\ ~BookFor(r)[p].deleted

(* find_book_by_barcode, and find_book_by_isbn                             *)
ByBarcode(r, c) ==
  LET owner == CodesFor(r)[c] IN
  IF c \in Prods /\ Lives(r, c) THEN c ELSE IF Lives(r, owner) THEN owner ELSE None

SameTitle(r, c) ==
  {p \in Prods : Lives(r, p) /\ Lookup[c].isbn # None /\ Lookup[p].isbn = Lookup[c].isbn}

Existing(r, c) ==
  IF ByBarcode(r, c) # None THEN ByBarcode(r, c) ELSE ByBarcode(r, Lookup[c].prod)

Attached(r, p, codes) ==
  [r EXCEPT !.codeOf = [c \in {d \in codes : CodesFor(r)[d] = None} |-> p] @@ @]

Priced(r, p, cents) ==
  [r EXCEPT !.book = (p :> [deleted |-> FALSE, price |-> cents]) @@ @]

(* The movement, and the level as the session sees it.                     *)
Stocked(r, p) ==
  LET new == LevelFor(r)[p] = None IN
  [r EXCEPT
    !.level = (p :> IF new THEN 1 ELSE LevelFor(r)[p] + 1) @@ @,
    !.newLevels = IF new THEN @ \cup {p} ELSE @,
    !.moves = @ + 1,
    !.received = @ + 1,
    !.codes = Tail(@)]

Skipped(r) == [r EXCEPT !.codes = Tail(@)]

(* Mistaken: a session that failed is rolled back and used again.          *)
FailedAndGoesOn(r) ==
  [Untouched EXCEPT !.op = r.op, !.codes = Tail(r.codes), !.received = r.received]

(* A flush that fails leaves a session that refuses everything after it.   *)
Failed(r) == [Skipped(r) EXCEPT !.dead = TRUE]

(* ensure_consignment_category: the root of the tenant's books is made if   *)
(* there is none.                                                          *)
Rooted(r) == [r EXCEPT !.roots = IF roots + @ = 0 THEN 1 ELSE @]

(* upsert_book_from_barcode and the movement.                              *)
Received(r, c) ==
  LET p == Existing(r, c)
      sku == Lookup[c].prod
      new == [Rooted(r) EXCEPT !.newBooks = @ \cup {sku}]
  IN
  IF p # None THEN {Stocked(Attached(Priced(r, p, Lookup[c].price), p, {c}), p)}
  ELSE IF SameTitle(r, c) # {}
       THEN {Stocked(Attached(r, q, {c}), q) : q \in SameTitle(r, c)}
  ELSE IF roots > 1 THEN {Skipped(r)}            \* scalar_one_or_none raises
  ELSE IF BookFor(r)[sku] # None THEN {Failed(r)}  \* a deleted book has the sku
  ELSE {Stocked(Attached(Priced(new, sku, Lookup[c].price), sku, {sku, c}), sku)}

(* The next code; TAAZE may not know it, or not answer.  A receive that    *)
(* fails is Abort.                                                         *)
ReceiveCode(w) ==
  LET r == request[w]
      c == r.codes[1]
  IN
  /\ r # Idle
  /\ r.codes # <<>>
  /\ \/ r.op = "import" /\ Becomes(w, Skipped(r))
     \/ ~r.dead /\ \E s \in Received(r, c) :
          (r.op = "receive" => s.received = 1) /\ Becomes(w, s)

(* What was inserted must meet no other row of its key by now.             *)
Unique(r) ==
  /\ \A p \in r.newBooks : book[p] = None
  /\ \A p \in r.newLevels : level[p] = None
  /\ \A c \in DOMAIN r.codeOf : codeOf[c] = None

(* A level is written as it was read; of a book that was there, the price. *)
Commit(w) ==
  LET r == request[w] IN
  /\ r # Idle
  /\ r.codes = <<>>
  /\ ~r.dead
  /\ Unique(r)
  /\ book' = [p \in Prods |->
       IF p \notin DOMAIN r.book THEN book[p]
       ELSE IF p \in r.newBooks THEN r.book[p]
       ELSE [book[p] EXCEPT !.price = r.book[p].price]]
  /\ codeOf' = CodesFor(r)
  /\ level' = LevelFor(r)
  /\ moves' = moves + r.moves
  /\ roots' = roots + r.roots
  /\ told' = told + r.received
  /\ request' = [request EXCEPT ![w] = Idle]
  /\ UNCHANGED <<settings, sales, requests>>

(* A request fails; its answer says so.                                    *)
Abort(w) ==
  /\ request[w] # Idle
  /\ Becomes(w, Idle)

---------------------------------------------------------------------------
(* The other requests.                                                     *)

UpdateSettings ==
  /\ Counted
  /\ \E pct \in Pcts, open \in BOOLEAN : settings' = [pct |-> pct, open |-> open]
  /\ UNCHANGED <<shelf, sales, request, told>>

(* delete_product keeps the row.                                           *)
DeleteProduct ==
  /\ Counted
  /\ \E p \in Prods :
       /\ book[p] # None
       /\ ~book[p].deleted
       /\ book' = [book EXCEPT ![p].deleted = TRUE]
  /\ UNCHANGED <<codeOf, level, moves, roots, settings, sales, request, told>>

(* round: halves go to the even number.                                    *)
Rounded(a, b) ==
  LET q == a \div b
      rest == 2 * (a % b)
  IN IF rest < b \/ (rest = b /\ q % 2 = 0) THEN q ELSE q + 1

(* upload_order of a book, whether it is deleted by now or not.            *)
UploadOrder ==
  /\ Counted
  /\ \E o \in Orders, p \in Prods, t \in Totals :
       /\ order[o] = None
       /\ book[p] # None
       /\ order' = [order EXCEPT ![o] =
            [of |-> p, total |-> t, share |-> Rounded(t * settings.pct, 100),
             refunded |-> 0, status |-> "paid"]]
       /\ level' = [level EXCEPT ![p] = @ - 1]
  /\ UNCHANGED <<book, codeOf, moves, roots, settings, refunds, request, told>>

(* apply_refund_effects                                                    *)
Applied(row, amount) ==
  [row EXCEPT !.refunded = @ + amount,
              !.status = IF row.refunded + amount >= row.total
                         THEN "refunded" ELSE "partiallyRefunded"]

Refundable(o) == order[o] # None /\ order[o].status \in {"paid", "partiallyRefunded"}

(* refund_order: applied by a manager, else filed.                         *)
RefundOrder ==
  /\ Counted
  /\ \E o \in Orders, amount \in Parts :
       /\ Refundable(o)
       /\ \/ /\ refunds' = [refunds EXCEPT ![o] = Append(@, [amount |-> amount, status |-> "approved"])]
             /\ order' = [order EXCEPT ![o] = Applied(@, amount)]
             /\ level' = [level EXCEPT ![order[o].of] = @ + 1]
          \/ /\ refunds' = [refunds EXCEPT ![o] = Append(@, [amount |-> amount, status |-> "pending"])]
             /\ UNCHANGED <<order, level>>
  /\ UNCHANGED <<book, codeOf, moves, roots, settings, request, told>>

(* approve_refund, reject_refund                                           *)
ReviewRefund ==
  /\ Counted
  /\ \E o \in Orders : \E i \in DOMAIN refunds[o] :
       /\ refunds[o][i].status = "pending"
       /\ \/ /\ refunds' = [refunds EXCEPT ![o][i].status = "approved"]
             /\ order' = [order EXCEPT ![o] = Applied(@, refunds[o][i].amount)]
             /\ level' = [level EXCEPT ![order[o].of] = @ + 1]
          \/ /\ refunds' = [refunds EXCEPT ![o][i].status = "rejected"]
             /\ UNCHANGED <<order, level>>
  /\ UNCHANGED <<book, codeOf, moves, roots, settings, request, told>>

(* request_void of a store admin                                           *)
VoidOrder ==
  /\ Counted
  /\ \E o \in Orders :
       /\ order[o] # None
       /\ order[o].status = "paid"
       /\ order' = [order EXCEPT ![o].status = "voided"]
       /\ level' = [level EXCEPT ![order[o].of] = @ + 1]
  /\ UNCHANGED <<book, codeOf, moves, roots, settings, refunds, request, told>>

Handle(w) ==
  \/ ReceiveBook(w) \/ ImportBooks(w) \/ ReceiveCode(w) \/ Commit(w) \/ Abort(w)

Next ==
  \/ \E w \in Workers : Handle(w)
  \/ UpdateSettings \/ DeleteProduct
  \/ UploadOrder \/ RefundOrder \/ ReviewRefund \/ VoidOrder

Spec == Init /\ [][Next]_bookVars

---------------------------------------------------------------------------
(* The settlement: sales of orders in SALE_STATUSES, less every refund.    *)

(* The parts of a refund as they are rounded; to leave them so would be a  *)
(* mistake.                                                                *)
RefundShareDrifting(row, amount) ==
  [book |-> Rounded(row.share * amount, row.total),
   restaurant |-> Rounded((row.total - row.share) * amount, row.total)]

(* refund_share_cents: the drift of the rounding is the restaurant's.      *)
RefundShare(row, amount) ==
  LET parts == RefundShareDrifting(row, amount)
      drift == amount - (parts.book + parts.restaurant)
  IN IF row.total = 0 THEN [book |-> 0, restaurant |-> amount]
     ELSE [parts EXCEPT !.restaurant = @ + drift]

Sold == {o \in Orders : order[o] # None /\ order[o].status \in {"paid", "partiallyRefunded"}}

Returned == {x \in Orders \X (1..MaxRequests) : x[2] \in DOMAIN refunds[x[1]]}

Share(x) == RefundShare(order[x[1]], refunds[x[1]][x[2]].amount)

Sum(amounts) == MapThenSumSet(LAMBDA x : amounts[x], DOMAIN amounts)

Settlement ==
  [revenue |-> Sum([o \in Sold |-> order[o].total])
               - Sum([x \in Returned |-> refunds[x[1]][x[2]].amount]),
   book |-> Sum([o \in Sold |-> order[o].share]) - Sum([x \in Returned |-> Share(x).book]),
   restaurant |-> Sum([o \in Sold |-> order[o].total - order[o].share])
                  - Sum([x \in Returned |-> Share(x).restaurant])]

---------------------------------------------------------------------------
(* What receives and imports have answered to be received is booked: a     *)
(* file whose row failed half way is not booked in part and reported whole.*)
AnsweredIsBooked == told = moves

(* Where the settlement can follow the orders (every refund is approved,   *)
(* and no order with one has left SALE_STATUSES), it comes to what they    *)
(* are worth after their refunds, and the shares of book and restaurant    *)
(* make up that amount, whatever became of the percentage since.           *)
SettlementIsNetSales ==
  (\A x \in Returned : x[1] \in Sold /\ refunds[x[1]][x[2]].status = "approved") =>
    /\ Settlement.revenue = Sum([o \in Sold |-> order[o].total - order[o].refunded])
    /\ Settlement.book + Settlement.restaurant = Settlement.revenue

===============================================================================
