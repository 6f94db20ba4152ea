----------------------------- MODULE GuestOrders -----------------------------
(***************************************************************************)
(* Orders that customers place themselves, at a table or on the market     *)
(* place, from submission to the counter: staff's handling of them         *)
(* (apps/api/app/api/v1/guest_orders.py, orders.py), online payment and    *)
(* the points it settles (marketplace_payments.py,                         *)
(* services/marketplace_order.py), the QR sessions of a table              *)
(* (table_sessions.py, public_orders.py) and reviews                       *)
(* (public_marketplace.py).                                                *)
(*                                                                         *)
(* A worker reads the rows a request is about, then commits the columns it *)
(* changes.  Nothing is locked but the order that a notification claims.   *)
(* One customer, one table and one listing stand for all.                  *)
(***************************************************************************)
EXTENDS Integers, FiniteSets, FiniteSetsExt

CONSTANTS
  GuestOrderIds,
  Orders,         \* orders of the counter, which the till uploads
  Sessions,       \* QR sessions of the table
  Workers,
  StaticCode,     \* whether the code printed on the table is accepted
  Kinds,          \* how an order may be placed and paid
  Price,          \* what the items of an order cost
  MaxRedeem,      \* the most points an order of that price may redeem
  Earned,         \* the points that a paid order earns
  StartPoints,    \* the customer's points at first
  Ratings,        \* the marks of a review
  OnFile,         \* the rows of orders that may be on file at first
  MaxRequests,    \* bound on the requests, notifications apart
  None            \* no row, or NULL

ASSUME GuestTypes ==
  /\ Kinds \subseteq [channel : {"table_qr", "marketplace", "shopping"},
                      online : BOOLEAN, delivery : BOOLEAN]
  /\ Price \in Nat \ {0} /\ MaxRedeem \in 0..(Price - 1)
  /\ Earned \in Nat /\ StartPoints \in Nat /\ MaxRequests \in Nat
  /\ Ratings \subseteq 1..5 /\ StaticCode \in BOOLEAN

VARIABLES
  guest,      \* guest[g]: the row of guest order g
  order,      \* order[o]: None, or the guest order o says it comes from
  qr,         \* qr[s]: status of the row of QR session s
  captured,   \* the guest orders whose money the gateway has taken
  points,     \* points of the customer
  posted,     \* posted[g]: how often g's points were settled, in whole or part
  reviews,    \* the rows of the listing's reviews
  rating,     \* rating_count and the sum behind rating_avg of the listing
  session,    \* session[w]: what worker w is at
  requests

vars == <<guest, order, qr, captured, points, posted, reviews, rating,
          session, requests>>

---------------------------------------------------------------------------
(* Of DELIVERY_FLOW only the end is told from what comes before it.        *)
DeliveryFlow == {"pending", "delivered"}

GuestOrder ==
  [kind : Kinds, status : {"submitted", "accepted", "ready", "merged", "cancelled"},
   delivery : {"none"} \cup DeliveryFlow, paid : BOOLEAN,
   ref : {"none", "trade", "provider"}, redeemed : 0..MaxRedeem,
   settled : BOOLEAN, merged : Orders \cup {None}]

ASSUME OnFileType == OnFile \subseteq GuestOrder

ASSUME NoneIsNoRow == None \notin GuestOrder

Idle == [op |-> "none"]

(* build_marketplace_order, with the points it was asked to redeem.        *)
Placed(kind, asked) ==
  [kind |-> kind, status |-> "submitted", paid |-> FALSE, ref |-> "none",
   delivery |-> IF kind.delivery THEN "pending" ELSE "none",
   redeemed |-> asked, settled |-> FALSE, merged |-> None]

TypeOK ==
  /\ guest \in [GuestOrderIds -> GuestOrder \cup {None}]
  /\ order \in [Orders -> GuestOrderIds \cup {None, "counter"}]
  /\ qr \in [Sessions -> {"none", "open", "expired", "closed"}]
  /\ captured \subseteq GuestOrderIds
  /\ points \in Nat
  /\ posted \in [GuestOrderIds -> Nat]
  /\ reviews \subseteq [of : GuestOrderIds, mark : Ratings]
  /\ rating \in [count : Nat, sum : Nat]
  /\ requests \in 0..MaxRequests

Init ==
  /\ guest \in [GuestOrderIds -> OnFile \cup {None}]
  /\ order = [o \in Orders |-> None]
  /\ qr = [s \in Sessions |-> "none"]
  /\ captured = {}
  /\ points = StartPoints
  /\ posted = [g \in GuestOrderIds |-> 0]
  /\ reviews = {}
  /\ rating = [count |-> 0, sum |-> 0]
  /\ session = [w \in Workers |-> Idle]
  /\ requests = 0

rows == <<guest, order, qr, captured, points, posted, reviews, rating>>

---------------------------------------------------------------------------
(* The first step of a request: what it reads, and the checks it makes.    *)

Begin(w, request) ==
  /\ session[w] = Idle
  /\ requests < MaxRequests
  /\ requests' = requests + 1
  /\ session' = [session EXCEPT ![w] = request]
  /\ UNCHANGED rows

Submits(w, placed) == Begin(w, [op |-> "submit", rows |-> placed])

(* The table's token, or one of a session that is open and has not lapsed  *)
(* (_resolve_table).                                                       *)
TableAnswers == StaticCode \/ \E s \in Sessions : qr[s] = "open"

(* submit_order                                                            *)
SubmitAtTable(w, g, kind) ==
  /\ guest[g] = None
  /\ kind.channel = "table_qr"
  /\ TableAnswers
  /\ Submits(w, [x \in {g} |-> Placed(kind, 0)])

(* submit_shopping_order, which knows no member.                           *)
SubmitShopping(w, g, kind) ==
  /\ guest[g] = None
  /\ kind.channel = "shopping"
  /\ Submits(w, [x \in {g} |-> Placed(kind, 0)])

(* Points are redeemed by an order that is paid online, up to a part of    *)
(* its price and the balance that was read.                                *)
Redeemed(kind, asked) == IF kind.online THEN Min({asked, points, MaxRedeem}) ELSE 0

(* submit_marketplace_order                                                *)
SubmitMarketplace(w, g, kind, asked) ==
  /\ guest[g] = None
  /\ kind.channel = "marketplace"
  /\ Submits(w, [x \in {g} |-> Placed(kind, Redeemed(kind, asked))])

(* submit_batch_order: the carts of several stores become an order each,   *)
(* every one of them against the whole balance.                            *)
SubmitBatch(w, cart) ==
  /\ \A g \in DOMAIN cart : guest[g] = None /\ cart[g].kind.channel = "marketplace"
  /\ Submits(w, [g \in DOMAIN cart |->
                   Placed(cart[g].kind, Redeemed(cart[g].kind, cart[g].asked))])

Exists(g) == guest[g] # None

Load(w, op, g) == Begin(w, [op |-> op, of |-> g, read |-> guest[g]])

Accept(w, g) ==
  Exists(g) /\ guest[g].status = "submitted" /\ Load(w, "accept", g)

MarkReady(w, g) ==
  Exists(g) /\ guest[g].status = "accepted" /\ Load(w, "ready", g)

Cancel(w, g) ==
  Exists(g) /\ guest[g].status \notin {"merged", "cancelled"} /\ Load(w, "cancel", g)

(* complete_online_paid                                                    *)
Complete(w, g) ==
  /\ Exists(g)
  /\ guest[g].kind.channel = "marketplace"
  /\ guest[g].kind.online /\ guest[g].paid
  /\ guest[g].status \in {"ready", "accepted"}
  /\ guest[g].kind.delivery => guest[g].delivery = "delivered"
  /\ Load(w, "complete", g)

(* set_delivery_status to a status of the flow, whichever it is now, and   *)
(* mark_delivered.                                                         *)
SetDelivery(w, g, to) ==
  /\ Exists(g)
  /\ guest[g].kind.delivery
  /\ guest[g].status \notin {"merged", "cancelled"}
  /\ Begin(w, [op |-> "deliver", of |-> g, read |-> guest[g], to |-> to])

MarkDelivered(w, g) ==
  /\ Exists(g)
  /\ guest[g].kind.delivery
  /\ guest[g].status \in {"accepted", "ready"}
  /\ guest[g].delivery # "delivered"
  /\ Begin(w, [op |-> "deliver", of |-> g, read |-> guest[g], to |-> "delivered"])

(* merge_into_order: any order of the store will do.                       *)
Merge(w, g, o) ==
  /\ order[o] # None /\ Exists(g)
  /\ guest[g].status \in {"ready", "accepted", "submitted"}
  /\ Begin(w, [op |-> "merge", of |-> g, read |-> guest[g], into |-> o,
               open |-> {s \in Sessions : qr[s] \in {"open", "expired"}}])

(* upload_order of an order of the counter, perhaps for a guest order.     *)
Upload(w, o, from) ==
  /\ order[o] = None
  /\ from # "counter" => Exists(from)
  /\ Begin(w, [op |-> "upload", of |-> from, into |-> o,
               read |-> IF from = "counter" THEN None ELSE guest[from]])

(* initiate_payment                                                        *)
Initiate(w, g) ==
  /\ Exists(g)
  /\ guest[g].kind.channel = "marketplace"
  /\ guest[g].kind.online /\ ~guest[g].paid
  /\ Price - guest[g].redeemed > 0
  /\ Load(w, "initiate", g)

(* submit_review of an order that is done or paid, with the listing's mean *)
(* as it is then.                                                          *)
SubmitReview(w, g, mark) ==
  /\ Exists(g)
  /\ guest[g].kind.channel = "marketplace"
  /\ guest[g].status = "merged" \/ guest[g].paid
  /\ \A r \in reviews : r.of # g
  /\ Begin(w, [op |-> "review", of |-> g, mark |-> mark, mean |-> rating])

(* open_table_session, close_table_session                                 *)
OpenTable(w, s) ==
  /\ qr[s] = "none"
  /\ Begin(w, [op |-> "open", of |-> s,
               open |-> {t \in Sessions : qr[t] \in {"open", "expired"}}])

CloseTable(w, s) ==
  /\ qr[s] \in {"open", "expired"}
  /\ Begin(w, [op |-> "close", of |-> s])

---------------------------------------------------------------------------
(* The second step: the commit.  A column that is as it was read is not    *)
(* written, and a row that a notification has claimed is waited for.       *)

Claims(w, g) == session[w].op = "settle" /\ session[w].of = g

Free(w, g) == \A v \in Workers \ {w} : ~Claims(v, g)

Done(w) == session' = [session EXCEPT ![w] = Idle] /\ UNCHANGED requests

Doing(w, op) == session[w].op = op

CommitSubmit(w) ==
  LET r == session[w] IN
  /\ Doing(w, "submit")
  /\ \A g \in DOMAIN r.rows : guest[g] = None
  /\ guest' = [g \in GuestOrderIds |->
                IF g \in DOMAIN r.rows THEN r.rows[g] ELSE guest[g]]
  /\ Done(w)
  /\ UNCHANGED <<order, qr, captured, points, posted, reviews, rating>>

NextStatus == [accept |-> "accepted", ready |-> "ready", cancel |-> "cancelled",
               complete |-> "merged"]

(* Mistaken: the whole row is written as it was read.                      *)
CommitStatusWhole(w) ==
  LET r == session[w] IN
  /\ r.op \in DOMAIN NextStatus
  /\ Free(w, r.of)
  /\ guest' = [guest EXCEPT ![r.of] = [r.read EXCEPT !.status = NextStatus[r.op]]]
  /\ Done(w)
  /\ UNCHANGED <<order, qr, captured, points, posted, reviews, rating>>

CommitStatus(w) ==
  LET r == session[w] IN
  /\ r.op \in DOMAIN NextStatus
  /\ Free(w, r.of)
  /\ guest' = [guest EXCEPT ![r.of].status = NextStatus[r.op]]
  /\ Done(w)
  /\ UNCHANGED <<order, qr, captured, points, posted, reviews, rating>>

CommitDelivery(w) ==
  LET r == session[w] IN
  /\ Doing(w, "deliver")
  /\ Free(w, r.of)
  /\ guest' = [guest EXCEPT ![r.of].delivery = IF r.to = r.read.delivery THEN @ ELSE r.to]
  /\ Done(w)
  /\ UNCHANGED <<order, qr, captured, points, posted, reviews, rating>>

Closed(open) == [s \in Sessions |-> IF s \in open THEN "closed" ELSE qr[s]]

CommitMerge(w) ==
  LET r == session[w] IN
  /\ Doing(w, "merge")
  /\ Free(w, r.of)
  /\ order' = [order EXCEPT ![r.into] = r.of]
  /\ guest' = [guest EXCEPT ![r.of].status = "merged", ![r.of].merged = r.into]
  /\ qr' = IF r.read.kind.channel = "table_qr" THEN Closed(r.open) ELSE qr
  /\ Done(w)
  /\ UNCHANGED <<captured, points, posted, reviews, rating>>

CommitUpload(w) ==
  LET r == session[w] IN
  /\ Doing(w, "upload")
  /\ order[r.into] = None
  /\ order' = [order EXCEPT ![r.into] = r.of]
  /\ IF r.of # "counter" /\ r.read.status \notin {"merged", "cancelled"}
     THEN /\ Free(w, r.of)
          /\ guest' = [guest EXCEPT ![r.of].status = "merged", ![r.of].merged = r.into]
     ELSE UNCHANGED guest
  /\ Done(w)
  /\ UNCHANGED <<qr, captured, points, posted, reviews, rating>>

CommitInitiate(w) ==
  LET r == session[w] IN
  /\ Doing(w, "initiate")
  /\ Free(w, r.of)
  /\ guest' = [guest EXCEPT ![r.of].ref = IF r.read.ref = "trade" THEN @ ELSE "trade"]
  /\ Done(w)
  /\ UNCHANGED <<order, qr, captured, points, posted, reviews, rating>>

(* The key of a review is its order; the mean is written as it was counted *)
(* from what had been read.                                                *)
CommitReview(w) ==
  LET r == session[w] IN
  /\ Doing(w, "review")
  /\ \A v \in reviews : v.of # r.of
  /\ reviews' = reviews \cup {[of |-> r.of, mark |-> r.mark]}
  /\ rating' = [count |-> r.mean.count + 1, sum |-> r.mean.sum + r.mark]
  /\ Done(w)
  /\ UNCHANGED <<guest, order, qr, captured, points, posted>>

CommitOpen(w) ==
  LET r == session[w] IN
  /\ Doing(w, "open")
  /\ qr[r.of] = "none"
  /\ qr' = [Closed(r.open) EXCEPT ![r.of] = "open"]
  /\ Done(w)
  /\ UNCHANGED <<guest, order, captured, points, posted, reviews, rating>>

CommitClose(w) ==
  LET r == session[w] IN
  /\ Doing(w, "close")
  /\ qr' = [qr EXCEPT ![r.of] = "closed"]
  /\ Done(w)
  /\ UNCHANGED <<guest, order, captured, points, posted, reviews, rating>>

(* A key exists already, or the server goes down: the rollback.            *)
Abort(w) ==
  /\ session[w] # Idle
  /\ Done(w) /\ UNCHANGED rows

---------------------------------------------------------------------------
(* The gateway takes the money for a payment form, once per trade number,  *)
(* and notifies the server until it hears that all is well.                *)

Capture(g) ==
  /\ Exists(g) /\ guest[g].ref = "trade"
  /\ g \notin captured
  /\ captured' = captured \cup {g}
  /\ UNCHANGED <<guest, order, qr, points, posted, reviews, rating, session, requests>>

(* Mistaken: a cancelled order is not looked for.                          *)
NotifyReadOnce(w, g) ==
  /\ session[w] = Idle
  /\ g \in captured /\ Exists(g) /\ posted[g] = 0
  /\ guest[g].ref = "trade" /\ guest[g].status # "cancelled"
  /\ session' = [session EXCEPT ![w] = [op |-> "notify", of |-> g, read |-> guest[g]]]
  /\ UNCHANGED <<rows, requests>>

(* ecpay_webhook finds an order by its trade number, which the gateway's   *)
(* own number replaces when the order is paid.                             *)
NotifyRead(w, g) ==
  /\ session[w] = Idle
  /\ g \in captured
  /\ guest[g].ref = "trade"
  /\ session' = [session EXCEPT ![w] = [op |-> "notify", of |-> g, read |-> guest[g]]]
  /\ UNCHANGED <<rows, requests>>

(* Mistaken: the claim without its condition.                              *)
NotifyClaimUnchecked(w) ==
  LET r == session[w] IN
  /\ Doing(w, "notify")
  /\ Free(w, r.of)
  /\ session' = [session EXCEPT ![w] =
       [op |-> "settle", of |-> r.of, read |-> r.read, points |-> points]]
  /\ UNCHANGED <<rows, requests>>

(* The conditional UPDATE: the row is locked until the commit, and only    *)
(* one notification finds it unpaid.  The customer's points are read next. *)
NotifyClaim(w) ==
  LET r == session[w] IN
  /\ Doing(w, "notify")
  /\ Free(w, r.of)
  /\ session' = [session EXCEPT ![w] =
       IF guest[r.of].paid THEN Idle
       ELSE [op |-> "settle", of |-> r.of, read |-> r.read, points |-> points]]
  /\ UNCHANGED <<rows, requests>>

Less(a, b) == IF a > b THEN a - b ELSE 0

(* settle_marketplace_online_loyalty, whose failure is swallowed: what it  *)
(* had done by then is committed with the payment.                         *)
CommitSettle(w, done) ==
  LET r == session[w]
      spent == Less(r.points, r.read.redeemed)
  IN
  /\ Doing(w, "settle")
  /\ guest' = [guest EXCEPT ![r.of].paid = TRUE, ![r.of].ref = "provider",
                            ![r.of].settled = @ \/ done = "all"]
  /\ IF done = "nothing" \/ r.read.settled THEN UNCHANGED <<points, posted>>
     ELSE /\ points' = IF done = "all" THEN spent + Earned ELSE spent
          /\ posted' = [posted EXCEPT ![r.of] = @ + 1]
  /\ Done(w)
  /\ UNCHANGED <<order, qr, captured, reviews, rating>>

(* Four hours pass.                                                        *)
Lapse(s) ==
  /\ qr[s] = "open"
  /\ qr' = [qr EXCEPT ![s] = "expired"]
  /\ UNCHANGED <<guest, order, captured, points, posted, reviews, rating,
                 session, requests>>

---------------------------------------------------------------------------
Ask(w) ==
  \/ \E g \in GuestOrderIds :
       \/ \E kind \in Kinds : SubmitAtTable(w, g, kind)
       \/ \E kind \in Kinds : SubmitShopping(w, g, kind)
       \/ \E kind \in Kinds, asked \in {0, MaxRedeem} :
            SubmitMarketplace(w, g, kind, asked)
       \/ Accept(w, g) \/ MarkReady(w, g) \/ Cancel(w, g) \/ Complete(w, g)
       \/ \E to \in DeliveryFlow : SetDelivery(w, g, to)
       \/ MarkDelivered(w, g)
       \/ \E o \in Orders : Merge(w, g, o)
       \/ Initiate(w, g)
       \/ \E mark \in Ratings : SubmitReview(w, g, mark)
  \/ \E S \in SUBSET GuestOrderIds :
       \E cart \in [S -> [kind : Kinds, asked : {0, MaxRedeem}]] :
         Cardinality(S) > 1 /\ SubmitBatch(w, cart)
  \/ \E o \in Orders, from \in GuestOrderIds \cup {"counter"} : Upload(w, o, from)
  \/ \E s \in Sessions : OpenTable(w, s) \/ CloseTable(w, s)

Settle(w, g) ==
  /\ Claims(w, g)
  /\ \E done \in {"nothing", "redeemed", "all"} : CommitSettle(w, done)

Commit(w) ==
  \/ CommitSubmit(w) \/ CommitStatus(w) \/ CommitDelivery(w) \/ CommitMerge(w)
  \/ CommitUpload(w) \/ CommitInitiate(w) \/ CommitReview(w)
  \/ CommitOpen(w) \/ CommitClose(w) \/ NotifyClaim(w)
  \/ \E g \in GuestOrderIds : Settle(w, g)

Next ==
  \/ \E w \in Workers :
       \/ Ask(w) \/ Commit(w) \/ Abort(w)
       \/ \E g \in GuestOrderIds : NotifyRead(w, g)
  \/ \E g \in GuestOrderIds : Capture(g)
  \/ \E s \in Sessions : Lapse(s)

Spec == Init /\ [][Next]_vars

(* A worker does not stay in the middle of a request, the gateway repeats  *)
(* its notification, and the server is not down every time it does.        *)
Notified(g) == \E w \in Workers : NotifyRead(w, g)

Claimed(g) == \E w \in Workers : Doing(w, "notify") /\ session[w].of = g /\ NotifyClaim(w)

Settled(g) == \E w \in Workers : Settle(w, g)

FairSpec ==
  /\ Spec
  /\ \A w \in Workers : WF_vars(Commit(w) \/ Abort(w))
  /\ \A g \in GuestOrderIds :
       SF_vars(Notified(g)) /\ SF_vars(Claimed(g)) /\ SF_vars(Settled(g))

---------------------------------------------------------------------------
(* An order's points are settled once at most, however often the gateway   *)
(* notifies and whichever requests rewrite the row meanwhile, and only for *)
(* money that it has taken (the conditional UPDATE of ecpay_webhook).      *)
SettledOnce ==
  \A g \in GuestOrderIds :
    posted[g] > 0 => posted[g] = 1 /\ g \in captured /\ guest[g].paid

(* What a payment has written outlives every request that had read the     *)
(* order before it: paid stays paid, and the mark that the points are      *)
(* settled stays (the columns that ecpay_webhook writes, against staff's   *)
(* handlers, which commit later).                                          *)
PaymentSurvives ==
  [][\A g \in GuestOrderIds :
       Exists(g) => /\ guest[g].paid => guest'[g].paid
                    /\ guest[g].settled => guest'[g].settled]_vars

(* Money that the gateway has taken marks its order as paid in the end,    *)
(* although workers fail and staff handle the order meanwhile              *)
(* (ecpay_webhook).                                                        *)
CapturedIsPaid ==
  \A g \in GuestOrderIds : g \in captured ~> (Exists(g) /\ guest[g].paid)

=============================================================================
