------------------------- MODULE GuestOrdersProofs -------------------------
(***************************************************************************)
(* What GuestOrders guarantees for any number of orders, workers and       *)
(* requests, however often the gateway notifies.                           *)
(***************************************************************************)
EXTENDS GuestOrders, TLAPS

---------------------------------------------------------------------------
(* The inductive invariant.                                                *)

(* The requests about a guest order that has a row.                        *)
AboutARow ==
  {"accept", "ready", "cancel", "complete", "deliver", "merge", "initiate",
   "notify", "settle"}

HasARow(g) == g \in GuestOrderIds /\ guest[g] \in GuestOrder

(* What is asked for was asked with what there is: the rows to write are   *)
(* rows, the order it is about has one, and what was read is of its type.  *)
IsRequest(r) ==
  /\ r.op = "submit" => \A g \in DOMAIN r.rows : r.rows[g] \in GuestOrder
  /\ r.op \in AboutARow => HasARow(r.of)
  /\ r.op = "deliver" => r.to \in DeliveryFlow
  /\ r.op = "merge" => r.into \in Orders
  /\ r.op = "upload" => r.into \in Orders /\ (r.of = "counter" \/ HasARow(r.of))
  /\ r.op = "review" => /\ r.of \in GuestOrderIds /\ r.mark \in Ratings
                        /\ r.mean \in [count : Nat, sum : Nat]
  /\ r.op \in {"notify", "settle"} => r.read \in GuestOrder
  /\ r.op = "settle" => r.points \in Nat

SessionsAreRequests ==
  DOMAIN session = Workers /\ \A w \in Workers : IsRequest(session[w])

(* The gateway takes money for orders that have a row.                     *)
CapturedHasARow == \A g \in captured : HasARow(g)

(* A notification is of money taken; the one that has claimed an order     *)
(* found it unpaid, and no other claims it or pays it before it commits.   *)
ClaimIsAlone ==
  \A w \in Workers :
    /\ session[w].op \in {"notify", "settle"} => session[w].of \in captured
    /\ session[w].op = "settle" => ~guest[session[w].of].paid
    /\ \A v \in Workers :
         /\ session[v].op = "settle" /\ session[w].op = "settle"
         /\ session[v].of = session[w].of
         => v = w

GuestInv ==
  /\ TypeOK
  /\ SessionsAreRequests /\ CapturedHasARow
  /\ ClaimIsAlone /\ SettledOnce

---------------------------------------------------------------------------
(* The requests.                                                           *)

LEMMA LeastOfThree ==
  ASSUME NEW a \in Nat, NEW b \in Nat, NEW c \in Nat
  PROVE  Min({a, b, c}) \in 0..c
<1>1. \E x \in {a, b, c} : \A y \in {a, b, c} : x <= y
  OBVIOUS
<1>2. Min({a, b, c}) \in {a, b, c} /\ \A y \in {a, b, c} : Min({a, b, c}) <= y
  BY <1>1 DEF Min
<1> QED
  BY <1>2

(* A row that is placed redeems no more points than it may.                *)
LEMMA PlacedType ==
  ASSUME TypeOK, NEW kind \in Kinds
  PROVE  /\ Placed(kind, 0) \in GuestOrder
         /\ \A asked \in {0, MaxRedeem} : Placed(kind, Redeemed(kind, asked)) \in GuestOrder
<1>1. MaxRedeem \in Nat /\ points \in Nat /\ kind.online \in BOOLEAN
  BY GuestTypes DEF TypeOK
<1>2. ASSUME NEW n \in 0..MaxRedeem
      PROVE  Placed(kind, n) \in GuestOrder
  BY <1>2 DEF Placed, GuestOrder, DeliveryFlow
<1>3. ASSUME NEW asked \in {0, MaxRedeem}
      PROVE  Redeemed(kind, asked) \in 0..MaxRedeem
  <2>1. Min({asked, points, MaxRedeem}) \in 0..MaxRedeem
    BY <1>1, LeastOfThree
  <2> QED
    BY <1>1, <2>1 DEF Redeemed
<1> QED
  BY <1>1, <1>2, <1>3

(* Whatever is asked for is a request, and none of it pays.                *)
LEMMA AskBegins ==
  ASSUME TypeOK, NEW w \in Workers, Ask(w)
  PROVE  \E r : Begin(w, r) /\ IsRequest(r) /\ r.op \notin {"notify", "settle"}
<1> USE DEF IsRequest, AboutARow
<1>1. \A g \in GuestOrderIds : Exists(g) => HasARow(g)
  BY DEF TypeOK, Exists, HasARow
<1>2. ASSUME NEW g \in GuestOrderIds, NEW row \in GuestOrder, Submits(w, [x \in {g} |-> row])
      PROVE  \E r : Begin(w, r) /\ IsRequest(r) /\ r.op \notin {"notify", "settle"}
  <2> DEFINE r == [op |-> "submit", rows |-> [x \in {g} |-> row]]
  <2>1. Begin(w, r) /\ IsRequest(r) /\ r.op \notin {"notify", "settle"}
    BY <1>2 DEF Submits
  <2> QED
    BY <2>1
<1>3. ASSUME NEW g \in GuestOrderIds, Exists(g), NEW op \in AboutARow \ {"deliver", "merge", "notify", "settle"},
             Load(w, op, g)
      PROVE  \E r : Begin(w, r) /\ IsRequest(r) /\ r.op \notin {"notify", "settle"}
  <2> DEFINE r == [op |-> op, of |-> g, read |-> guest[g]]
  <2>1. Begin(w, r) /\ IsRequest(r) /\ r.op \notin {"notify", "settle"}
    BY <1>1, <1>3 DEF Load
  <2> QED
    BY <2>1
<1>4. ASSUME NEW g \in GuestOrderIds, Exists(g), NEW to \in DeliveryFlow,
             Begin(w, [op |-> "deliver", of |-> g, read |-> guest[g], to |-> to])
      PROVE  \E r : Begin(w, r) /\ IsRequest(r) /\ r.op \notin {"notify", "settle"}
  <2> DEFINE r == [op |-> "deliver", of |-> g, read |-> guest[g], to |-> to]
  <2>1. Begin(w, r) /\ IsRequest(r) /\ r.op \notin {"notify", "settle"}
    BY <1>1, <1>4
  <2> QED
    BY <2>1
<1>5. ASSUME NEW g \in GuestOrderIds,
             \/ \E kind \in Kinds : SubmitAtTable(w, g, kind) \/ SubmitShopping(w, g, kind)
             \/ \E kind \in Kinds, asked \in {0, MaxRedeem} : SubmitMarketplace(w, g, kind, asked)
      PROVE  \E r : Begin(w, r) /\ IsRequest(r) /\ r.op \notin {"notify", "settle"}
  <2>1. \E row \in GuestOrder : Submits(w, [x \in {g} |-> row])
    BY <1>5, PlacedType DEF SubmitAtTable, SubmitShopping, SubmitMarketplace
  <2> QED
    BY <1>2, <2>1
<1>6. ASSUME NEW g \in GuestOrderIds,
             Accept(w, g) \/ MarkReady(w, g) \/ Cancel(w, g) \/ Complete(w, g) \/ Initiate(w, g)
      PROVE  \E r : Begin(w, r) /\ IsRequest(r) /\ r.op \notin {"notify", "settle"}
  <2>1. Exists(g) /\ \E op \in AboutARow \ {"deliver", "merge", "notify", "settle"} : Load(w, op, g)
    BY <1>6 DEF Accept, MarkReady, Cancel, Complete, Initiate
  <2> QED
    BY <1>3, <2>1
<1>7. ASSUME NEW g \in GuestOrderIds,
             MarkDelivered(w, g) \/ \E to \in DeliveryFlow : SetDelivery(w, g, to)
      PROVE  \E r : Begin(w, r) /\ IsRequest(r) /\ r.op \notin {"notify", "settle"}
  BY <1>4, <1>7 DEF MarkDelivered, SetDelivery, DeliveryFlow
<1>8. ASSUME NEW g \in GuestOrderIds, NEW o \in Orders, Merge(w, g, o)
      PROVE  \E r : Begin(w, r) /\ IsRequest(r) /\ r.op \notin {"notify", "settle"}
  <2> DEFINE r == [op |-> "merge", of |-> g, read |-> guest[g], into |-> o,
                   open |-> {s \in Sessions : qr[s] \in {"open", "expired"}}]
  <2>1. Begin(w, r) /\ IsRequest(r) /\ r.op \notin {"notify", "settle"}
    BY <1>1, <1>8 DEF Merge
  <2> QED
    BY <2>1
<1>9. ASSUME NEW g \in GuestOrderIds, NEW mark \in Ratings, SubmitReview(w, g, mark)
      PROVE  \E r : Begin(w, r) /\ IsRequest(r) /\ r.op \notin {"notify", "settle"}
  <2> DEFINE r == [op |-> "review", of |-> g, mark |-> mark, mean |-> rating]
  <2>1. Begin(w, r) /\ IsRequest(r) /\ r.op \notin {"notify", "settle"}
    BY <1>9 DEF SubmitReview, TypeOK
  <2> QED
    BY <2>1
<1>10. ASSUME NEW S \in SUBSET GuestOrderIds,
              NEW cart \in [S -> [kind : Kinds, asked : {0, MaxRedeem}]], SubmitBatch(w, cart)
       PROVE  \E r : Begin(w, r) /\ IsRequest(r) /\ r.op \notin {"notify", "settle"}
  <2> DEFINE placed == [g \in DOMAIN cart |->
                          Placed(cart[g].kind, Redeemed(cart[g].kind, cart[g].asked))]
             r == [op |-> "submit", rows |-> placed]
  <2>1. \A g \in DOMAIN cart : placed[g] \in GuestOrder
    BY PlacedType
  <2>2. Begin(w, r) /\ IsRequest(r) /\ r.op \notin {"notify", "settle"}
    BY <1>10, <2>1 DEF SubmitBatch, Submits
  <2> QED
    BY <2>2
<1>11. ASSUME NEW o \in Orders, NEW from \in GuestOrderIds \cup {"counter"}, Upload(w, o, from)
       PROVE  \E r : Begin(w, r) /\ IsRequest(r) /\ r.op \notin {"notify", "settle"}
  <2> DEFINE r == [op |-> "upload", of |-> from, into |-> o,
                   read |-> IF from = "counter" THEN None ELSE guest[from]]
  <2>1. Begin(w, r) /\ IsRequest(r) /\ r.op \notin {"notify", "settle"}
    BY <1>1, <1>11 DEF Upload
  <2> QED
    BY <2>1
<1>12. ASSUME NEW s \in Sessions, OpenTable(w, s) \/ CloseTable(w, s)
       PROVE  \E r : Begin(w, r) /\ IsRequest(r) /\ r.op \notin {"notify", "settle"}
  BY <1>12 DEF OpenTable, CloseTable
<1> HIDE DEF IsRequest, AboutARow
<1> QED
  BY <1>5, <1>6, <1>7, <1>8, <1>9, <1>10, <1>11, <1>12 DEF Ask

---------------------------------------------------------------------------
(* The steps.                                                              *)

LEMMA GuestInit == Init => GuestInv
<1> SUFFICES ASSUME Init
             PROVE  GuestInv
  OBVIOUS
<1>1. TypeOK
  BY GuestTypes, OnFileType DEF Init, TypeOK
<1>2. \A w \in Workers : session[w].op = "none"
  BY DEF Init, Idle
<1>3. SessionsAreRequests
  BY <1>2 DEF Init, SessionsAreRequests, IsRequest, AboutARow
<1>4. CapturedHasARow /\ ClaimIsAlone /\ SettledOnce
  BY <1>2 DEF Init, CapturedHasARow, ClaimIsAlone, SettledOnce
<1> QED
  BY <1>1, <1>3, <1>4 DEF GuestInv

(* A row that is rewritten by another than the payment keeps its marks.    *)
Rewrites(new, row) ==
  new \in GuestOrder /\ new.paid = row.paid /\ new.settled = row.settled

Handled == \A g \in GuestOrderIds : HasARow(g) => Rewrites(guest'[g], guest[g])

LEMMA ColumnsRewrite ==
  ASSUME NEW row \in GuestOrder
  PROVE  /\ \A to \in {"accepted", "ready", "cancelled", "merged"} :
              Rewrites([row EXCEPT !.status = to], row)
         /\ \A to \in DeliveryFlow : Rewrites([row EXCEPT !.delivery = to], row)
         /\ \A o \in Orders : Rewrites([row EXCEPT !.status = "merged", !.merged = o], row)
         /\ Rewrites([row EXCEPT !.ref = "trade"], row)
         /\ Rewrites(row, row)
<1>1. \A to \in {"accepted", "ready", "cancelled", "merged"} :
        Rewrites([row EXCEPT !.status = to], row)
  BY DEF Rewrites, GuestOrder
<1>2. \A to \in DeliveryFlow : Rewrites([row EXCEPT !.delivery = to], row)
  BY DEF Rewrites, GuestOrder
<1>3. \A o \in Orders : Rewrites([row EXCEPT !.status = "merged", !.merged = o], row)
  BY DEF Rewrites, GuestOrder
<1>4. Rewrites([row EXCEPT !.ref = "trade"], row) /\ Rewrites(row, row)
  BY DEF Rewrites, GuestOrder
<1> QED
  BY <1>1, <1>2, <1>3, <1>4

(* One row is rewritten.                                                   *)
LEMMA OneRewritten ==
  ASSUME TypeOK, NEW g, HasARow(g), NEW new, Rewrites(new, guest[g]),
         guest' = [guest EXCEPT ![g] = new]
  PROVE  Handled /\ guest' \in [GuestOrderIds -> GuestOrder \cup {None}]
<1>1. \A h \in GuestOrderIds : HasARow(h) => Rewrites(guest[h], guest[h])
  BY DEF Rewrites, HasARow
<1>2. \A h \in GuestOrderIds : guest'[h] = IF h = g THEN new ELSE guest[h]
  BY DEF TypeOK
<1>3. guest' \in [GuestOrderIds -> GuestOrder \cup {None}]
  BY DEF TypeOK, Rewrites
<1> QED
  BY <1>1, <1>2, <1>3 DEF Handled

(* The worker is done, and the rows have been handled.                     *)
Ends(w) ==
  /\ session' = [session EXCEPT ![w] = Idle]
  /\ Handled
  /\ UNCHANGED <<captured, posted>>

LEMMA EndKeeps ==
  ASSUME GuestInv, TypeOK', NEW w \in Workers, Ends(w)
  PROVE  GuestInv'
<1> USE DEF GuestInv
<1>1. /\ DOMAIN session' = Workers
      /\ \A v \in Workers : session'[v] = IF v = w THEN Idle ELSE session[v]
      /\ \A g : HasARow(g) => /\ HasARow(g)'
                              /\ guest'[g].paid = guest[g].paid
      /\ UNCHANGED <<captured, posted>>
  BY DEF SessionsAreRequests, Ends, Handled, HasARow, Rewrites
<1>2. \A r : IsRequest(r) => IsRequest(r)'
  BY <1>1 DEF IsRequest
<1>3. IsRequest(Idle)'
  BY DEF IsRequest, Idle, AboutARow
<1>4. SessionsAreRequests'
  BY <1>1, <1>2, <1>3 DEF SessionsAreRequests
<1>5. CapturedHasARow'
  BY <1>1 DEF CapturedHasARow
<1>6. ClaimIsAlone'
  <2>1. \A v \in Workers : session[v].op = "settle" => HasARow(session[v].of)
    BY DEF SessionsAreRequests, IsRequest, AboutARow
  <2>2. Idle.op = "none"
    BY DEF Idle
  <2> QED
    BY <1>1, <2>1, <2>2 DEF ClaimIsAlone
<1>7. SettledOnce'
  BY <1>1 DEF SettledOnce, CapturedHasARow
<1> QED
  BY <1>4, <1>5, <1>6, <1>7

(* What a worker that is at something has asked for.                       *)
LEMMA RowOfRequest ==
  ASSUME GuestInv, NEW w \in Workers, session[w].op \in AboutARow
  PROVE  HasARow(session[w].of)
BY DEF GuestInv, SessionsAreRequests, IsRequest

(* Requests of the counter and of customers, payments apart, end so.       *)
LEMMA CommitEnds ==
  ASSUME GuestInv, NEW w \in Workers,
         \/ CommitSubmit(w) \/ CommitStatus(w) \/ CommitDelivery(w) \/ CommitMerge(w)
         \/ CommitUpload(w) \/ CommitInitiate(w) \/ CommitReview(w)
         \/ CommitOpen(w) \/ CommitClose(w) \/ Abort(w)
  PROVE  TypeOK' /\ Ends(w)
<1> DEFINE r == session[w]
<1> USE DEF Done
<1>1. IsRequest(r) /\ TypeOK
  BY DEF GuestInv, SessionsAreRequests
<1>2. UNCHANGED guest => Handled
  BY DEF Handled, Rewrites, HasARow
<1>3. CASE CommitSubmit(w)
  <2>1. \A g \in DOMAIN r.rows : guest[g] = None /\ r.rows[g] \in GuestOrder
    BY <1>1, <1>3 DEF CommitSubmit, Doing, IsRequest
  <2>2. guest' = [g \in GuestOrderIds |-> IF g \in DOMAIN r.rows THEN r.rows[g] ELSE guest[g]]
    BY <1>3 DEF CommitSubmit
  <2>3. Handled
    BY <2>1, <2>2, NoneIsNoRow DEF Handled, Rewrites, HasARow
  <2>4. guest' \in [GuestOrderIds -> GuestOrder \cup {None}]
    BY <1>1, <2>1, <2>2 DEF TypeOK
  <2> QED
    BY <1>1, <1>3, <2>3, <2>4 DEF CommitSubmit, TypeOK, Ends
<1>4. CASE CommitStatus(w)
  <2>1. r.op \in {"accept", "ready", "cancel", "complete"}
    BY <1>4 DEF CommitStatus, NextStatus
  <2>2. HasARow(r.of) /\ guest[r.of] \in GuestOrder
    BY <2>1, RowOfRequest DEF AboutARow, HasARow
  <2>3. NextStatus[r.op] \in {"accepted", "ready", "cancelled", "merged"}
    BY <2>1 DEF NextStatus
  <2>4. guest' = [guest EXCEPT ![r.of] = [guest[r.of] EXCEPT !.status = NextStatus[r.op]]]
    BY <1>4 DEF CommitStatus
  <2>5. Handled /\ guest' \in [GuestOrderIds -> GuestOrder \cup {None}]
    BY <1>1, <2>2, <2>3, <2>4, ColumnsRewrite, OneRewritten
  <2> QED
    BY <1>1, <1>4, <2>5 DEF CommitStatus, TypeOK, Ends
<1>5. CASE CommitDelivery(w)
  <2>1. HasARow(r.of) /\ guest[r.of] \in GuestOrder /\ r.to \in DeliveryFlow
    BY <1>1, <1>5, RowOfRequest DEF CommitDelivery, Doing, IsRequest, AboutARow, HasARow
  <2> DEFINE to == IF r.to = r.read.delivery THEN guest[r.of].delivery ELSE r.to
             new == [guest[r.of] EXCEPT !.delivery = to]
  <2>2. guest' = [guest EXCEPT ![r.of] = new]
    BY <1>5 DEF CommitDelivery
  <2>3. Rewrites(new, guest[r.of])
    BY <2>1 DEF Rewrites, GuestOrder
  <2> HIDE DEF new
  <2>4. Handled /\ guest' \in [GuestOrderIds -> GuestOrder \cup {None}]
    BY <1>1, <2>1, <2>2, <2>3, OneRewritten
  <2> QED
    BY <1>1, <1>5, <2>4 DEF CommitDelivery, TypeOK, Ends
<1>6. CASE CommitMerge(w)
  <2>1. HasARow(r.of) /\ guest[r.of] \in GuestOrder /\ r.into \in Orders
    BY <1>1, <1>6, RowOfRequest DEF CommitMerge, Doing, IsRequest, AboutARow, HasARow
  <2>2. guest' = [guest EXCEPT ![r.of] = [guest[r.of] EXCEPT !.status = "merged", !.merged = r.into]]
    BY <1>1, <1>6, <2>1 DEF CommitMerge, TypeOK, HasARow
  <2>3. Handled /\ guest' \in [GuestOrderIds -> GuestOrder \cup {None}]
    BY <1>1, <2>1, <2>2, ColumnsRewrite, OneRewritten
  <2>4. order' \in [Orders -> GuestOrderIds \cup {None, "counter"}]
    BY <1>1, <1>6, <2>1 DEF CommitMerge, TypeOK, HasARow
  <2>5. qr' \in [Sessions -> {"none", "open", "expired", "closed"}]
    BY <1>1, <1>6 DEF CommitMerge, TypeOK, Closed
  <2> QED
    BY <1>1, <1>6, <2>3, <2>4, <2>5 DEF CommitMerge, TypeOK, Ends
<1>7. CASE CommitUpload(w)
  <2>1. r.into \in Orders /\ (r.of = "counter" \/ HasARow(r.of))
    BY <1>1, <1>7 DEF CommitUpload, Doing, IsRequest
  <2>2. Handled /\ guest' \in [GuestOrderIds -> GuestOrder \cup {None}]
    <3>1. CASE r.of # "counter" /\ r.read.status \notin {"merged", "cancelled"}
      <4>1. guest[r.of] \in GuestOrder
        BY <2>1, <3>1 DEF HasARow
      <4>2. guest' = [guest EXCEPT ![r.of] = [guest[r.of] EXCEPT !.status = "merged", !.merged = r.into]]
        BY <1>1, <1>7, <2>1, <3>1 DEF CommitUpload, TypeOK, HasARow
      <4> QED
        BY <1>1, <2>1, <3>1, <4>1, <4>2, ColumnsRewrite, OneRewritten
    <3>2. CASE ~(r.of # "counter" /\ r.read.status \notin {"merged", "cancelled"})
      BY <1>1, <1>2, <1>7, <3>2 DEF CommitUpload, TypeOK
    <3> QED
      BY <3>1, <3>2
  <2>3. order' \in [Orders -> GuestOrderIds \cup {None, "counter"}]
    BY <1>1, <1>7, <2>1 DEF CommitUpload, TypeOK, HasARow
  <2> QED
    BY <1>1, <1>7, <2>2, <2>3 DEF CommitUpload, TypeOK, Ends
<1>8. CASE CommitInitiate(w)
  <2>1. HasARow(r.of) /\ guest[r.of] \in GuestOrder
    BY <1>8, RowOfRequest DEF CommitInitiate, Doing, AboutARow, HasARow
  <2> DEFINE ref == IF r.read.ref = "trade" THEN guest[r.of].ref ELSE "trade"
             new == [guest[r.of] EXCEPT !.ref = ref]
  <2>2. guest' = [guest EXCEPT ![r.of] = new]
    BY <1>8 DEF CommitInitiate
  <2>3. Rewrites(new, guest[r.of])
    BY <2>1 DEF Rewrites, GuestOrder
  <2> HIDE DEF new
  <2>4. Handled /\ guest' \in [GuestOrderIds -> GuestOrder \cup {None}]
    BY <1>1, <2>1, <2>2, <2>3, OneRewritten
  <2> QED
    BY <1>1, <1>8, <2>4 DEF CommitInitiate, TypeOK, Ends
<1>9. CASE CommitReview(w)
  <2>1. /\ r.of \in GuestOrderIds /\ r.mark \in Ratings /\ r.mark \in Nat
        /\ r.mean.count \in Nat /\ r.mean.sum \in Nat
    <3>1. /\ r.of \in GuestOrderIds /\ r.mark \in Ratings
          /\ r.mean \in [count : Nat, sum : Nat]
      BY <1>1, <1>9 DEF CommitReview, Doing, IsRequest
    <3>2. Ratings \subseteq Nat
      BY GuestTypes
    <3> QED
      BY <3>1, <3>2
  <2>2. rating' \in [count : Nat, sum : Nat]
    BY <1>9, <2>1 DEF CommitReview
  <2>3. reviews' \subseteq [of : GuestOrderIds, mark : Ratings]
    BY <1>1, <1>9, <2>1 DEF CommitReview, TypeOK
  <2> QED
    BY <1>1, <1>2, <1>9, <2>2, <2>3 DEF CommitReview, TypeOK, Ends
<1>10. CASE CommitOpen(w) \/ CommitClose(w)
  <2>1. qr' \in [Sessions -> {"none", "open", "expired", "closed"}]
    <3>1. Closed(r.open) \in [Sessions -> {"none", "open", "expired", "closed"}]
      BY <1>1 DEF Closed, TypeOK
    <3>2. \/ qr' = [Closed(r.open) EXCEPT ![r.of] = "open"]
          \/ qr' = [qr EXCEPT ![r.of] = "closed"]
      BY <1>10 DEF CommitOpen, CommitClose
    <3> QED
      BY <1>1, <3>1, <3>2 DEF TypeOK
  <2>2. /\ UNCHANGED <<guest, order, captured, points, posted, reviews, rating, requests>>
        /\ session' = [session EXCEPT ![w] = Idle]
    BY <1>10 DEF CommitOpen, CommitClose
  <2> QED
    BY <1>1, <1>2, <2>1, <2>2 DEF TypeOK, Ends
<1>11. CASE Abort(w)
  BY <1>1, <1>2, <1>11 DEF Abort, rows, TypeOK, Ends
<1> QED
  BY <1>3, <1>4, <1>5, <1>6, <1>7, <1>8, <1>9, <1>10, <1>11

(* A request that begins, or a notification that reads, changes no row.    *)
LEMMA BeginKeeps ==
  ASSUME GuestInv, NEW w \in Workers, NEW r, requests' \in 0..MaxRequests,
         UNCHANGED rows, session' = [session EXCEPT ![w] = r], IsRequest(r),
         r.op # "settle", r.op = "notify" => r.of \in captured
  PROVE  GuestInv' /\ Handled
<1> USE DEF GuestInv, rows
<1>1. /\ DOMAIN session' = Workers
      /\ \A v \in Workers : session'[v] = IF v = w THEN r ELSE session[v]
  BY DEF SessionsAreRequests
<1>2. Handled
  BY DEF Handled, Rewrites, HasARow
<1>3. TypeOK'
  BY DEF TypeOK
<1>4. \A s : IsRequest(s) => IsRequest(s)'
  BY DEF IsRequest, HasARow
<1>5. SessionsAreRequests'
  BY <1>1, <1>4 DEF SessionsAreRequests
<1>6. CapturedHasARow' /\ SettledOnce'
  BY DEF CapturedHasARow, HasARow, SettledOnce
<1>7. ClaimIsAlone'
  BY <1>1 DEF ClaimIsAlone
<1> QED
  BY <1>2, <1>3, <1>5, <1>6, <1>7

LEMMA AskKeeps ==
  ASSUME GuestInv, NEW w \in Workers, Ask(w)
  PROVE  GuestInv' /\ Handled
<1>1. PICK r : Begin(w, r) /\ IsRequest(r) /\ r.op \notin {"notify", "settle"}
  BY AskBegins DEF GuestInv
<1>2. requests' \in 0..MaxRequests
  BY <1>1, GuestTypes DEF Begin, GuestInv, TypeOK
<1> QED
  BY <1>1, <1>2, BeginKeeps DEF Begin

LEMMA NotifyReadKeeps ==
  ASSUME GuestInv, NEW w \in Workers, NEW g \in GuestOrderIds, NotifyRead(w, g)
  PROVE  GuestInv' /\ Handled
<1> DEFINE r == [op |-> "notify", of |-> g, read |-> guest[g]]
<1>1. HasARow(g)
  BY DEF NotifyRead, GuestInv, CapturedHasARow
<1>2. IsRequest(r) /\ r.op = "notify" /\ r.of \in captured
  BY <1>1 DEF IsRequest, HasARow, NotifyRead, AboutARow
<1>3. UNCHANGED rows /\ UNCHANGED requests /\ session' = [session EXCEPT ![w] = r]
  BY DEF NotifyRead
<1>4. requests' \in 0..MaxRequests
  BY <1>3 DEF GuestInv, TypeOK
<1> HIDE DEF r
<1> QED
  BY <1>2, <1>3, <1>4, BeginKeeps

(* The claim finds the order unpaid, and no other holds it.                *)
LEMMA NotifyClaimKeeps ==
  ASSUME GuestInv, NEW w \in Workers, NotifyClaim(w)
  PROVE  GuestInv' /\ Handled
<1> DEFINE r == session[w]
           s == IF guest[r.of].paid THEN Idle
                ELSE [op |-> "settle", of |-> r.of, read |-> r.read, points |-> points]
<1> USE DEF GuestInv
<1>1. /\ r.op = "notify" /\ r.of \in captured /\ r.read \in GuestOrder
      /\ HasARow(r.of) /\ points \in Nat
  BY RowOfRequest
     DEF NotifyClaim, Doing, SessionsAreRequests, IsRequest, AboutARow, ClaimIsAlone, TypeOK
<1>2. UNCHANGED rows /\ UNCHANGED requests /\ session' = [session EXCEPT ![w] = s]
  BY DEF NotifyClaim
<1>3. IsRequest(s)
  BY <1>1 DEF IsRequest, Idle, AboutARow
<1>4. s.op # "notify" /\ (s.op = "settle" => s.of = r.of /\ ~guest[r.of].paid)
  BY DEF Idle
<1>5. \A v \in Workers : session[v].op = "settle" /\ session[v].of = r.of => v = w
  BY DEF NotifyClaim, Free, Claims
<1> HIDE DEF s
<1>6. /\ DOMAIN session' = Workers
      /\ \A v \in Workers : session'[v] = IF v = w THEN s ELSE session[v]
  BY <1>2 DEF SessionsAreRequests
<1>7. Handled
  BY <1>2 DEF Handled, Rewrites, HasARow, rows
<1>8. TypeOK'
  BY <1>2 DEF TypeOK, rows
<1>9. \A x : IsRequest(x) => IsRequest(x)'
  BY <1>2 DEF IsRequest, HasARow, rows
<1>10. SessionsAreRequests'
  BY <1>3, <1>6, <1>9 DEF SessionsAreRequests
<1>11. CapturedHasARow' /\ SettledOnce'
  BY <1>2 DEF CapturedHasARow, HasARow, SettledOnce, rows
<1>12. ClaimIsAlone'
  BY <1>1, <1>2, <1>4, <1>5, <1>6 DEF ClaimIsAlone, rows
<1> QED
  BY <1>7, <1>8, <1>10, <1>11, <1>12

(* The marks that a payment leaves stay.                                   *)
MarksStay ==
  \A g \in GuestOrderIds : HasARow(g) =>
    /\ guest[g].paid => guest'[g].paid
    /\ guest[g].settled => guest'[g].settled

LEMMA HandledMarksStay == Handled => MarksStay
BY DEF Handled, MarksStay, Rewrites

(* The payment is written, and the points are settled for the first time.  *)
LEMMA SettleKeeps ==
  ASSUME GuestInv, NEW w \in Workers, NEW g \in GuestOrderIds, Claims(w, g),
         NEW done \in {"nothing", "redeemed", "all"}, CommitSettle(w, done)
  PROVE  GuestInv' /\ MarksStay
<1> DEFINE r == session[w]
           row == guest[g]
           new == [row EXCEPT !.paid = TRUE, !.ref = "provider",
                              !.settled = row.settled \/ done = "all"]
<1> USE DEF GuestInv
<1>1. r.op = "settle" /\ r.of = g
  BY DEF Claims
<1>2. /\ HasARow(g) /\ row \in GuestOrder /\ g \in captured /\ ~row.paid
      /\ r.points \in Nat /\ r.read \in GuestOrder
  BY <1>1, RowOfRequest
     DEF SessionsAreRequests, IsRequest, AboutARow, HasARow, ClaimIsAlone
<1>3. posted[g] = 0
  BY <1>2 DEF SettledOnce, TypeOK, HasARow
<1>4. guest' = [guest EXCEPT ![g] = new]
  BY <1>1, <1>2 DEF CommitSettle, TypeOK
<1>5. new \in GuestOrder /\ new.paid /\ (row.settled => new.settled)
  BY <1>2 DEF GuestOrder
<1> HIDE DEF new
<1>6. \A h \in GuestOrderIds : guest'[h] = IF h = g THEN new ELSE guest[h]
  BY <1>4 DEF TypeOK
<1>7. MarksStay
  BY <1>5, <1>6 DEF MarksStay
<1>8. /\ posted' \in [GuestOrderIds -> Nat] /\ points' \in Nat
      /\ posted'[g] \in 0..1
      /\ \A h \in GuestOrderIds \ {g} : posted'[h] = posted[h]
  <2>1. r.read.redeemed \in Nat
    BY <1>2, GuestTypes DEF GuestOrder
  <2>2. Less(r.points, r.read.redeemed) \in Nat /\ Earned \in Nat
    BY <1>2, <2>1, GuestTypes DEF Less
  <2>3. \/ UNCHANGED <<points, posted>>
        \/ /\ points' \in Nat
           /\ posted' = [posted EXCEPT ![g] = 1]
    BY <1>1, <1>3, <2>2 DEF CommitSettle, TypeOK
  <2> QED
    BY <1>3, <2>3 DEF TypeOK
<1>9. /\ session' = [session EXCEPT ![w] = Idle]
      /\ UNCHANGED <<order, qr, captured, reviews, rating, requests>>
  BY DEF CommitSettle, Done
<1>10. TypeOK'
  BY <1>4, <1>5, <1>8, <1>9 DEF TypeOK
<1>11. /\ DOMAIN session' = Workers
       /\ \A v \in Workers : session'[v] = IF v = w THEN Idle ELSE session[v]
  BY <1>9 DEF SessionsAreRequests
<1>12. \A h : HasARow(h) => HasARow(h)'
  BY <1>5, <1>6 DEF HasARow
<1>13. \A x : IsRequest(x) => IsRequest(x)'
  BY <1>9, <1>12 DEF IsRequest
<1>14. IsRequest(Idle)' /\ Idle.op = "none"
  BY DEF IsRequest, Idle, AboutARow
<1>15. SessionsAreRequests'
  BY <1>11, <1>13, <1>14 DEF SessionsAreRequests
<1>16. CapturedHasARow'
  BY <1>9, <1>12 DEF CapturedHasARow
<1>17. ClaimIsAlone'
  <2>1. \A v \in Workers \ {w} :
          session[v].op = "settle" => session[v].of # g /\ HasARow(session[v].of)
    BY <1>1, RowOfRequest DEF ClaimIsAlone, AboutARow
  <2> QED
    BY <1>6, <1>9, <1>11, <1>14, <2>1 DEF ClaimIsAlone, HasARow
<1>18. SettledOnce'
  BY <1>2, <1>5, <1>6, <1>8, <1>9 DEF SettledOnce
<1> QED
  BY <1>7, <1>10, <1>15, <1>16, <1>17, <1>18

(* The gateway takes the money, four hours pass, or nothing happens.       *)
LEMMA OthersKeep ==
  ASSUME GuestInv,
         \/ \E g \in GuestOrderIds : Capture(g)
         \/ \E s \in Sessions : Lapse(s)
         \/ UNCHANGED vars
  PROVE  GuestInv' /\ Handled
<1> USE DEF GuestInv
<1>1. /\ UNCHANGED <<guest, order, points, posted, reviews, rating, session, requests>>
      /\ captured \subseteq captured'
      /\ \A g \in captured' : g \in captured \/ HasARow(g)
  BY DEF Capture, Lapse, vars, Exists, HasARow, TypeOK
<1>2. Handled
  BY <1>1 DEF Handled, Rewrites, HasARow
<1>3. captured' \subseteq GuestOrderIds
  BY <1>1 DEF TypeOK, HasARow
<1>4. qr' \in [Sessions -> {"none", "open", "expired", "closed"}]
  BY DEF Capture, Lapse, vars, TypeOK
<1>5. TypeOK'
  BY <1>1, <1>3, <1>4 DEF TypeOK
<1>6. SessionsAreRequests'
  BY <1>1 DEF SessionsAreRequests, IsRequest, HasARow
<1>7. CapturedHasARow' /\ ClaimIsAlone' /\ SettledOnce'
  BY <1>1 DEF CapturedHasARow, HasARow, ClaimIsAlone, SettledOnce
<1> QED
  BY <1>2, <1>5, <1>6, <1>7

LEMMA GuestStep == GuestInv /\ [Next]_vars => GuestInv' /\ MarksStay
<1> SUFFICES ASSUME GuestInv, [Next]_vars
             PROVE  GuestInv' /\ MarksStay
  OBVIOUS
<1>1. ASSUME NEW w \in Workers, Ask(w)
      PROVE  GuestInv' /\ MarksStay
  BY <1>1, AskKeeps, HandledMarksStay
<1>2. ASSUME NEW w \in Workers, Commit(w) \/ Abort(w)
      PROVE  GuestInv' /\ MarksStay
  <2>1. CASE \E g \in GuestOrderIds : Settle(w, g)
    BY <2>1, SettleKeeps DEF Settle
  <2>2. CASE NotifyClaim(w)
    BY <2>2, NotifyClaimKeeps, HandledMarksStay
  <2>3. CASE \/ CommitSubmit(w) \/ CommitStatus(w) \/ CommitDelivery(w) \/ CommitMerge(w)
             \/ CommitUpload(w) \/ CommitInitiate(w) \/ CommitReview(w)
             \/ CommitOpen(w) \/ CommitClose(w) \/ Abort(w)
    <3>1. TypeOK' /\ Ends(w)
      BY <2>3, CommitEnds
    <3>2. GuestInv'
      BY <3>1, EndKeeps
    <3> QED
      BY <3>1, <3>2, HandledMarksStay DEF Ends
  <2> QED
    BY <1>2, <2>1, <2>2, <2>3 DEF Commit
<1>3. ASSUME NEW w \in Workers, NEW g \in GuestOrderIds, NotifyRead(w, g)
      PROVE  GuestInv' /\ MarksStay
  BY <1>3, NotifyReadKeeps, HandledMarksStay
<1>4. CASE \/ \E g \in GuestOrderIds : Capture(g)
           \/ \E s \in Sessions : Lapse(s)
           \/ UNCHANGED vars
  BY <1>4, OthersKeep, HandledMarksStay
<1> QED
  BY <1>1, <1>2, <1>3, <1>4 DEF Next

LEMMA GuestInvariant == Spec => []GuestInv
BY GuestInit, GuestStep, PTL DEF Spec

---------------------------------------------------------------------------
(* The theorems.                                                           *)

(* The rows of guest orders, of the table and of the listing keep their    *)
(* types, whatever requests overlap (the models of guest_orders.py,        *)
(* marketplace_payments.py and public_marketplace.py).                     *)
THEOREM GuestOrdersTypes == Spec => []TypeOK
BY GuestInvariant, PTL DEF GuestInv

(* However often the gateway notifies, an order's points are settled once, *)
(* and for money taken (the conditional UPDATE of ecpay_webhook).          *)
THEOREM SettledOnceAlways == Spec => []SettledOnce
BY GuestInvariant, PTL DEF GuestInv

(* Nothing that staff or a customer does to an order takes the marks of    *)
(* its payment away (the columns that ecpay_webhook writes).               *)
THEOREM PaymentSurvivesAlways == Spec => PaymentSurvives
<1> DEFINE Survives ==
      \A g \in GuestOrderIds :
        Exists(g) => /\ guest[g].paid => guest'[g].paid
                     /\ guest[g].settled => guest'[g].settled
<1>1. GuestInv /\ [Next]_vars => [Survives]_vars
  <2> SUFFICES ASSUME GuestInv, [Next]_vars
               PROVE  Survives
    OBVIOUS
  <2>1. \A g \in GuestOrderIds : Exists(g) => HasARow(g)
    BY DEF GuestInv, TypeOK, Exists, HasARow
  <2> QED
    BY <2>1, GuestStep DEF MarksStay
<1> QED
  BY <1>1, GuestInvariant, PTL DEF Spec, PaymentSurvives

=============================================================================
