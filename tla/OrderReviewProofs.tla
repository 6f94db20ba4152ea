------------------------- MODULE OrderReviewProofs -------------------------
(***************************************************************************)
(* What OrderReview guarantees for any number of orders, refunds and       *)
(* requests that overlap, and what the reports of Reports say about it of  *)
(* requests one at a time; with the sums over finite sets that reports and *)
(* settlements need.  Last, with the same sums, that the items of an       *)
(* invoice make up what was paid (BookstoreShop).                          *)
(***************************************************************************)
EXTENDS BackOffice, SequenceTheorems, FiniteSetTheorems, WellFoundedInduction, TLAPS

---------------------------------------------------------------------------
(* The inductive invariant.                                                *)

(* The order that a session is about.                                      *)
About(s) == IF s.op \in OrderOps THEN s.of ELSE OrderOf(s.of)

(* A session that sells is about an order that is not stored yet, and      *)
(* alone; every other one is about an order that is.                       *)
SellsTheNew ==
  /\ \A w \in Workers : session[w] # Idle =>
       (session[w].op = "sell" <=> order[About(session[w])].status = "none")
  /\ \A v, w \in Workers : session[v].op = "sell" /\ session[w].op = "sell" => v = w

(* An order that was read in another state than paid is not paid again.    *)
NotPaidAgain ==
  \A w \in Workers : session[w] # Idle /\ session[w].op # "sell" =>
    (order[About(session[w])].status = "paid" => session[w].read.status = "paid")

(* What is under review is of an order that is stored.                     *)
ReviewIsOfStored ==
  /\ \A r \in Refunds : refund[r] # "none" => order[OrderOf(r)].status # "none"
  /\ \A o \in Orders : order[o].void # "none" => order[o].status # "none"

(* Nothing is booked of an order before its sale or while it is paid.      *)
NothingBookedYet ==
  \A o \in Orders : order[o].status \in {"none", "paid"} =>
    booked[o] = 0 /\ \A r \in RefundsOf(o) : booked[r] = 0

ReviewInv ==
  /\ TypeOK
  /\ SellsTheNew /\ NotPaidAgain /\ ReviewIsOfStored
  /\ NothingBookedYet /\ ApprovedIsBooked

(* Of requests one at a time: what a session decided by is still so.       *)
DecidedByWhatIs ==
  \A w \in Workers :
    /\ session[w].op = "approve" => refund[session[w].of] = "pending"
    /\ session[w].op = "refundNow" => refund[session[w].of] = "none"

---------------------------------------------------------------------------
(* Sessions.                                                               *)

Kinds == OrderOps \cup RefundOps

(* A session that is open is about a row and about an order.               *)
LEMMA SessionType ==
  ASSUME TypeOK, NEW w \in Workers, session[w] # Idle
  PROVE  /\ session[w].op \in Kinds /\ session[w].op # "none"
         /\ session[w].op \in OrderOps => session[w].of \in Orders
         /\ session[w].op \in RefundOps => session[w].of \in Refunds
         /\ session[w].read \in Order
         /\ session[w].flushed \in BOOLEAN
         /\ session[w].level \in Int
         /\ About(session[w]) \in Orders
<1>1. \/ session[w] \in [op : OrderOps, of : Orders, read : Order, flushed : BOOLEAN, level : Int]
      \/ session[w] \in [op : RefundOps, of : Refunds, read : Order, flushed : BOOLEAN, level : Int]
  BY DEF TypeOK, Session
<1>2. OrderOps \cap RefundOps = {}
  BY DEF OrderOps, RefundOps
<1>3. session[w].op \in Kinds => session[w].op # "none"
  BY DEF Kinds, OrderOps, RefundOps
<1> QED
  BY <1>1, <1>2, <1>3, RefundType DEF Kinds, About

(* A request begins at its order, a sale at a new one while there is no    *)
(* other sale.                                                             *)
Begins(w, op, x, o) ==
  /\ Begin(w, op, x, o)
  /\ \/ op \in OrderOps /\ x \in Orders /\ o = x
     \/ op \in RefundOps /\ x \in Refunds /\ o = OrderOf(x)
  /\ op = "sell" <=> order[o].status = "none"
  /\ op = "sell" => \A v \in Workers : session[v].op # "sell"

(* What begins is one of the requests.                                     *)
LEMMA RequestBegins ==
  ASSUME ReviewInv, NEW w \in Workers,
         \/ \E o \in Orders : Sell(w, o) \/ ApproveVoid(w, o) \/ RejectVoid(w, o)
         \/ \E o \in Orders, now \in BOOLEAN : RequestVoid(w, o, now)
         \/ \E r \in Refunds : ApproveRefund(w, r) \/ RejectRefund(w, r)
         \/ \E r \in Refunds, now \in BOOLEAN : RefundOrder(w, r, now)
  PROVE  \E op \in Kinds, x \in Orders \cup Refunds, o \in Orders : Begins(w, op, x, o)
<1> USE DEF ReviewInv, ReviewIsOfStored, Begins, Kinds, OrderOps, RefundOps
<1>1. ASSUME NEW o \in Orders, Sell(w, o)
      PROVE  Begins(w, "sell", o, o)
  BY <1>1 DEF Sell
<1>2. ASSUME NEW o \in Orders, ApproveVoid(w, o)
      PROVE  Begins(w, "approveVoid", o, o)
  BY <1>2 DEF ApproveVoid
<1>3. ASSUME NEW o \in Orders, RejectVoid(w, o)
      PROVE  Begins(w, "rejectVoid", o, o)
  BY <1>3 DEF RejectVoid
<1>4. ASSUME NEW o \in Orders, NEW now \in BOOLEAN, RequestVoid(w, o, now)
      PROVE  Begins(w, IF now THEN "voidNow" ELSE "askVoid", o, o)
  BY <1>4 DEF RequestVoid
<1>5. ASSUME NEW r \in Refunds, ApproveRefund(w, r)
      PROVE  Begins(w, "approve", r, OrderOf(r))
  BY <1>5 DEF ApproveRefund
<1>6. ASSUME NEW r \in Refunds, RejectRefund(w, r)
      PROVE  Begins(w, "reject", r, OrderOf(r))
  BY <1>6 DEF RejectRefund
<1>7. ASSUME NEW r \in Refunds, NEW now \in BOOLEAN, RefundOrder(w, r, now)
      PROVE  Begins(w, IF now THEN "refundNow" ELSE "file", r, OrderOf(r))
  BY <1>7 DEF RefundOrder, Refundable
<1> HIDE DEF Begins
<1>8. \A r \in Refunds : OrderOf(r) \in Orders
  BY RefundType
<1> QED
  BY <1>1, <1>2, <1>3, <1>4, <1>5, <1>6, <1>7, <1>8

(* What a new session reads is so.                                         *)
LEMMA BeginKeeps ==
  ASSUME ReviewInv, NEW w \in Workers, NEW op \in Kinds,
         NEW x \in Orders \cup Refunds, NEW o \in Orders, Begins(w, op, x, o)
  PROVE  ReviewInv'
<1> DEFINE s == [op |-> op, of |-> x, read |-> order[o], flushed |-> FALSE, level |-> 0]
<1> USE DEF ReviewInv
<1>1. session' = [session EXCEPT ![w] = s] /\ UNCHANGED <<order, refund, onHand, ledger, booked>>
  BY DEF Begins, Begin
<1>2. s \in Session /\ s # Idle /\ About(s) = o
  <2>1. order[o] \in Order /\ op # "none"
    BY DEF TypeOK, Kinds, OrderOps, RefundOps
  <2>2. op \in RefundOps => op \notin OrderOps
    BY DEF OrderOps, RefundOps
  <2> QED
    BY <2>1, <2>2 DEF Session, Begins, About, Idle
<1>3. \A v \in Workers : session'[v] = IF v = w THEN s ELSE session[v]
  BY <1>1 DEF TypeOK
<1>4. TypeOK'
  BY <1>1, <1>2 DEF TypeOK
<1>5. SellsTheNew'
  BY <1>1, <1>2, <1>3 DEF SellsTheNew, Begins
<1>6. NotPaidAgain'
  BY <1>1, <1>2, <1>3 DEF NotPaidAgain
<1>7. ReviewIsOfStored' /\ NothingBookedYet' /\ ApprovedIsBooked'
  BY <1>1 DEF ReviewIsOfStored, NothingBookedYet, ApprovedIsBooked
<1> QED
  BY <1>4, <1>5, <1>6, <1>7

(* A session ends, or goes on as what it was, and nothing is written.      *)
LEMMA SessionKeeps ==
  ASSUME ReviewInv, NEW w \in Workers, NEW s \in Session,
         \/ s = Idle
         \/ session[w] # Idle /\ s.op = session[w].op /\ s.of = session[w].of
              /\ s.read = session[w].read,
         session' = [session EXCEPT ![w] = s],
         UNCHANGED <<order, refund, onHand, ledger, booked>>
  PROVE  ReviewInv'
<1> USE DEF ReviewInv
<1>1. \A v \in Workers : session'[v] = IF v = w THEN s ELSE session[v]
  BY DEF TypeOK
<1>2. TypeOK'
  BY DEF TypeOK
<1>3. SellsTheNew' /\ NotPaidAgain'
  BY <1>1 DEF SellsTheNew, NotPaidAgain, About, Idle
<1>4. ReviewIsOfStored' /\ NothingBookedYet' /\ ApprovedIsBooked'
  BY DEF ReviewIsOfStored, NothingBookedYet, ApprovedIsBooked
<1> QED
  BY <1>2, <1>3, <1>4

---------------------------------------------------------------------------
(* Commits.                                                                *)

(* A commit that keeps stored orders stored, and paid orders to those that *)
(* were, keeps what the other sessions rely on.                            *)
LEMMA OthersKeep ==
  ASSUME ReviewInv, NEW w \in Workers, session' = [session EXCEPT ![w] = Idle],
         \A o \in Orders : order'[o].status = "none" <=> order[o].status = "none",
         \A o \in Orders : order'[o].status = "paid" => order[o].status = "paid"
  PROVE  SellsTheNew' /\ NotPaidAgain'
<1> USE DEF ReviewInv
<1>1. ASSUME NEW v \in Workers, session'[v] # Idle
      PROVE  session'[v] = session[v] /\ About(session[v]) \in Orders
  BY <1>1, SessionType DEF TypeOK
<1>2. SellsTheNew'
  BY <1>1 DEF SellsTheNew, About, Idle
<1>3. NotPaidAgain'
  BY <1>1 DEF NotPaidAgain, About
<1> QED
  BY <1>2, <1>3

LEMMA RefundKeeps ==
  ASSUME ReviewInv, NEW w \in Workers, CommitRefund(w),
         session' = [session EXCEPT ![w] = Idle]
  PROVE  ReviewInv'
<1> USE DEF ReviewInv
<1>1. session[w] # Idle /\ session[w].op \in RefundOps \ OrderOps
  BY DEF CommitRefund, Idle, OrderOps, RefundOps
<1> PICK r \in Refunds : r = session[w].of
  BY <1>1, SessionType
<1> PICK o \in Orders : o = OrderOf(r)
  BY RefundType
<1> PICK read \in Order : read = session[w].read
  BY <1>1, SessionType
<1>2. About(session[w]) = o
  BY <1>1 DEF About
<1>3. /\ refund' = [refund EXCEPT ![r] = "approved"]
      /\ order' = [order EXCEPT ![o] = Refunded(@, read, Amount(r), Total(o))]
      /\ onHand' = session[w].level + Amount(r) /\ ledger' = ledger + Amount(r)
      /\ booked' = [booked EXCEPT ![r] = @ + 1]
  BY DEF CommitRefund, Move
<1>4. /\ Amount(r) \in Nat /\ session[w].level \in Int
      /\ read.refunded + Amount(r) \in Nat
  BY <1>1, RefundType, TotalType, SessionType DEF Order
<1>5. order'[o] = Refunded(order[o], read, Amount(r), Total(o)) /\ order[o] \in Order
  BY <1>3 DEF TypeOK
<1>6. order'[o] \in Order /\ order'[o].void = order[o].void
  BY <1>4, <1>5 DEF Refunded, Order
<1>7. order[o].status # "none" /\ (order[o].status = "paid" => read.status = "paid")
  BY <1>1, <1>2 DEF SellsTheNew, NotPaidAgain, RefundOps
<1>8. order'[o].status \notin {"none", "paid"}
  BY <1>5, <1>7 DEF Refunded, Order
<1>9. \A i \in Orders \ {o} : order'[i] = order[i]
  BY <1>3 DEF TypeOK
<1>10. TypeOK'
  BY <1>3, <1>4, <1>6 DEF TypeOK, Session
<1>11. SellsTheNew' /\ NotPaidAgain'
  BY <1>7, <1>8, <1>9, OthersKeep
<1>12. ReviewIsOfStored'
  BY <1>3, <1>7, <1>8, <1>9 DEF ReviewIsOfStored, TypeOK
<1>13. NothingBookedYet'
  BY <1>3, <1>8, <1>9, RefundsAreNotOrders DEF NothingBookedYet, RefundsOf, TypeOK
<1>14. ApprovedIsBooked'
  BY <1>3 DEF ApprovedIsBooked, TypeOK
<1> QED
  BY <1>10, <1>11, <1>12, <1>13, <1>14

(* A refund is filed, or turned down.                                      *)
LEMMA ReviewKeeps ==
  ASSUME ReviewInv, NEW w \in Workers, CommitFile(w) \/ CommitReject(w),
         session' = [session EXCEPT ![w] = Idle]
  PROVE  ReviewInv'
<1> USE DEF ReviewInv
<1>1. session[w] # Idle /\ session[w].op \in {"file", "reject"}
  BY DEF CommitFile, CommitReject, Idle
<1> PICK r \in Refunds : r = session[w].of
  BY <1>1, SessionType DEF RefundOps
<1>2. /\ \/ refund' = [refund EXCEPT ![r] = IF @ = "none" THEN "pending" ELSE @]
         \/ refund' = [refund EXCEPT ![r] = "rejected"]
      /\ UNCHANGED <<order, onHand, ledger, booked>>
  BY DEF CommitFile, CommitReject, NoMove
<1>3. TypeOK'
  BY <1>2 DEF TypeOK, Session
<1>4. SellsTheNew' /\ NotPaidAgain'
  BY <1>2, OthersKeep
<1>5. order[OrderOf(r)].status # "none"
  BY <1>1 DEF SellsTheNew, About, OrderOps
<1>6. ReviewIsOfStored' /\ NothingBookedYet'
  BY <1>2, <1>5 DEF ReviewIsOfStored, NothingBookedYet, TypeOK
<1>7. ApprovedIsBooked'
  BY <1>2 DEF ApprovedIsBooked, TypeOK
<1> QED
  BY <1>3, <1>4, <1>6, <1>7

LEMMA VoidKeeps ==
  ASSUME ReviewInv, NEW w \in Workers, CommitVoid(w),
         session' = [session EXCEPT ![w] = Idle]
  PROVE  ReviewInv'
<1> USE DEF ReviewInv
<1>1. session[w] # Idle /\ session[w].op \in {"voidNow", "approveVoid"}
  BY DEF CommitVoid, Idle
<1> PICK o \in Orders : o = session[w].of
  BY <1>1, SessionType DEF OrderOps
<1>2. /\ order' = [order EXCEPT ![o].status = "voided", ![o].void = "approved"]
      /\ onHand' = session[w].level + Total(o) /\ ledger' = ledger + Total(o)
      /\ booked' = [booked EXCEPT ![o] = @ + 1]
      /\ UNCHANGED refund
  BY DEF CommitVoid, Move
<1>3. Total(o) \in Nat /\ session[w].level \in Int
  BY <1>1, TotalType, SessionType
<1> DEFINE voided == [order[o] EXCEPT !.status = "voided", !.void = "approved"]
<1>4. voided \in Order /\ voided.status = "voided" /\ order' = [order EXCEPT ![o] = voided]
  BY <1>2 DEF TypeOK, Order
<1> HIDE DEF voided
<1>5. order'[o] = voided /\ \A i \in Orders \ {o} : order'[i] = order[i]
  BY <1>4 DEF TypeOK
<1>6. order[o].status # "none"
  BY <1>1 DEF SellsTheNew, About, OrderOps
<1>7. TypeOK'
  BY <1>2, <1>3, <1>4 DEF TypeOK, Session
<1>8. SellsTheNew' /\ NotPaidAgain'
  BY <1>4, <1>5, <1>6, OthersKeep
<1>9. ReviewIsOfStored'
  BY <1>2, <1>4, <1>5, RefundType DEF ReviewIsOfStored
<1>10. NothingBookedYet' /\ ApprovedIsBooked'
  BY <1>2, <1>4, <1>5, RefundsAreNotOrders
  DEF NothingBookedYet, ApprovedIsBooked, RefundsOf, TypeOK
<1> QED
  BY <1>7, <1>8, <1>9, <1>10

LEMMA AskVoidKeeps ==
  ASSUME ReviewInv, NEW w \in Workers, CommitAskVoid(w),
         session' = [session EXCEPT ![w] = Idle]
  PROVE  ReviewInv'
<1> USE DEF ReviewInv
<1>1. session[w] # Idle /\ session[w].op \in {"askVoid", "rejectVoid"}
  BY DEF CommitAskVoid, Idle
<1> PICK o \in Orders : o = session[w].of
  BY <1>1, SessionType DEF OrderOps
<1> PICK void \in {"pending", "rejected"} : order' = [order EXCEPT ![o].void = void]
  BY DEF CommitAskVoid
<1>2. UNCHANGED <<refund, onHand, ledger, booked>>
  BY DEF CommitAskVoid, NoMove
<1>3. order'[o] \in Order /\ \A i \in Orders : order'[i].status = order[i].status
  BY DEF TypeOK, Order
<1>4. \A i \in Orders \ {o} : order'[i] = order[i]
  BY DEF TypeOK
<1>5. order[o].status # "none"
  BY <1>1 DEF SellsTheNew, About, OrderOps
<1>6. TypeOK'
  BY <1>2, <1>3 DEF TypeOK, Session
<1>7. SellsTheNew' /\ NotPaidAgain'
  BY <1>3, OthersKeep
<1>8. ReviewIsOfStored'
  BY <1>2, <1>3, <1>4, <1>5, RefundType DEF ReviewIsOfStored
<1>9. NothingBookedYet' /\ ApprovedIsBooked'
  BY <1>2, <1>3 DEF NothingBookedYet, ApprovedIsBooked
<1> QED
  BY <1>6, <1>7, <1>8, <1>9

(* The order of a sale is new to every other session, for it is the only   *)
(* one that may be about an order that is not stored.                      *)
LEMMA SellKeeps ==
  ASSUME ReviewInv, NEW w \in Workers, CommitSell(w),
         session' = [session EXCEPT ![w] = Idle]
  PROVE  ReviewInv'
<1> USE DEF ReviewInv
<1>1. session[w] # Idle /\ session[w].op = "sell"
  BY DEF CommitSell, Idle
<1> PICK o \in Orders : o = session[w].of
  BY <1>1, SessionType DEF OrderOps
<1>2. /\ order' = [order EXCEPT ![o].status = "paid"]
      /\ onHand' = session[w].level - Total(o) /\ ledger' = ledger - Total(o)
      /\ UNCHANGED <<refund, booked>>
  <2>1. Total(o) \in Nat /\ session[w].level \in Int /\ ledger \in Int
    BY <1>1, TotalType, SessionType DEF TypeOK
  <2> QED
    BY <2>1 DEF CommitSell, Move
<1>3. Total(o) \in Nat /\ session[w].level \in Int
  BY <1>1, TotalType, SessionType
<1>4. order'[o] \in Order /\ order'[o].status = "paid" /\ order'[o].void = order[o].void
  BY <1>2 DEF TypeOK, Order
<1>5. \A i \in Orders \ {o} : order'[i] = order[i]
  BY <1>2 DEF TypeOK
<1>6. order[o].status = "none"
  BY <1>1 DEF SellsTheNew, About, OrderOps
<1>7. TypeOK'
  BY <1>2, <1>3, <1>4 DEF TypeOK, Session
<1>8. ASSUME NEW v \in Workers, session'[v] # Idle
      PROVE  /\ session'[v] = session[v] /\ session[v].op # "sell"
             /\ About(session[v]) \in Orders \ {o}
  <2>1. v # w /\ session'[v] = session[v]
    BY <1>8 DEF TypeOK
  <2>2. session[v].op # "sell"
    BY <1>1, <2>1 DEF SellsTheNew
  <2> QED
    BY <1>6, <1>8, <2>1, <2>2, SessionType DEF SellsTheNew
<1>9. SellsTheNew' /\ NotPaidAgain'
  BY <1>5, <1>8 DEF SellsTheNew, NotPaidAgain, About, Idle
<1>10. ReviewIsOfStored'
  BY <1>2, <1>4, <1>5 DEF ReviewIsOfStored
<1>11. NothingBookedYet' /\ ApprovedIsBooked'
  BY <1>2, <1>5, <1>6 DEF NothingBookedYet, ApprovedIsBooked
<1> QED
  BY <1>7, <1>9, <1>10, <1>11

---------------------------------------------------------------------------
(* The theorems.                                                           *)

LEMMA ReviewInit == Init => ReviewInv
BY DEF Init, ReviewInv, TypeOK, SellsTheNew, NotPaidAgain, ReviewIsOfStored,
       NothingBookedYet, ApprovedIsBooked, NoOrder, Order, Session, Idle, RefundsOf

LEMMA ReviewStep == ReviewInv /\ [Next]_vars => ReviewInv'
<1> SUFFICES ASSUME ReviewInv, [Next]_vars
             PROVE  ReviewInv'
  OBVIOUS
<1>1. ASSUME NEW w \in Workers,
             \/ \E o \in Orders : Sell(w, o) \/ ApproveVoid(w, o) \/ RejectVoid(w, o)
             \/ \E o \in Orders, now \in BOOLEAN : RequestVoid(w, o, now)
             \/ \E r \in Refunds : ApproveRefund(w, r) \/ RejectRefund(w, r)
             \/ \E r \in Refunds, now \in BOOLEAN : RefundOrder(w, r, now)
      PROVE  ReviewInv'
  BY <1>1, RequestBegins, BeginKeeps
<1>2. ASSUME NEW w \in Workers, ReadLevel(w)
      PROVE  ReviewInv'
  <2> DEFINE s == session[w]
             read == [s EXCEPT !.flushed = TRUE, !.level = onHand]
  <2>1. s # Idle /\ TypeOK /\ onHand \in Int
    BY <1>2 DEF ReadLevel, ReviewInv, TypeOK
  <2>2. /\ read \in Session
        /\ read.op = s.op /\ read.of = s.of /\ read.read = s.read
    BY <2>1 DEF Session, TypeOK
  <2>3. /\ session' = [session EXCEPT ![w] = Idle] \/ session' = [session EXCEPT ![w] = read]
        /\ UNCHANGED <<order, refund, onHand, ledger, booked>>
    BY <1>2 DEF ReadLevel
  <2>4. Idle \in Session
    BY DEF Session
  <2> HIDE DEF read
  <2> QED
    BY <2>1, <2>2, <2>3, <2>4, SessionKeeps
<1>3. ASSUME NEW w \in Workers, Commit(w)
      PROVE  ReviewInv'
  BY <1>3, RefundKeeps, ReviewKeeps, VoidKeeps, AskVoidKeeps, SellKeeps DEF Commit
<1>4. ASSUME NEW w \in Workers, Abort(w)
      PROVE  ReviewInv'
  <2>1. Idle \in Session
    BY DEF Session
  <2> QED
    BY <1>4, <2>1, SessionKeeps DEF Abort
<1>5. CASE UNCHANGED vars
  BY <1>5 DEF vars, ReviewInv, TypeOK, SellsTheNew, NotPaidAgain, ReviewIsOfStored,
              NothingBookedYet, ApprovedIsBooked
<1> QED
  BY <1>1, <1>2, <1>3, <1>4, <1>5 DEF Next

LEMMA ReviewAlways == Spec => []ReviewInv
<1>1. Init => ReviewInv
  BY ReviewInit
<1>2. ReviewInv /\ [Next]_vars => ReviewInv'
  BY ReviewStep
<1> QED
  BY <1>1, <1>2, PTL DEF Spec

(* The rows and the sessions keep their types.                             *)
THEOREM OrderReviewTypes == Spec => []TypeOK
<1>1. ReviewInv => TypeOK
  BY DEF ReviewInv
<1> QED
  BY <1>1, ReviewAlways, PTL

(* Whatever requests overlap, an order that reads as paid has had nothing  *)
(* given back: a refund that was decided by an older state of the order    *)
(* never makes it read as paid again.                                      *)
THEOREM NothingBookedWhilePaidAlways == Spec => []NothingBookedWhilePaid
<1>1. ReviewInv => NothingBookedWhilePaid
  BY DEF ReviewInv, NothingBookedYet, NothingBookedWhilePaid
<1> QED
  BY <1>1, ReviewAlways, PTL

(* A refund that reads as approved has its movements, and one that has     *)
(* them is never open again.                                               *)
THEOREM ApprovedIsBookedAlways == Spec => []ApprovedIsBooked
<1>1. ReviewInv => ApprovedIsBooked
  BY DEF ReviewInv
<1> QED
  BY <1>1, ReviewAlways, PTL

---------------------------------------------------------------------------
(* Requests one at a time.                                                 *)

LEMMA OneAtATimeStep ==
  ASSUME NEW w, Workers = {w}
  PROVE  ReviewInv /\ DecidedByWhatIs /\ BookedOnce /\ [Next]_vars
           => DecidedByWhatIs' /\ BookedOnce'
<1> SUFFICES ASSUME ReviewInv, DecidedByWhatIs, BookedOnce, [Next]_vars
             PROVE  DecidedByWhatIs' /\ BookedOnce'
  OBVIOUS
<1> USE DEF ReviewInv
<1>1. ASSUME NEW op \in Kinds, NEW x, NEW o, Begin(w, op, x, o),
             op = "approve" => refund[x] = "pending",
             op = "refundNow" => refund[x] = "none"
      PROVE  DecidedByWhatIs' /\ BookedOnce'
  BY <1>1 DEF Begin, DecidedByWhatIs, BookedOnce, TypeOK
<1>2. ASSUME NEW o \in Orders, Sell(w, o) \/ ApproveVoid(w, o) \/ RejectVoid(w, o)
      PROVE  DecidedByWhatIs' /\ BookedOnce'
  BY <1>1, <1>2 DEF Sell, ApproveVoid, RejectVoid, Kinds, OrderOps
<1>3. ASSUME NEW o \in Orders, NEW now \in BOOLEAN, RequestVoid(w, o, now)
      PROVE  DecidedByWhatIs' /\ BookedOnce'
  BY <1>1, <1>3 DEF RequestVoid, Kinds, OrderOps
<1>4. ASSUME NEW r \in Refunds, ApproveRefund(w, r) \/ RejectRefund(w, r)
      PROVE  DecidedByWhatIs' /\ BookedOnce'
  BY <1>1, <1>4 DEF ApproveRefund, RejectRefund, Kinds, RefundOps
<1>5. ASSUME NEW r \in Refunds, NEW now \in BOOLEAN, RefundOrder(w, r, now)
      PROVE  DecidedByWhatIs' /\ BookedOnce'
  BY <1>1, <1>5 DEF RefundOrder, Kinds, RefundOps
<1>6. CASE ReadLevel(w)
  <2> DEFINE read == [session[w] EXCEPT !.flushed = TRUE, !.level = onHand]
  <2>1. session[w] # Idle
    BY <1>6 DEF ReadLevel
  <2>2. read.op = session[w].op /\ read.of = session[w].of
    BY <2>1 DEF TypeOK, Session
  <2>3. /\ session' = [session EXCEPT ![w] = Idle] \/ session' = [session EXCEPT ![w] = read]
        /\ UNCHANGED <<refund, booked>>
    BY <1>6 DEF ReadLevel
  <2> HIDE DEF read
  <2> QED
    BY <2>2, <2>3 DEF DecidedByWhatIs, BookedOnce, Idle, TypeOK
<1>7. CASE Commit(w)
  <2>1. DecidedByWhatIs'
    BY <1>7 DEF Commit, DecidedByWhatIs, Idle, TypeOK
  <2>2. CASE CommitRefund(w)
    <3>1. session[w] # Idle /\ session[w].op \in {"refundNow", "approve"}
      BY <2>2 DEF CommitRefund, Idle
    <3> PICK r \in Refunds : r = session[w].of
      BY <3>1, SessionType DEF RefundOps
    <3>2. booked[r] = 0
      BY <3>1 DEF DecidedByWhatIs, ApprovedIsBooked, TypeOK
    <3>3. booked' = [booked EXCEPT ![r] = @ + 1]
      BY <2>2 DEF CommitRefund
    <3>4. BookedOnce'
      BY <3>2, <3>3 DEF BookedOnce, TypeOK
    <3> QED
      BY <2>1, <3>4
  <2>3. CASE CommitVoid(w)
    <3>1. session[w] # Idle /\ session[w].op \in OrderOps
      BY <2>3 DEF CommitVoid, Idle, OrderOps
    <3> PICK o \in Orders : o = session[w].of
      BY <3>1, SessionType
    <3>2. booked' = [booked EXCEPT ![o] = @ + 1]
      BY <2>3 DEF CommitVoid
    <3>3. BookedOnce'
      BY <3>2, RefundsAreNotOrders DEF BookedOnce, TypeOK
    <3> QED
      BY <2>1, <3>3
  <2>4. CASE CommitFile(w) \/ CommitReject(w) \/ CommitAskVoid(w) \/ CommitSell(w)
    BY <2>1, <2>4 DEF CommitFile, CommitReject, CommitAskVoid, CommitSell, NoMove, BookedOnce
  <2> QED
    BY <1>7, <2>2, <2>3, <2>4 DEF Commit
<1>8. CASE Abort(w)
  BY <1>8 DEF Abort, DecidedByWhatIs, BookedOnce, Idle, TypeOK
<1>9. CASE UNCHANGED vars
  BY <1>9 DEF vars, DecidedByWhatIs, BookedOnce
<1> QED
  BY <1>2, <1>3, <1>4, <1>5, <1>6, <1>7, <1>8, <1>9 DEF Next

(* Of requests that are handled one at a time, each finds its refund as it *)
(* read it when it commits, and so the effects of a refund are booked at   *)
(* most once; it takes two at a time to book them again.                   *)
THEOREM BookedOnceInTurn ==
  ASSUME NEW w, Workers = {w}
  PROVE  Spec => []BookedOnce
<1>1. Init => DecidedByWhatIs /\ BookedOnce
  BY DEF Init, DecidedByWhatIs, BookedOnce, Idle
<1>2. ReviewInv /\ DecidedByWhatIs /\ BookedOnce /\ [Next]_vars
        => DecidedByWhatIs' /\ BookedOnce'
  BY OneAtATimeStep
<1> QED
  BY <1>1, <1>2, ReviewAlways, PTL DEF Spec

---------------------------------------------------------------------------
(* Induction, on a set of naturals and on a set of finite sets.            *)
LEMMA LeastOfNaturals ==
  ASSUME NEW T \in SUBSET Nat, T # {}
  PROVE  \E n \in T : \A m \in T : n <= m
<1> DEFINE R == OpToRel(<, Nat)
<1>1. IsWellFoundedOn(R, Nat)
  BY NatLessThanWellFounded, Zenon
<1>2. \A m, n \in Nat : m < n => <<m, n>> \in R
  BY DEF OpToRel
<1> HIDE DEF R
<1>3. PICK n \in T : \A m \in T : <<m, n>> \notin R
  BY <1>1, WFMin
<1>4. \A m \in T : ~(m < n)
  BY <1>2, <1>3
<1> QED
  BY <1>4

LEMMA NaturalsInduct ==
  ASSUME NEW good, 0 \in good, \A n \in Nat : n \in good => n + 1 \in good
  PROVE  \A n \in Nat : n \in good
<1> SUFFICES ASSUME {n \in Nat : n \notin good} # {} PROVE FALSE
  OBVIOUS
<1>1. PICK n \in {k \in Nat : k \notin good} : \A m \in {k \in Nat : k \notin good} : n <= m
  BY LeastOfNaturals
<1>2. n # 0 /\ n - 1 \in Nat /\ n - 1 \in good
  BY <1>1
<1>3. (n - 1) + 1 \in good
  BY <1>2
<1> QED
  BY <1>1, <1>3

LEMMA SubsetsInduct ==
  ASSUME NEW S, IsFiniteSet(S), NEW good, {} \in good,
         \A T \in SUBSET S : T # {} /\ (\A x \in T : T \ {x} \in good) => T \in good
  PROVE  \A T \in SUBSET S : T \in good
<1> DEFINE bad == {T \in SUBSET S : T \notin good}
<1> SUFFICES ASSUME bad # {} PROVE FALSE
  OBVIOUS
<1>1. IsWellFoundedOn(StrictSubsetOrdering(S), SUBSET S)
  BY FS_StrictSubsetOrderingWellFounded, FS_FiniteSubsetsOfFinite
<1>2. PICK T \in bad : \A U \in bad : <<U, T>> \notin StrictSubsetOrdering(S)
  <2> HIDE DEF bad
  <2>1. bad \subseteq SUBSET S
    BY DEF bad
  <2> QED
    BY <1>1, <2>1, WFMin
<1>3. ASSUME NEW x \in T PROVE T \ {x} \in good
  <2>1. <<T \ {x}, T>> \in StrictSubsetOrdering(S)
    BY DEF StrictSubsetOrdering
  <2> QED
    BY <1>2, <2>1
<1> QED
  BY <1>2, <1>3

---------------------------------------------------------------------------
(* A sum over a set, taken one element at a time.                          *)
Some(s) == CHOOSE x \in s : TRUE

Sums(iter, f, S) ==
  iter = [s \in SUBSET S |-> IF s = {} THEN 0 ELSE f[Some(s)] + iter[s \ {Some(s)}]]

LEMMA SomeIsOne == ASSUME NEW s, s # {} PROVE Some(s) \in s
BY DEF Some

(* There is such a function.                                               *)
LEMMA SumsExist ==
  ASSUME NEW S, IsFiniteSet(S), NEW f
  PROVE  \E iter : Sums(iter, f, S)
<1> DEFINE Upto(n) == {s \in SUBSET S : Cardinality(s) <= n}
           Is(g, n) == g = [s \in Upto(n) |-> IF s = {} THEN 0 ELSE f[Some(s)] + g[s \ {Some(s)}]]
           good == {n \in Nat : \E g : Is(g, n)}
<1>1. \A s \in SUBSET S : IsFiniteSet(s) /\ Cardinality(s) \in Nat /\ (Cardinality(s) = 0 <=> s = {})
  BY FS_Subset, FS_CardinalityType, FS_EmptySet
<1>2. 0 \in good
  <2>1. Is([s \in Upto(0) |-> 0], 0)
    BY <1>1
  <2> QED
    BY <2>1
<1>3. ASSUME NEW n \in Nat, n \in good PROVE n + 1 \in good
  <2>1. PICK g : Is(g, n)
    BY <1>3
  <2> DEFINE h == [s \in Upto(n + 1) |-> IF s = {} THEN 0 ELSE f[Some(s)] + g[s \ {Some(s)}]]
  <2>2. ASSUME NEW s \in Upto(n + 1), s # {} PROVE h[s \ {Some(s)}] = g[s \ {Some(s)}]
    <3>1. Some(s) \in s
      BY <2>2, SomeIsOne
    <3>2. Cardinality(s \ {Some(s)}) = Cardinality(s) - 1
      BY <1>1, <3>1, FS_RemoveElement
    <3>3. s \ {Some(s)} \in Upto(n) /\ s \ {Some(s)} \in Upto(n + 1)
      BY <1>1, <3>2
    <3> HIDE DEF Upto
    <3> QED
      BY <2>1, <3>3
  <2>3. h = [s \in Upto(n + 1) |-> IF s = {} THEN 0 ELSE f[Some(s)] + h[s \ {Some(s)}]]
    <3> HIDE DEF Upto
    <3> QED
      BY <2>2
  <2> HIDE DEF h
  <2>4. Is(h, n + 1)
    BY <2>3
  <2> HIDE DEF Is
  <2> QED
    BY <2>4
<1>4. Cardinality(S) \in good
  <2> HIDE DEF good
  <2> QED
    BY <1>1, <1>2, <1>3, NaturalsInduct
<1>5. Upto(Cardinality(S)) = SUBSET S
  BY <1>1, FS_Subset
<1>6. PICK g : Is(g, Cardinality(S))
  BY <1>4
<1> HIDE DEF Upto
<1> QED
  BY <1>5, <1>6 DEF Sums

(* What two of them have in common they sum up to the same.                *)
LEMMA SumsAgree ==
  ASSUME NEW A, NEW B, IsFiniteSet(A), NEW f, NEW g, \A x \in A \cap B : f[x] = g[x],
         NEW i, NEW j, Sums(i, f, A), Sums(j, g, B)
  PROVE  \A s \in SUBSET (A \cap B) : i[s] = j[s]
<1> DEFINE both == A \cap B
           good == {s \in SUBSET both : i[s] = j[s]}
<1>1. IsFiniteSet(both)
  BY FS_Subset
<1>2. {} \in good
  BY DEF Sums
<1>3. ASSUME NEW T \in SUBSET both, T # {}, \A x \in T : T \ {x} \in good PROVE T \in good
  <2>1. Some(T) \in T /\ T \ {Some(T)} \in good
    BY <1>3, SomeIsOne
  <2>2. i[T] = f[Some(T)] + i[T \ {Some(T)}] /\ j[T] = g[Some(T)] + j[T \ {Some(T)}]
    BY <1>3 DEF Sums
  <2> QED
    BY <2>1, <2>2
<1> HIDE DEF good, both
<1>4. \A T \in SUBSET both : T \in good
  BY <1>1, <1>2, <1>3, SubsetsInduct
<1> QED
  BY <1>4 DEF good, both

TotalOver(f, S) == (CHOOSE iter : Sums(iter, f, S))[S]

LEMMA TotalIsSum ==
  ASSUME NEW S, IsFiniteSet(S), NEW f, NEW iter, Sums(iter, f, S)
  PROVE  TotalOver(f, S) = iter[S]
<1> DEFINE i == CHOOSE i : Sums(i, f, S)
<1>1. Sums(i, f, S)
  BY SumsExist
<1>2. TotalOver(f, S) = i[S]
  BY DEF TotalOver
<1> HIDE DEF i
<1>3. S \in SUBSET (S \cap S)
  OBVIOUS
<1> QED
  BY <1>1, <1>2, <1>3, SumsAgree

LEMMA TotalOfSame ==
  ASSUME NEW S, IsFiniteSet(S), NEW f, NEW g, \A x \in S : f[x] = g[x]
  PROVE  TotalOver(f, S) = TotalOver(g, S)
<1>1. PICK i : Sums(i, f, S)
  BY SumsExist
<1>2. PICK j : Sums(j, g, S)
  BY SumsExist
<1>3. \A s \in SUBSET (S \cap S) : i[s] = j[s]
  BY <1>1, <1>2, SumsAgree
<1>4. i[S] = j[S]
  BY <1>3
<1>5. TotalOver(f, S) = i[S] /\ TotalOver(g, S) = j[S]
  BY <1>1, <1>2, TotalIsSum
<1> QED
  BY <1>4, <1>5

LEMMA TotalOfNone == ASSUME NEW f PROVE TotalOver(f, {}) = 0
<1>1. IsFiniteSet({})
  BY FS_EmptySet
<1>2. PICK i : Sums(i, f, {})
  BY <1>1, SumsExist
<1>3. i[{}] = 0
  BY <1>2 DEF Sums
<1> QED
  BY <1>1, <1>2, <1>3, TotalIsSum

(* Any element can be taken first.                                         *)
LEMMA TakenFirst ==
  ASSUME NEW S, IsFiniteSet(S), NEW f, \A x \in S : f[x] \in Int, NEW i, Sums(i, f, S)
  PROVE  \A T \in SUBSET S : i[T] \in Int /\ \A x \in T : i[T] = i[T \ {x}] + f[x]
<1> DEFINE good == {T \in SUBSET S : \A U \in SUBSET T :
                     i[U] \in Int /\ \A x \in U : i[U] = i[U \ {x}] + f[x]}
<1>1. {} \in good
  BY DEF Sums
<1>2. ASSUME NEW T \in SUBSET S, T # {}, \A x \in T : T \ {x} \in good PROVE T \in good
  <2>1. ASSUME NEW U \in SUBSET T, U # T
        PROVE  i[U] \in Int /\ \A x \in U : i[U] = i[U \ {x}] + f[x]
    <3>1. PICK x \in T : x \notin U
      BY <2>1
    <3>2. T \ {x} \in good /\ U \in SUBSET (T \ {x})
      BY <1>2, <3>1
    <3> QED
      BY <3>2
  <2> HIDE DEF good
  <2>2. PICK y : y = Some(T)
    OBVIOUS
  <2>3. y \in T /\ f[y] \in Int /\ i[T] = f[y] + i[T \ {y}] /\ i[T \ {y}] \in Int
    BY <1>2, <2>1, <2>2, SomeIsOne DEF Sums
  <2>4. ASSUME NEW x \in T PROVE i[T] = i[T \ {x}] + f[x]
    <3>1. CASE x = y
      BY <2>3, <3>1
    <3>2. CASE x # y
      <4>1. PICK V : V = T \ {x, y} /\ V = (T \ {x}) \ {y} /\ V = (T \ {y}) \ {x}
        OBVIOUS
      <4>2. i[T \ {x}] = i[V] + f[y] /\ i[T \ {x}] \in Int
        BY <2>1, <2>3, <3>2, <4>1
      <4>3. i[T \ {y}] = i[V] + f[x] /\ i[V] \in Int /\ f[x] \in Int
        BY <2>1, <2>3, <3>2, <4>1
      <4> QED
        BY <2>3, <4>2, <4>3
    <3> QED
      BY <3>1, <3>2
  <2>5. i[T] \in Int
    BY <2>3
  <2> QED
    BY <2>1, <2>4, <2>5 DEF good
<1> HIDE DEF good
<1>3. \A T \in SUBSET S : T \in good
  BY <1>1, <1>2, SubsetsInduct
<1> QED
  BY <1>3 DEF good

LEMMA TotalIsInt ==
  ASSUME NEW S, IsFiniteSet(S), NEW f, \A x \in S : f[x] \in Int
  PROVE  TotalOver(f, S) \in Int
<1>1. PICK i : Sums(i, f, S)
  BY SumsExist
<1>2. i[S] \in Int
  BY <1>1, TakenFirst
<1> QED
  BY <1>1, <1>2, TotalIsSum

LEMMA TotalOfMore ==
  ASSUME NEW S, IsFiniteSet(S), NEW f, NEW x, x \notin S, \A y \in S \cup {x} : f[y] \in Int
  PROVE  TotalOver(f, S \cup {x}) = TotalOver(f, S) + f[x]
<1>1. IsFiniteSet(S \cup {x})
  BY FS_AddElement
<1>2. PICK i : Sums(i, f, S \cup {x})
  BY <1>1, SumsExist
<1>3. PICK j : Sums(j, f, S)
  BY SumsExist
<1>4. i[S \cup {x}] = i[(S \cup {x}) \ {x}] + f[x]
  BY <1>1, <1>2, TakenFirst
<1>5. (S \cup {x}) \ {x} = S /\ S \in SUBSET ((S \cup {x}) \cap S)
  OBVIOUS
<1>6. i[S] = j[S]
  BY <1>1, <1>2, <1>3, <1>5, SumsAgree
<1> QED
  BY <1>1, <1>2, <1>3, <1>4, <1>5, <1>6, TotalIsSum

(* One element's amount changes.                                           *)
LEMMA TotalOfChanged ==
  ASSUME NEW S, IsFiniteSet(S), NEW f, NEW g, NEW x \in S,
         \A y \in S : f[y] \in Int /\ g[y] \in Int, \A y \in S \ {x} : g[y] = f[y]
  PROVE  TotalOver(g, S) = TotalOver(f, S) + g[x] - f[x]
<1> DEFINE T == S \ {x}
<1>1. S = T \cup {x} /\ x \notin T /\ T \subseteq S /\ \A y \in T : g[y] = f[y]
  OBVIOUS
<1> HIDE DEF T
<1>2. IsFiniteSet(T)
  BY <1>1, FS_Subset
<1>3. /\ TotalOver(f, T \cup {x}) = TotalOver(f, T) + f[x]
      /\ TotalOver(g, T \cup {x}) = TotalOver(g, T) + g[x]
  <2>1. (\A y \in T \cup {x} : f[y] \in Int) /\ (\A y \in T \cup {x} : g[y] \in Int)
    BY <1>1
  <2>4. x \notin T
    BY <1>1
  <2>2. TotalOver(f, T \cup {x}) = TotalOver(f, T) + f[x]
    BY <1>2, <2>1, <2>4, TotalOfMore, Zenon
  <2>3. TotalOver(g, T \cup {x}) = TotalOver(g, T) + g[x]
    BY <1>2, <2>1, <2>4, TotalOfMore, Zenon
  <2> QED
    BY <2>2, <2>3
<1>4. TotalOver(f, T) = TotalOver(g, T) /\ TotalOver(f, T) \in Int
  BY <1>1, <1>2, TotalOfSame, TotalIsInt
<1>5. f[x] \in Int /\ g[x] \in Int
  OBVIOUS
<1> QED
  BY <1>1, <1>3, <1>4, <1>5
(* What is nothing can be left out.                                        *)
LEMMA TotalOfRest ==
  ASSUME NEW S, IsFiniteSet(S), NEW f, \A x \in S : f[x] \in Int,
         NEW T \in SUBSET S, \A x \in S \ T : f[x] = 0
  PROVE  TotalOver(f, S) = TotalOver(f, T)
<1> DEFINE rest == S \ T
           good == {U \in SUBSET rest : TotalOver(f, T \cup U) = TotalOver(f, T)}
<1>1. IsFiniteSet(rest) /\ IsFiniteSet(T)
  BY FS_Subset
<1>2. {} \in good
  <2>1. T \cup {} = T
    OBVIOUS
  <2> QED
    BY <2>1
<1>3. ASSUME NEW U \in SUBSET rest, U # {}, \A x \in U : U \ {x} \in good PROVE U \in good
  <2>1. PICK x \in U : TRUE
    BY <1>3
  <2>2. PICK V : V = T \cup (U \ {x})
    OBVIOUS
  <2>3. T \cup U = V \cup {x} /\ x \notin V /\ V \cup {x} \subseteq S /\ f[x] = 0
    BY <2>1, <2>2
  <2>4. U \ {x} \in good
    BY <1>3, <2>1
  <2>5. IsFiniteSet(V) /\ \A y \in V : f[y] \in Int
    BY <2>3, FS_Subset
  <2>9. x \notin V /\ \A y \in V \cup {x} : f[y] \in Int
    BY <2>3
  <2>6. TotalOver(f, V \cup {x}) = TotalOver(f, V) + f[x]
    BY <2>5, <2>9, TotalOfMore, Zenon
  <2>7. TotalOver(f, V) = TotalOver(f, T)
    BY <2>2, <2>4
  <2>8. TotalOver(f, V) \in Int
    BY <2>5, TotalIsInt
  <2>10. TotalOver(f, V \cup {x}) = TotalOver(f, T)
    BY <2>3, <2>6, <2>7, <2>8
  <2>11. TotalOver(f, T \cup U) = TotalOver(f, T)
    BY <2>3, <2>10, Zenon
  <2> QED
    BY <2>11
<1>4. rest \in good
  <2> HIDE DEF good, rest
  <2>1. \A U \in SUBSET rest : U \in good
    BY <1>1, <1>2, <1>3, SubsetsInduct
  <2> QED
    BY <2>1
<1>5. T \cup rest = S
  OBVIOUS
<1> QED
  BY <1>4, <1>5

(* The same of a part of the set.                                          *)
LEMMA TotalOfPart ==
  ASSUME NEW S, IsFiniteSet(S), NEW f, \A x \in S : f[x] \in Int
  PROVE  \A T \in SUBSET S :
           /\ TotalOver(f, T) \in Int
           /\ \A x \in S \ T : TotalOver(f, T \cup {x}) = TotalOver(f, T) + f[x]
<1> SUFFICES ASSUME NEW T \in SUBSET S
             PROVE  /\ TotalOver(f, T) \in Int
                    /\ \A x \in S \ T : TotalOver(f, T \cup {x}) = TotalOver(f, T) + f[x]
  OBVIOUS
<1>1. IsFiniteSet(T)
  BY FS_Subset
<1>2. \A x \in T : f[x] \in Int
  OBVIOUS
<1>3. TotalOver(f, T) \in Int
  BY <1>1, <1>2, TotalIsInt, Zenon
<1>4. ASSUME NEW x \in S \ T PROVE TotalOver(f, T \cup {x}) = TotalOver(f, T) + f[x]
  <2>1. x \notin T
    OBVIOUS
  <2>2. \A y \in T \cup {x} : f[y] \in Int
    OBVIOUS
  <2> QED
    BY <1>1, <2>1, <2>2, TotalOfMore, Zenon
<1> QED
  BY <1>3, <1>4

(* A sum of sums, and of differences.                                      *)
LEMMA TotalOfSum ==
  ASSUME NEW S, IsFiniteSet(S), NEW f, NEW g, NEW h,
         \A x \in S : f[x] \in Int, \A x \in S : g[x] \in Int, \A x \in S : h[x] = f[x] + g[x]
  PROVE  TotalOver(h, S) = TotalOver(f, S) + TotalOver(g, S)
<1> DEFINE good == {U \in SUBSET S : TotalOver(h, U) = TotalOver(f, U) + TotalOver(g, U)}
<1>1. {} \in good
  BY TotalOfNone
<1>2. ASSUME NEW U \in SUBSET S, U # {}, \A x \in U : U \ {x} \in good PROVE U \in good
  <2>1. PICK x \in U : TRUE
    BY <1>2
  <2>2. PICK V : V = U \ {x}
    OBVIOUS
  <2>3. V \cup {x} = U /\ x \notin V /\ V \subseteq S /\ x \in S
    BY <2>1, <2>2
  <2>6. TotalOver(f, V \cup {x}) = TotalOver(f, V) + f[x] /\ TotalOver(f, V) \in Int
    BY <2>3, TotalOfPart
  <2>7. TotalOver(g, V \cup {x}) = TotalOver(g, V) + g[x] /\ TotalOver(g, V) \in Int
    BY <2>3, TotalOfPart
  <2>4. \A y \in S : h[y] \in Int
    OBVIOUS
  <2>8. TotalOver(h, V \cup {x}) = TotalOver(h, V) + h[x]
    BY <2>3, <2>4, TotalOfPart
  <2>9. TotalOver(h, V) = TotalOver(f, V) + TotalOver(g, V)
    BY <1>2, <2>1, <2>2
  <2>13. f[x] \in Int /\ g[x] \in Int /\ h[x] = f[x] + g[x]
    BY <2>3
  <2>14. TotalOver(h, V \cup {x}) = TotalOver(f, V \cup {x}) + TotalOver(g, V \cup {x})
    BY <2>6, <2>7, <2>8, <2>9, <2>13
  <2> QED
    BY <2>3, <2>14
<1> HIDE DEF good
<1>3. \A U \in SUBSET S : U \in good
  BY <1>1, <1>2, SubsetsInduct
<1> QED
  BY <1>3 DEF good

(* A sum over two sets that have nothing in common.                        *)
LEMMA TotalOfUnion ==
  ASSUME NEW S, IsFiniteSet(S), NEW f, \A x \in S : f[x] \in Int,
         NEW A \in SUBSET S, NEW B \in SUBSET S, A \cap B = {}
  PROVE  TotalOver(f, A \cup B) = TotalOver(f, A) + TotalOver(f, B)
<1> DEFINE g == [x \in S |-> IF x \in A THEN f[x] ELSE 0]
           h == [x \in S |-> IF x \in B THEN f[x] ELSE 0]
           both == A \cup B
<1>1. /\ both \subseteq S /\ A \subseteq both /\ B \subseteq both
      /\ \A x \in both : g[x] \in Int
      /\ \A x \in both : h[x] \in Int
      /\ \A x \in both : f[x] = g[x] + h[x]
  OBVIOUS
<1>2. (\A x \in A : g[x] = f[x]) /\ (\A x \in both \ A : g[x] = 0)
  OBVIOUS
<1>3. (\A x \in B : h[x] = f[x]) /\ (\A x \in both \ B : h[x] = 0)
  OBVIOUS
<1> HIDE DEF g, h, both
<1>4. IsFiniteSet(both) /\ IsFiniteSet(A) /\ IsFiniteSet(B)
  BY <1>1, FS_Subset
<1>5. TotalOver(f, both) = TotalOver(g, both) + TotalOver(h, both)
  BY <1>1, <1>4, TotalOfSum, Zenon
<1>6. TotalOver(g, both) = TotalOver(g, A)
  BY <1>1, <1>2, <1>4, TotalOfRest, Zenon
<1>7. TotalOver(h, both) = TotalOver(h, B)
  BY <1>1, <1>3, <1>4, TotalOfRest, Zenon
<1>8. TotalOver(g, A) = TotalOver(f, A)
  BY <1>2, <1>4, TotalOfSame, Zenon
<1>9. TotalOver(h, B) = TotalOver(f, B)
  BY <1>3, <1>4, TotalOfSame, Zenon
<1> QED
  BY <1>5, <1>6, <1>7, <1>8, <1>9 DEF both

(* Sorted by a tag and added up, it comes to the same.                     *)
LEMMA TotalByKey ==
  ASSUME NEW S, IsFiniteSet(S), NEW f, \A x \in S : f[x] \in Int, NEW tag,
         NEW K, IsFiniteSet(K), \A x \in S : tag[x] \in K,
         NEW g, \A k \in K : g[k] = TotalOver(f, {x \in S : tag[x] = k})
  PROVE  TotalOver(g, K) = TotalOver(f, S)
<1> DEFINE Of(L) == {x \in S : tag[x] \in L}
           good == {L \in SUBSET K : TotalOver(g, L) = TotalOver(f, Of(L))}
<1>1. {} \in good
  <2>1. Of({}) = {}
    OBVIOUS
  <2> QED
    BY <2>1, TotalOfNone
<1>2. ASSUME NEW L \in SUBSET K, L # {}, \A k \in L : L \ {k} \in good PROVE L \in good
  <2>1. PICK k \in L : TRUE
    BY <1>2
  <2>2. PICK M : M = L \ {k}
    OBVIOUS
  <2> DEFINE one == {x \in S : tag[x] = k}
  <2>3. M \cup {k} = L /\ k \notin M /\ M \subseteq K /\ k \in K
    BY <2>1, <2>2
  <2>4. Of(L) = Of(M) \cup one /\ Of(M) \cap one = {} /\ Of(M) \in SUBSET S /\ one \in SUBSET S
    BY <2>3
  <2>5. \A j \in K : g[j] \in Int
    <3> SUFFICES ASSUME NEW j \in K PROVE g[j] \in Int
      OBVIOUS
    <3>1. PICK T : T = {x \in S : tag[x] = j}
      OBVIOUS
    <3>2. T \in SUBSET S /\ g[j] = TotalOver(f, T)
      BY <3>1
    <3>3. TotalOver(f, T) \in Int
      BY <3>2, TotalOfPart
    <3> QED
      BY <3>2, <3>3
  <2>7. TotalOver(g, M \cup {k}) = TotalOver(g, M) + g[k]
    BY <2>3, <2>5, TotalOfPart
  <2>8. g[k] = TotalOver(f, one)
    BY <2>3
  <2>9. TotalOver(g, M) = TotalOver(f, Of(M))
    BY <1>2, <2>1, <2>2
  <2> HIDE DEF one, Of
  <2>10. TotalOver(f, Of(M) \cup one) = TotalOver(f, Of(M)) + TotalOver(f, one)
    <3>1. \A A, B \in SUBSET S : A \cap B = {} =>
            TotalOver(f, A \cup B) = TotalOver(f, A) + TotalOver(f, B)
      <4> HIDE DEF good
      <4> SUFFICES ASSUME NEW A \in SUBSET S, NEW B \in SUBSET S, A \cap B = {}
                   PROVE  TotalOver(f, A \cup B) = TotalOver(f, A) + TotalOver(f, B)
        OBVIOUS
      <4> QED
        BY TotalOfUnion
    <3> QED
      BY <2>4, <3>1
  <2>11. TotalOver(g, L) = TotalOver(f, Of(L))
    BY <2>3, <2>4, <2>7, <2>8, <2>9, <2>10
  <2> QED
    BY <2>11
<1>3. K \in good
  <2> HIDE DEF good
  <2>1. \A L \in SUBSET K : L \in good
    BY <1>1, <1>2, SubsetsInduct
  <2> QED
    BY <2>1
<1>4. Of(K) = S
  OBVIOUS
<1> QED
  BY <1>3, <1>4

(* To count is to add up ones.                                             *)
LEMMA CountIsTotal ==
  ASSUME NEW S, IsFiniteSet(S), NEW f, \A x \in S : f[x] = 1
  PROVE  TotalOver(f, S) = Cardinality(S)
<1> DEFINE good == {U \in SUBSET S : TotalOver(f, U) = Cardinality(U)}
<1>1. {} \in good
  BY TotalOfNone, FS_EmptySet
<1>2. ASSUME NEW U \in SUBSET S, U # {}, \A x \in U : U \ {x} \in good PROVE U \in good
  <2>1. PICK x \in U : TRUE
    BY <1>2
  <2>2. PICK V : V = U \ {x}
    OBVIOUS
  <2>3. V \cup {x} = U /\ x \notin V /\ V \subseteq S /\ x \in S
    BY <2>1, <2>2
  <2>4. IsFiniteSet(V) /\ \A y \in S : f[y] \in Int
    BY <2>3, FS_Subset
  <2>5. TotalOver(f, V \cup {x}) = TotalOver(f, V) + f[x]
    BY <2>3, <2>4, TotalOfPart
  <2>6. TotalOver(f, V) = Cardinality(V)
    BY <1>2, <2>1, <2>2
  <2>7. Cardinality(V \cup {x}) = Cardinality(V) + 1 /\ Cardinality(V) \in Nat
    BY <2>3, <2>4, FS_AddElement, FS_CardinalityType
  <2>8. f[x] = 1
    BY <2>3
  <2>9. TotalOver(f, V \cup {x}) = Cardinality(V \cup {x})
    BY <2>5, <2>6, <2>7, <2>8
  <2> QED
    BY <2>3, <2>9
<1> HIDE DEF good
<1>3. \A U \in SUBSET S : U \in good
  BY <1>1, <1>2, SubsetsInduct
<1> QED
  BY <1>3 DEF good

---------------------------------------------------------------------------
(* Reports: sums over orders.                                              *)
Gross == [o \in Orders |-> Total(o)]
Net == [o \in Orders |-> NetOf(o)]
Lines == [o \in Orders |-> LineTotal(o)]
Discounts == [o \in Orders |-> Discount(o)]
Each == [o \in Orders |-> 1]

LEMMA SumIsTotal ==
  ASSUME NEW f, IsFiniteSet(DOMAIN f)
  PROVE  SumOf(f) = TotalOver(f, DOMAIN f)
BY DEF SumOf, MapThenSumSet, MapThenFoldSet, TotalOver, Sums, Some

LEMMA SumOfSet ==
  ASSUME NEW S, IsFiniteSet(S), NEW f, DOMAIN f = S, NEW g, \A x \in S : f[x] = g[x]
  PROVE  SumOf(f) = TotalOver(g, S)
BY SumIsTotal, TotalOfSame

LEMMA OrderAmounts ==
  ASSUME TypeOK, ReportsParameters
  PROVE  /\ \A o \in Orders : /\ Gross[o] = Total(o) /\ Net[o] = NetOf(o)
                              /\ Lines[o] = LineTotal(o) /\ Discounts[o] = Discount(o) /\ Each[o] = 1
         /\ \A o \in Orders : Gross[o] \in Int
         /\ \A o \in Orders : Net[o] \in Int
         /\ \A o \in Orders : Lines[o] \in Int
         /\ \A o \in Orders : Discounts[o] \in Int
         /\ \A o \in Orders : Each[o] \in Int
         /\ \A o \in Orders : Lines[o] = Gross[o] + Discounts[o]
         /\ IsFiniteSet(Orders)
         /\ \A S \in SUBSET Orders : IsFiniteSet(S)
<1>1. \A o \in Orders : /\ Total(o) \in Nat /\ order[o].refunded \in Nat /\ Discount(o) \in Nat
                        /\ order[o] \in Order
  BY TotalType DEF TypeOK, Order, ReportsParameters
<1>2. /\ IsFiniteSet(Orders)
      /\ \A S \in SUBSET Orders : IsFiniteSet(S)
  BY FS_Subset DEF ReportsParameters
<1> QED
  BY <1>1, <1>2 DEF Gross, Net, Lines, Discounts, Each, NetOf, LineTotal

LEMMA FiguresAre ==
  ASSUME TypeOK, ReportsParameters, NEW S \in SUBSET Orders
  PROVE  /\ Figures(S).gross = TotalOver(Gross, S)
         /\ Figures(S).net = TotalOver(Net, S)
         /\ Figures(S).count = TotalOver(Each, S)
         /\ Figures(S).count = Cardinality(S)
<1>1. IsFiniteSet(S) /\ \A o \in S : /\ Gross[o] = Total(o) /\ Net[o] = NetOf(o) /\ Each[o] = 1
  BY OrderAmounts
<1>2. SumOf([o \in S |-> Total(o)]) = TotalOver(Gross, S)
  <2> DEFINE f == [o \in S |-> Total(o)]
  <2>1. DOMAIN f = S /\ \A o \in S : f[o] = Gross[o]
    BY <1>1
  <2> HIDE DEF f
  <2>2. SumOf(f) = TotalOver(Gross, S)
    BY <1>1, <2>1, SumOfSet
  <2> QED
    BY <2>2 DEF f
<1>3. SumOf([o \in S |-> NetOf(o)]) = TotalOver(Net, S)
  <2> DEFINE f == [o \in S |-> NetOf(o)]
  <2>1. DOMAIN f = S /\ \A o \in S : f[o] = Net[o]
    BY <1>1
  <2> HIDE DEF f
  <2>2. SumOf(f) = TotalOver(Net, S)
    BY <1>1, <2>1, SumOfSet
  <2> QED
    BY <2>2 DEF f
<1>4. TotalOver(Each, S) = Cardinality(S)
  BY <1>1, CountIsTotal
<1> QED
  BY <1>2, <1>3, <1>4 DEF Figures, Sum

(* The rows of a report whose keys part the sales add up to the whole.     *)
LEMMA RowsAddUp ==
  ASSUME NEW S, IsFiniteSet(S), NEW f, \A x \in S : f[x] \in Int,
         NEW tag, NEW K, IsFiniteSet(K), \A x \in S : tag[x] \in K,
         NEW column, DOMAIN column = K,
         \A k \in K : column[k] = TotalOver(f, {x \in S : tag[x] = k})
  PROVE  SumOf(column) = TotalOver(f, S)
<1>1. TotalOver(column, K) = TotalOver(f, S)
  BY TotalByKey
<1> QED
  BY <1>1, SumIsTotal

LEMMA GroupsAddUp ==
  ASSUME TypeOK, ReportsParameters, NEW S \in SUBSET Orders,
         NEW tag, NEW K, IsFiniteSet(K), \A o \in S : tag[o] \in K,
         NEW groups, groups = [k \in K |-> Figures({o \in S : tag[o] = k})]
  PROVE  \A column \in {"gross", "net", "count"} : AddsUp(groups, Figures(S), column)
<1>1. DOMAIN groups = K
  OBVIOUS
<1>2. \A k \in K : {o \in S : tag[o] = k} \in SUBSET Orders
  OBVIOUS
<1>3. \A k \in K : /\ groups[k].gross = TotalOver(Gross, {o \in S : tag[o] = k})
                   /\ groups[k].net = TotalOver(Net, {o \in S : tag[o] = k})
                   /\ groups[k].count = TotalOver(Each, {o \in S : tag[o] = k})
  BY <1>2, FiguresAre
<1>4. /\ IsFiniteSet(S) /\ \A o \in S : Gross[o] \in Int
      /\ \A o \in S : Net[o] \in Int
      /\ \A o \in S : Each[o] \in Int
  BY OrderAmounts
<1>5. /\ Figures(S).gross = TotalOver(Gross, S)
      /\ Figures(S).net = TotalOver(Net, S)
      /\ Figures(S).count = TotalOver(Each, S)
  BY FiguresAre
<1>6. AddsUp(groups, Figures(S), "gross")
  <2> DEFINE c == [k \in DOMAIN groups |-> groups[k]["gross"]]
  <2>1. DOMAIN c = K /\ \A k \in K : c[k] = TotalOver(Gross, {o \in S : tag[o] = k})
    BY <1>1, <1>3
  <2> HIDE DEF c
  <2>2. SumOf(c) = TotalOver(Gross, S)
    BY <1>4, <2>1, RowsAddUp
  <2> QED
    BY <1>5, <2>2 DEF c, AddsUp
<1>7. AddsUp(groups, Figures(S), "net")
  <2> DEFINE c == [k \in DOMAIN groups |-> groups[k]["net"]]
  <2>1. DOMAIN c = K /\ \A k \in K : c[k] = TotalOver(Net, {o \in S : tag[o] = k})
    BY <1>1, <1>3
  <2> HIDE DEF c
  <2>2. SumOf(c) = TotalOver(Net, S)
    BY <1>4, <2>1, RowsAddUp
  <2> QED
    BY <1>5, <2>2 DEF c, AddsUp
<1>8. AddsUp(groups, Figures(S), "count")
  <2> DEFINE c == [k \in DOMAIN groups |-> groups[k]["count"]]
  <2>1. DOMAIN c = K /\ \A k \in K : c[k] = TotalOver(Each, {o \in S : tag[o] = k})
    BY <1>1, <1>3
  <2> HIDE DEF c
  <2>2. SumOf(c) = TotalOver(Each, S)
    BY <1>4, <2>1, RowsAddUp
  <2> QED
    BY <1>5, <2>2 DEF c, AddsUp
<1> QED
  BY <1>6, <1>7, <1>8

LEMMA KeysAreFinite ==
  ASSUME NEW S, IsFiniteSet(S), NEW tag
  PROVE  IsFiniteSet({tag[x] : x \in S})
<1> DEFINE T == {tag[x] : x \in S}
           f == [x \in S |-> tag[x]]
<1>1. f \in Surjection(S, T)
  BY DEF Surjection
<1> HIDE DEF f, T
<1>2. IsFiniteSet(T)
  BY <1>1, FS_Surjection
<1> QED
  BY <1>2 DEF T

LEMMA SalesAreOrders ==
  \A range, s : Sales(range, s) \in SUBSET Orders
BY DEF Sales

LEMMA DaysAddUp ==
  ASSUME TypeOK, ReportsParameters, NEW range, NEW s
  PROVE  \A column \in {"gross", "net", "count"} :
           AddsUp(DailySeries(range, s), Summary(range, s), column)
<1>1. PICK S \in SUBSET Orders : S = Sales(range, s)
  BY SalesAreOrders
<1>2. PICK tag : tag = [o \in S |-> DayOf(o)]
  OBVIOUS
<1>3. PICK K : K = {tag[o] : o \in S}
  OBVIOUS
<1>4. IsFiniteSet(K) /\ \A o \in S : tag[o] \in K
  <2>1. IsFiniteSet(S)
    BY OrderAmounts
  <2>2. IsFiniteSet({tag[o] : o \in S})
    BY <2>1, KeysAreFinite
  <2> QED
    BY <1>3, <2>2
<1>5. DailySeries(range, s) = [k \in K |-> Figures({o \in S : tag[o] = k})]
  <2>1. {DayOf(o) : o \in S} = K /\ \A k : {o \in S : DayOf(o) = k} = {o \in S : tag[o] = k}
    BY <1>2, <1>3
  <2> QED
    BY <1>1, <2>1 DEF DailySeries, GroupBy
<1> QED
  BY <1>1, <1>4, <1>5, GroupsAddUp DEF Summary

LEMMA HoursAddUp ==
  ASSUME TypeOK, ReportsParameters, NEW range, NEW s
  PROVE  \A column \in {"gross", "count"} :
           AddsUp(HourlyHeatmap(range, s), Summary(range, s), column)
<1>1. PICK S \in SUBSET Orders : S = Sales(range, s)
  BY SalesAreOrders
<1>2. PICK tag : tag = [o \in S |-> <<WeekdayOf(o), HourOf(o)>>]
  OBVIOUS
<1>3. PICK K : K = {tag[o] : o \in S}
  OBVIOUS
<1>4. IsFiniteSet(K) /\ \A o \in S : tag[o] \in K
  <2>1. IsFiniteSet(S)
    BY OrderAmounts
  <2>2. IsFiniteSet({tag[o] : o \in S})
    BY <2>1, KeysAreFinite
  <2> QED
    BY <1>3, <2>2
<1>5. HourlyHeatmap(range, s) = [k \in K |-> Figures({o \in S : tag[o] = k})]
  <2>1. /\ {<<WeekdayOf(o), HourOf(o)>> : o \in S} = K
        /\ \A k : {o \in S : <<WeekdayOf(o), HourOf(o)>> = k} = {o \in S : tag[o] = k}
    BY <1>2, <1>3
  <2> QED
    BY <1>1, <2>1 DEF HourlyHeatmap, GroupBy
<1> QED
  BY <1>1, <1>4, <1>5, GroupsAddUp DEF Summary

LEMMA MeansAddUp ==
  ASSUME TypeOK, ReportsParameters, NEW range, NEW s
  PROVE  \A column \in {"gross", "count"} :
           AddsUp(PaymentMix(range, s), Summary(range, s), column)
<1>1. PICK S \in SUBSET Orders : S = Sales(range, s)
  BY SalesAreOrders
<1>2. PICK tag : tag = [o \in S |-> MethodOf(o)]
  OBVIOUS
<1>3. PICK K : K = {tag[o] : o \in S}
  OBVIOUS
<1>4. IsFiniteSet(K) /\ \A o \in S : tag[o] \in K
  <2>1. IsFiniteSet(S)
    BY OrderAmounts
  <2>2. IsFiniteSet({tag[o] : o \in S})
    BY <2>1, KeysAreFinite
  <2> QED
    BY <1>3, <2>2
<1>5. PaymentMix(range, s) = [k \in K |-> Figures({o \in S : tag[o] = k})]
  <2>1. {MethodOf(o) : o \in S} = K /\ \A k : {o \in S : MethodOf(o) = k} = {o \in S : tag[o] = k}
    BY <1>2, <1>3
  <2> QED
    BY <1>1, <2>1 DEF PaymentMix, GroupBy
<1> QED
  BY <1>1, <1>4, <1>5, GroupsAddUp DEF Summary

LEMMA WeekdaysAddUp ==
  ASSUME TypeOK, zone \in Zones, ReportsParameters, NEW range, NEW s
  PROVE  \A column \in {"gross", "count"} :
           AddsUp(WeekdayPattern(range, s), Summary(range, s), column)
<1>1. PICK S \in SUBSET Orders : S = Sales(range, s)
  BY SalesAreOrders
<1>2. PICK tag : tag = [o \in S |-> WeekdayOf(o)]
  OBVIOUS
<1>3. \A o \in S : tag[o] \in 0..6
  <2> SUFFICES ASSUME NEW o \in S PROVE WeekdayOf(o) \in 0..6
    BY <1>2
  <2>1. SaleTime(o) + zone \in Int /\ Day \in Nat \ {0}
    BY DEF ReportsParameters
  <2>2. PICK d : d = DayOf(o)
    OBVIOUS
  <2>3. d \in Int
    BY <2>1, <2>2 DEF DayOf
  <2>4. PICK e : e = (d + 4) % 7
    OBVIOUS
  <2>5. e \in 0..6
    BY <2>3, <2>4
  <2>6. WeekdayOf(o) = (e + 6) % 7
    BY <2>2, <2>4 DEF WeekdayOf
  <2> QED
    BY <2>5, <2>6
<1>4. PICK K : K = 0..6
  OBVIOUS
<1>6. IsFiniteSet(K)
  <2>1. 0 \in Int /\ 6 \in Int
    OBVIOUS
  <2>2. IsFiniteSet(0..6)
    BY <2>1, FS_Interval, Zenon
  <2> QED
    BY <1>4, <2>2
<1>5. WeekdayPattern(range, s) = [k \in K |-> Figures({o \in S : tag[o] = k})]
  <2>1. \A k : {o \in S : WeekdayOf(o) = k} = {o \in S : tag[o] = k}
    BY <1>2
  <2> QED
    BY <1>1, <1>4, <2>1 DEF WeekdayPattern
<1>7. \A o \in S : tag[o] \in K
  BY <1>3, <1>4
<1> QED
  BY <1>1, <1>5, <1>6, <1>7, GroupsAddUp DEF Summary

(* A period made of two that follow each other.                            *)
LEMMA JoinedAddUp ==
  ASSUME TypeOK, ReportsParameters, NEW s, NEW first, NEW second, NEW whole,
         first[1] \in Int, first[2] \in Int, second[1] \in Int, second[2] \in Int,
         first[1] <= second[1], first[2] <= second[2], first[2] + 1 = second[1],
         whole[1] = first[1], whole[2] = second[2]
  PROVE  \A column \in {"gross", "count"} :
           Summary(first, s)[column] + Summary(second, s)[column] = Summary(whole, s)[column]
<1>1. \A o \in Orders : SaleTime(o) \in Int
  BY DEF ReportsParameters
<1>6. \A o \in Orders : /\ SaleTime(o) \in whole[1]..whole[2]
                            <=> (SaleTime(o) \in first[1]..first[2] \/ SaleTime(o) \in second[1]..second[2])
                       /\ ~(SaleTime(o) \in first[1]..first[2] /\ SaleTime(o) \in second[1]..second[2])
  BY <1>1
<1>7. /\ Sales(whole, s) = Sales(first, s) \cup Sales(second, s)
      /\ Sales(first, s) \cap Sales(second, s) = {}
  BY <1>6 DEF Sales
<1>8. PICK A \in SUBSET Orders, B \in SUBSET Orders : A = Sales(first, s) /\ B = Sales(second, s)
  BY SalesAreOrders
<1>9. IsFiniteSet(Orders) /\ (\A o \in Orders : Gross[o] \in Int) /\ (\A o \in Orders : Each[o] \in Int)
  BY OrderAmounts
<1>10. A \cap B = {} /\ A \cup B \in SUBSET Orders /\ Sales(whole, s) = A \cup B
  BY <1>7, <1>8
<1>15. \A f : (\A o \in Orders : f[o] \in Int) =>
               TotalOver(f, A \cup B) = TotalOver(f, A) + TotalOver(f, B)
  <2> SUFFICES ASSUME NEW f, \A o \in Orders : f[o] \in Int
               PROVE  TotalOver(f, A \cup B) = TotalOver(f, A) + TotalOver(f, B)
    OBVIOUS
  <2>1. IsFiniteSet(Orders)
    BY <1>9
  <2>2. A \cap B = {} /\ A \in SUBSET Orders /\ B \in SUBSET Orders
    BY <1>10
  <2>3. \A o \in Orders : f[o] \in Int
    OBVIOUS
  <2> QED
    BY <2>1, <2>2, <2>3, TotalOfUnion
<1>11. TotalOver(Gross, A \cup B) = TotalOver(Gross, A) + TotalOver(Gross, B)
  BY <1>9, <1>15, Zenon
<1>12. TotalOver(Each, A \cup B) = TotalOver(Each, A) + TotalOver(Each, B)
  BY <1>9, <1>15, Zenon
<1>13. \A T \in SUBSET Orders : Figures(T).gross = TotalOver(Gross, T) /\ Figures(T).count = TotalOver(Each, T)
  BY FiguresAre
<1>14. /\ Figures(A).gross + Figures(B).gross = Figures(A \cup B).gross
       /\ Figures(A).count + Figures(B).count = Figures(A \cup B).count
  BY <1>10, <1>11, <1>12, <1>13
<1> QED
  BY <1>8, <1>10, <1>14 DEF Summary

(* A period, the one before it and what lies between them.                 *)
LEMMA PeriodsAddUp ==
  ASSUME TypeOK, ReportsParameters, NEW range \in Ranges, NEW s
  PROVE  \A column \in {"gross", "count"} :
           Summary(PriorPeriod(range), s)[column] + Summary(Between(range), s)[column]
             + Summary(range, s)[column]
             = Summary(<<PriorPeriod(range)[1], range[2]>>, s)[column]
<1>1. range[1] \in Int /\ range[2] \in Int /\ range[1] <= range[2] /\ Second \in Nat \ {0}
  BY DEF ReportsParameters
<1>2. PICK prior : prior = PriorPeriod(range)
  OBVIOUS
<1>3. prior[1] = range[1] - (range[2] - range[1]) - Second /\ prior[2] = range[1] - Second
  BY <1>2 DEF PriorPeriod
<1>4. PICK between : between = Between(range)
  OBVIOUS
<1>5. between[1] = range[1] - Second + 1 /\ between[2] = range[1] - 1
  BY <1>4 DEF Between
<1>6. PICK before : before = <<prior[1], between[2]>>
  OBVIOUS
<1>7. PICK whole : whole = <<prior[1], range[2]>>
  OBVIOUS
<1>8. before[1] = prior[1] /\ before[2] = between[2] /\ whole[1] = prior[1] /\ whole[2] = range[2]
  BY <1>6, <1>7
<1>9. \A column \in {"gross", "count"} :
        Summary(prior, s)[column] + Summary(between, s)[column] = Summary(before, s)[column]
  <2>1. /\ prior[1] \in Int /\ prior[2] \in Int /\ between[1] \in Int /\ between[2] \in Int
        /\ prior[1] <= between[1] /\ prior[2] <= between[2] /\ prior[2] + 1 = between[1]
    BY <1>1, <1>3, <1>5
  <2> QED
    BY <1>8, <2>1, JoinedAddUp
<1>10. \A column \in {"gross", "count"} :
         Summary(before, s)[column] + Summary(range, s)[column] = Summary(whole, s)[column]
  <2>1. /\ before[1] \in Int /\ before[2] \in Int
        /\ before[1] <= range[1] /\ before[2] <= range[2] /\ before[2] + 1 = range[1]
    BY <1>1, <1>3, <1>5, <1>8
  <2> QED
    BY <1>1, <1>8, <2>1, JoinedAddUp
<1> QED
  BY <1>2, <1>4, <1>7, <1>9, <1>10

(* A total is in one class at most: that of the highest limit it reaches.  *)
LEMMA OneClass ==
  ASSUME ReportsParameters, NEW n \in Nat
  PROVE  \E low \in Limits : \A l \in Limits :
           (n >= l /\ \A higher \in Limits : higher > l => n < higher) <=> l = low
<1> DEFINE T == {n - l : l \in {k \in Limits : k <= n}}
<1>1. Limits \subseteq Nat /\ 0 \in Limits
  BY DEF ReportsParameters
<1>2. T \subseteq Nat /\ T # {}
  <2>1. \A l \in {k \in Limits : k <= n} : n - l \in Nat
    BY <1>1
  <2>2. 0 \in {k \in Limits : k <= n}
    BY <1>1
  <2> QED
    BY <2>1, <2>2
<1>3. PICK d \in T : \A e \in T : d <= e
  BY <1>2, LeastOfNaturals
<1>4. PICK low \in Limits : low <= n /\ d = n - low
  BY <1>3
<1>5. \A l \in Limits : l <= n => l <= low
  <2> SUFFICES ASSUME NEW l \in Limits, l <= n PROVE l <= low
    OBVIOUS
  <2>1. n - l \in T
    OBVIOUS
  <2>2. d <= n - l
    BY <1>3, <2>1
  <2> QED
    BY <1>1, <1>4, <2>2
<1>6. ASSUME NEW l \in Limits
      PROVE  (n >= l /\ \A higher \in Limits : higher > l => n < higher) <=> l = low
  <2>1. CASE l = low
    <3>1. ASSUME NEW higher \in Limits, higher > l PROVE n < higher
      BY <1>1, <1>5, <2>1, <3>1
    <3> QED
      BY <1>1, <1>4, <2>1, <3>1
  <2>2. CASE l # low
    <3>1. ASSUME n >= l PROVE low > l /\ ~(n < low)
      BY <1>1, <1>4, <1>5, <2>2, <3>1
    <3> QED
      BY <2>2, <3>1
  <2> QED
    BY <2>1, <2>2
<1> QED
  BY <1>6

LEMMA ClassesAddUp ==
  ASSUME TypeOK, ReportsParameters, NEW range, NEW s
  PROVE  SumOf(AovDistribution(range, s))
           = Cardinality({o \in Sales(range, s) : Total(o) < Ceiling})
<1>1. PICK S \in SUBSET Orders : S = {o \in Sales(range, s) : Total(o) < Ceiling}
  BY SalesAreOrders
<1> DEFINE In(o, l) == Total(o) >= l /\ \A higher \in Limits : higher > l => Total(o) < higher
<1>2. \A o \in S : \E low \in Limits : \A l \in Limits : In(o, l) <=> l = low
  BY TotalType, OneClass
<1>3. PICK tag : tag = [o \in S |-> CHOOSE low \in Limits : \A l \in Limits : In(o, l) <=> l = low]
  OBVIOUS
<1>4. \A o \in S : tag[o] \in Limits /\ \A l \in Limits : In(o, l) <=> l = tag[o]
  <2> HIDE DEF In
  <2> QED
    BY <1>2, <1>3
<1>5. PICK column : column = AovDistribution(range, s)
  OBVIOUS
<1>6. DOMAIN column = Limits /\ \A l \in Limits : column[l] = Cardinality({o \in S : In(o, l)})
  <2>1. \A l : {o \in S : In(o, l)} =
          {o \in Sales(range, s) :
             /\ Total(o) >= l /\ Total(o) < Ceiling
             /\ \A higher \in Limits : higher > l => Total(o) < higher}
    BY <1>1
  <2> QED
    BY <1>5, <2>1 DEF AovDistribution
<1>7. \A l \in Limits : {o \in S : In(o, l)} = {o \in S : tag[o] = l}
  <2> HIDE DEF In
  <2> QED
    BY <1>4
<1> HIDE DEF In
<1>8. \A l \in Limits : column[l] = TotalOver(Each, {o \in S : tag[o] = l})
  <2>1. \A l \in Limits : {o \in S : tag[o] = l} \in SUBSET Orders
    OBVIOUS
  <2>2. \A T \in SUBSET Orders : TotalOver(Each, T) = Cardinality(T)
    BY FiguresAre
  <2> QED
    BY <1>6, <1>7, <2>1, <2>2
<1>9. IsFiniteSet(Limits) /\ IsFiniteSet(S) /\ \A o \in S : Each[o] \in Int
  BY OrderAmounts DEF ReportsParameters
<1>10. SumOf(column) = TotalOver(Each, S)
  BY <1>4, <1>6, <1>8, <1>9, RowsAddUp
<1>11. Cardinality(S) = TotalOver(Each, S)
  BY FiguresAre
<1> QED
  BY <1>1, <1>5, <1>10, <1>11

(* Lines, before discounts.                                                *)
LEMMA LinesOf ==
  ASSUME TypeOK, ReportsParameters, NEW S \in SUBSET Orders
  PROVE  Sum(S, LineTotal) = TotalOver(Lines, S) /\ Sum(S, Discount) = TotalOver(Discounts, S)
<1>1. IsFiniteSet(S) /\ \A o \in S : Lines[o] = LineTotal(o) /\ Discounts[o] = Discount(o)
  BY OrderAmounts
<1>2. SumOf([o \in S |-> LineTotal(o)]) = TotalOver(Lines, S)
  <2> DEFINE f == [o \in S |-> LineTotal(o)]
  <2>1. DOMAIN f = S /\ \A o \in S : f[o] = Lines[o]
    BY <1>1
  <2> HIDE DEF f
  <2>2. SumOf(f) = TotalOver(Lines, S)
    BY <1>1, <2>1, SumOfSet
  <2> QED
    BY <2>2 DEF f
<1>3. SumOf([o \in S |-> Discount(o)]) = TotalOver(Discounts, S)
  <2> DEFINE f == [o \in S |-> Discount(o)]
  <2>1. DOMAIN f = S /\ \A o \in S : f[o] = Discounts[o]
    BY <1>1
  <2> HIDE DEF f
  <2>2. SumOf(f) = TotalOver(Discounts, S)
    BY <1>1, <2>1, SumOfSet
  <2> QED
    BY <2>2 DEF f
<1> QED
  BY <1>2, <1>3 DEF Sum

LEMMA LinesAddUp ==
  ASSUME TypeOK, ReportsParameters, NEW S \in SUBSET Orders,
         NEW tag, NEW K, K = {tag[o] : o \in S}, NEW column, DOMAIN column = K,
         \A k \in K : column[k] = TotalOver(Lines, {o \in S : tag[o] = k})
  PROVE  SumOf(column) = TotalOver(Lines, S)
<1>1. IsFiniteSet(S) /\ \A o \in S : Lines[o] \in Int
  BY OrderAmounts
<1>2. IsFiniteSet(K) /\ \A o \in S : tag[o] \in K
  BY <1>1, KeysAreFinite
<1> QED
  BY <1>1, <1>2, RowsAddUp

LEMMA ReportsAgreeHere ==
  TypeOK /\ zone \in Zones /\ ReportsParameters => ReportsAgree
<1> SUFFICES ASSUME TypeOK, zone \in Zones, ReportsParameters,
                    NEW range \in Ranges, NEW s \in Stores \cup {"all"}
             PROVE  /\ \A column \in {"gross", "net", "count"} :
                         AddsUp(DailySeries(range, s), Summary(range, s), column)
                    /\ \A column \in {"gross", "count"} :
                         /\ AddsUp(HourlyHeatmap(range, s), Summary(range, s), column)
                         /\ AddsUp(WeekdayPattern(range, s), Summary(range, s), column)
                         /\ AddsUp(PaymentMix(range, s), Summary(range, s), column)
                         /\ Summary(PriorPeriod(range), s)[column]
                              + Summary(Between(range), s)[column] + Summary(range, s)[column]
                              = Summary(<<PriorPeriod(range)[1], range[2]>>, s)[column]
                    /\ SumOf(AovDistribution(range, s))
                         = Cardinality({o \in Sales(range, s) : Total(o) < Ceiling})
                    /\ AddsUp(TopProducts(range, s), DiscountStats(range, s), "revenue")
                    /\ AddsUp(CategoryMix(range, s), DiscountStats(range, s), "revenue")
                    /\ DiscountStats(range, s).revenue - DiscountStats(range, s).discount
                         = Summary(range, s).gross
                    /\ s \in Stores \ gone => StoreComparison(range)[s] = Summary(range, s)
  BY DEF ReportsAgree
<1>1. PICK S \in SUBSET Orders : S = Sales(range, s)
  BY SalesAreOrders
<1>2. /\ DiscountStats(range, s).revenue = Sum(S, LineTotal)
      /\ DiscountStats(range, s).discount = Sum(S, Discount)
  BY <1>1 DEF DiscountStats
<1>3. AddsUp(TopProducts(range, s), DiscountStats(range, s), "revenue")
  <2>1. PICK tag : tag = [o \in S |-> ProductOf(o)]
    OBVIOUS
  <2>2. PICK K : K = {tag[o] : o \in S}
    OBVIOUS
  <2>3. {ProductOf(o) : o \in S} = K /\ \A k : {o \in S : ProductOf(o) = k} = {o \in S : tag[o] = k}
    BY <2>1, <2>2
  <2>4. PICK lines : lines = TopProducts(range, s)
    OBVIOUS
  <2>5. /\ DOMAIN lines = K
        /\ \A k \in K : lines[k]["revenue"] = TotalOver(Lines, {o \in S : tag[o] = k})
    <3>1. lines = [k \in K |-> [revenue |-> Sum({o \in S : tag[o] = k}, LineTotal)]]
      BY <1>1, <2>3, <2>4 DEF TopProducts, ByLine
    <3>2. \A k \in K : {o \in S : tag[o] = k} \in SUBSET Orders
      OBVIOUS
    <3> QED
      BY <3>1, <3>2, LinesOf
  <2> DEFINE column == [k \in DOMAIN lines |-> lines[k]["revenue"]]
  <2>6. DOMAIN column = K /\ \A k \in K : column[k] = TotalOver(Lines, {o \in S : tag[o] = k})
    BY <2>5
  <2> HIDE DEF column
  <2>7. SumOf(column) = TotalOver(Lines, S)
    BY <2>2, <2>6, LinesAddUp
  <2>8. Sum(S, LineTotal) = TotalOver(Lines, S)
    BY LinesOf
  <2> QED
    BY <1>2, <2>4, <2>7, <2>8 DEF AddsUp, column
<1>4. AddsUp(CategoryMix(range, s), DiscountStats(range, s), "revenue")
  <2>1. PICK tag : tag = [o \in S |-> CategoryOf(ProductOf(o))]
    OBVIOUS
  <2>2. PICK K : K = {tag[o] : o \in S}
    OBVIOUS
  <2>3. /\ {CategoryOf(ProductOf(o)) : o \in S} = K
        /\ \A k : {o \in S : CategoryOf(ProductOf(o)) = k} = {o \in S : tag[o] = k}
    BY <2>1, <2>2
  <2>4. PICK lines : lines = CategoryMix(range, s)
    OBVIOUS
  <2>5. /\ DOMAIN lines = K
        /\ \A k \in K : lines[k]["revenue"] = TotalOver(Lines, {o \in S : tag[o] = k})
    <3>1. lines = [k \in K |-> [revenue |-> Sum({o \in S : tag[o] = k}, LineTotal)]]
      BY <1>1, <2>3, <2>4 DEF CategoryMix, ByLine
    <3>2. \A k \in K : {o \in S : tag[o] = k} \in SUBSET Orders
      OBVIOUS
    <3> QED
      BY <3>1, <3>2, LinesOf
  <2> DEFINE column == [k \in DOMAIN lines |-> lines[k]["revenue"]]
  <2>6. DOMAIN column = K /\ \A k \in K : column[k] = TotalOver(Lines, {o \in S : tag[o] = k})
    BY <2>5
  <2> HIDE DEF column
  <2>7. SumOf(column) = TotalOver(Lines, S)
    BY <2>2, <2>6, LinesAddUp
  <2>8. Sum(S, LineTotal) = TotalOver(Lines, S)
    BY LinesOf
  <2> QED
    BY <1>2, <2>4, <2>7, <2>8 DEF AddsUp, column
<1>5. DiscountStats(range, s).revenue - DiscountStats(range, s).discount = Summary(range, s).gross
  <2>1. Sum(S, LineTotal) = TotalOver(Lines, S) /\ Sum(S, Discount) = TotalOver(Discounts, S)
    BY LinesOf
  <2>2. /\ IsFiniteSet(S)
        /\ \A o \in S : Gross[o] \in Int
        /\ \A o \in S : Discounts[o] \in Int
        /\ \A o \in S : Lines[o] = Gross[o] + Discounts[o]
    BY OrderAmounts
  <2>3. TotalOver(Lines, S) = TotalOver(Gross, S) + TotalOver(Discounts, S)
    BY <2>2, TotalOfSum
  <2>4. TotalOver(Gross, S) \in Int /\ TotalOver(Discounts, S) \in Int
    BY <2>2, TotalIsInt
  <2>5. Summary(range, s).gross = TotalOver(Gross, S)
    BY <1>1, FiguresAre DEF Summary
  <2> QED
    BY <1>2, <2>1, <2>3, <2>4, <2>5
<1>6. ASSUME s \in Stores \ gone PROVE StoreComparison(range)[s] = Summary(range, s)
  <2>1. "all" \notin Stores
    BY DEF ReportsParameters
  <2>2. {o \in Sales(range, "all") : StoreOf(o) = s} = Sales(range, s)
    BY <1>6, <2>1 DEF Sales
  <2> QED
    BY <1>6, <2>2 DEF StoreComparison, Summary
<1> QED
  BY <1>3, <1>4, <1>5, <1>6, DaysAddUp, HoursAddUp, WeekdaysAddUp, MeansAddUp, PeriodsAddUp, ClassesAddUp

(* Of requests one at a time: what is open, and what it decided by.        *)
OneOpen == \A v, w \in Workers : session[v] # Idle /\ session[w] # Idle => v = w

Informed ==
  \A w \in Workers : session[w] # Idle =>
    /\ session[w].read = order[About(session[w])]
    /\ session[w].op \in {"approve", "reject"} => refund[session[w].of] = "pending"
    /\ session[w].op = "refundNow" => refund[session[w].of] = "none"
    /\ session[w].op = "askVoid" => order[session[w].of].void # "approved"
    /\ session[w].op = "rejectVoid" => order[session[w].of].void = "pending"

(* What an order counts as given back is what its refunds gave back, and   *)
(* its status is that of the amount, unless a void was approved.           *)
Amounts == [r \in Refunds |-> Amount(r)]
ApprovedOf(o) == {r \in RefundsOf(o) : refund[r] = "approved"}

RefundedIsApproved ==
  \A o \in Orders : order[o].refunded = TotalOver(Amounts, ApprovedOf(o))

StatusFits ==
  \A o \in Orders :
    IF order[o].void = "approved" THEN order[o].status # "paid"
    ELSE /\ order[o].status \in SaleStatuses => order[o].refunded < Total(o)
         /\ order[o].status = "refunded" => order[o].refunded >= Total(o)
         /\ order[o].status # "voided"

MoneyInv == ReviewInv /\ OneOpen /\ Informed /\ RefundedIsApproved /\ StatusFits

LEMMA RefundAmounts ==
  ASSUME ReportsParameters, TypeOK
  PROVE  /\ IsFiniteSet(Refunds)
         /\ \A r \in Refunds : Amounts[r] \in Int
         /\ \A r \in Refunds : Amounts[r] = Amount(r) /\ Amount(r) \in Nat \ {0} /\ OrderOf(r) \in Orders
         /\ \A o \in Orders : ApprovedOf(o) \in SUBSET Refunds
         /\ \A o \in Orders : order[o] \in Order /\ order[o].refunded \in Nat /\ Total(o) \in Nat \ {0}
<1>1. \A r \in Refunds : Amount(r) \in Nat \ {0} /\ OrderOf(r) \in Orders
  BY RefundType, TotalType
<1>2. \A o \in Orders : ApprovedOf(o) \in SUBSET Refunds
  BY DEF ApprovedOf, RefundsOf
<1>3. \A o \in Orders : order[o] \in Order /\ order[o].refunded \in Nat
  BY DEF TypeOK, Order
<1> QED
  BY <1>1, <1>2, <1>3, TotalType DEF Amounts, ReportsParameters

LEMMA MoneyInit == ReportsParameters /\ Init => MoneyInv
<1> SUFFICES ASSUME ReportsParameters, Init PROVE MoneyInv
  OBVIOUS
<1>1. ReviewInv
  BY ReviewInit
<1>2. \A w \in Workers : session[w] = Idle
  BY DEF Init
<1>3. \A o \in Orders : ApprovedOf(o) = {} /\ order[o] = NoOrder
  BY DEF Init, ApprovedOf, RefundsOf
<1>4. RefundedIsApproved
  BY <1>3, TotalOfNone DEF RefundedIsApproved, NoOrder
<1>5. StatusFits
  BY <1>3 DEF StatusFits, NoOrder, SaleStatuses
<1> QED
  BY <1>1, <1>2, <1>4, <1>5 DEF MoneyInv, OneOpen, Informed

LEMMA OpenIsOne ==
  ASSUME OneOpen, TypeOK, NEW w \in Workers, NEW s, session' = [session EXCEPT ![w] = s],
         OneAtATime(session')
  PROVE  OneOpen'
<1> DEFINE others == {v \in Workers : session[v] # Idle}
<1>1. PICK also : also = {v \in Workers : session'[v] # Idle}
  OBVIOUS
<1>2. \A v \in Workers : v # w => session'[v] = session[v]
  BY DEF TypeOK
<1>3. IsFiniteSet(also)
  <2>1. \A v \in others, u \in others : v = u
    BY DEF OneOpen
  <2>2. IsFiniteSet(others)
    <3>1. CASE others = {}
      BY <3>1, FS_EmptySet
    <3>2. CASE others # {}
      <4>1. PICK v : others = {v}
        BY <2>1, <3>2
      <4> QED
        BY <4>1, FS_Singleton
    <3> QED
      BY <3>1, <3>2
  <2>3. also \subseteq others \cup {w}
    BY <1>1, <1>2
  <2> HIDE DEF others
  <2>4. IsFiniteSet(others \cup {w})
    BY <2>2, FS_AddElement
  <2> QED
    BY <2>3, <2>4, FS_Subset
<1>4. Cardinality(also) <= 1
  BY <1>1 DEF OneAtATime
<1>5. ASSUME NEW u \in also, NEW v \in also, u # v PROVE FALSE
  <2>1. {u, v} \subseteq also
    OBVIOUS
  <2>2. Cardinality({u, v}) <= Cardinality(also) /\ IsFiniteSet({u, v})
    BY <1>3, <2>1, FS_Subset
  <2>3. Cardinality({u}) = 1 /\ IsFiniteSet({u})
    BY FS_Singleton
  <2>4. {u, v} = {u} \cup {v} /\ v \notin {u}
    BY <1>5
  <2>5. Cardinality({u, v}) = 2
    BY <2>3, <2>4, FS_AddElement
  <2>6. Cardinality(also) \in Nat
    BY <1>3, FS_CardinalityType
  <2> QED
    BY <1>4, <2>2, <2>5, <2>6
<1> QED
  BY <1>1, <1>5 DEF OneOpen

LEMMA MoneyStands ==
  ASSUME RefundedIsApproved, StatusFits, UNCHANGED <<order, refund>>
  PROVE  RefundedIsApproved' /\ StatusFits'
<1>1. \A o \in Orders : ApprovedOf(o)' = ApprovedOf(o)
  BY DEF ApprovedOf
<1> QED
  BY <1>1 DEF RefundedIsApproved, StatusFits, Amounts

(* A request that begins reads what is so.                                 *)
Asks(w, op, x, o) ==
  /\ Begin(w, op, x, o)
  /\ \/ op \in OrderOps /\ x \in Orders /\ o = x
     \/ op \in RefundOps /\ x \in Refunds /\ o = OrderOf(x)
  /\ op \in {"approve", "reject"} => refund[x] = "pending"
  /\ op = "refundNow" => refund[x] = "none"
  /\ op = "askVoid" => order[x].void # "approved"
  /\ op = "rejectVoid" => order[x].void = "pending"

LEMMA InformedBegins ==
  ASSUME MoneyInv, NEW w \in Workers, NEW op, NEW x, NEW o, Asks(w, op, x, o)
  PROVE  Informed'
<1>1. TypeOK
  BY DEF MoneyInv, ReviewInv
<1> DEFINE s == [op |-> op, of |-> x, read |-> order[o], flushed |-> FALSE, level |-> 0]
<1>2. /\ session' = [session EXCEPT ![w] = s]
      /\ UNCHANGED <<order, refund>>
  BY DEF Begin, Asks
<1>3. s.op = op /\ s.of = x /\ s.read = order[o] /\ About(s) = o
  BY DEF About, OrderOps, RefundOps, Asks
<1>6. /\ op \in {"approve", "reject"} => refund[x] = "pending"
      /\ op = "refundNow" => refund[x] = "none"
      /\ op = "askVoid" => order[x].void # "approved"
      /\ op = "rejectVoid" => order[x].void = "pending"
  BY DEF Asks
<1> HIDE DEF s
<1>4. \A v \in Workers : session'[v] = IF v = w THEN s ELSE session[v]
  BY <1>1, <1>2 DEF TypeOK
<1>5. ASSUME NEW v \in Workers, session'[v] # Idle
      PROVE  /\ session'[v].read = order'[About(session'[v])]
             /\ session'[v].op \in {"approve", "reject"} => refund'[session'[v].of] = "pending"
             /\ session'[v].op = "refundNow" => refund'[session'[v].of] = "none"
             /\ session'[v].op = "askVoid" => order'[session'[v].of].void # "approved"
             /\ session'[v].op = "rejectVoid" => order'[session'[v].of].void = "pending"
  <2>1. CASE v = w
    BY <1>2, <1>3, <1>4, <1>6, <2>1
  <2>2. CASE v # w
    BY <1>2, <1>4, <1>5, <2>2 DEF MoneyInv, Informed
  <2> QED
    BY <2>1, <2>2
<1> QED
  BY <1>2, <1>5 DEF Informed, About

LEMMA MoneyBegins ==
  ASSUME MoneyInv, NEW w \in Workers,
         \/ \E o \in Orders : Sell(w, o) \/ ApproveVoid(w, o) \/ RejectVoid(w, o)
         \/ \E o \in Orders, now \in BOOLEAN : RequestVoid(w, o, now)
         \/ \E r \in Refunds : ApproveRefund(w, r) \/ RejectRefund(w, r)
         \/ \E r \in Refunds, now \in BOOLEAN : RefundOrder(w, r, now)
  PROVE  /\ Informed' /\ RefundedIsApproved' /\ StatusFits'
         /\ \E s : session' = [session EXCEPT ![w] = s]
<1> USE DEF OrderOps, RefundOps, Asks
<1>1. ASSUME NEW o \in Orders, Sell(w, o)
      PROVE  Asks(w, "sell", o, o)
  BY <1>1 DEF Sell
<1>2. ASSUME NEW o \in Orders, ApproveVoid(w, o)
      PROVE  Asks(w, "approveVoid", o, o)
  BY <1>2 DEF ApproveVoid
<1>3. ASSUME NEW o \in Orders, RejectVoid(w, o)
      PROVE  Asks(w, "rejectVoid", o, o)
  BY <1>3 DEF RejectVoid
<1>4. ASSUME NEW o \in Orders, NEW now \in BOOLEAN, RequestVoid(w, o, now)
      PROVE  Asks(w, IF now THEN "voidNow" ELSE "askVoid", o, o)
  <2>1. order[o].void # "approved"
    BY <1>4 DEF RequestVoid, MoneyInv, StatusFits
  <2> QED
    BY <1>4, <2>1 DEF RequestVoid
<1>5. ASSUME NEW r \in Refunds, ApproveRefund(w, r)
      PROVE  Asks(w, "approve", r, OrderOf(r))
  BY <1>5 DEF ApproveRefund
<1>6. ASSUME NEW r \in Refunds, RejectRefund(w, r)
      PROVE  Asks(w, "reject", r, OrderOf(r))
  BY <1>6 DEF RejectRefund
<1>7. ASSUME NEW r \in Refunds, NEW now \in BOOLEAN, RefundOrder(w, r, now)
      PROVE  Asks(w, IF now THEN "refundNow" ELSE "file", r, OrderOf(r))
  BY <1>7 DEF RefundOrder
<1> HIDE DEF Asks
<1>8. PICK op, x, o : Asks(w, op, x, o)
  BY <1>1, <1>2, <1>3, <1>4, <1>5, <1>6, <1>7
<1>9. UNCHANGED <<order, refund>> /\ \E s : session' = [session EXCEPT ![w] = s]
  BY <1>8 DEF Asks, Begin
<1>10. Informed'
  BY <1>8, InformedBegins
<1> QED
  BY <1>9, <1>10, MoneyStands DEF MoneyInv

(* A session goes on, or ends with nothing written.                        *)
LEMMA InformedStays ==
  ASSUME MoneyInv, NEW w \in Workers, NEW s,
         \/ s = Idle
         \/ session[w] # Idle /\ s.op = session[w].op /\ s.of = session[w].of
              /\ s.read = session[w].read,
         session' = [session EXCEPT ![w] = s], UNCHANGED <<order, refund>>
  PROVE  Informed' /\ RefundedIsApproved' /\ StatusFits'
<1>1. \A v \in Workers : session'[v] = IF v = w THEN s ELSE session[v]
  BY DEF MoneyInv, ReviewInv, TypeOK
<1>2. ASSUME NEW v \in Workers, session'[v] # Idle
      PROVE  /\ session'[v].read = order'[About(session'[v])]
             /\ session'[v].op \in {"approve", "reject"} => refund'[session'[v].of] = "pending"
             /\ session'[v].op = "refundNow" => refund'[session'[v].of] = "none"
             /\ session'[v].op = "askVoid" => order'[session'[v].of].void # "approved"
             /\ session'[v].op = "rejectVoid" => order'[session'[v].of].void = "pending"
  <2>1. /\ session[v] # Idle /\ session'[v].op = session[v].op /\ session'[v].of = session[v].of
        /\ session'[v].read = session[v].read
    BY <1>1, <1>2
  <2> QED
    BY <2>1 DEF MoneyInv, Informed, About
<1> QED
  BY <1>2, MoneyStands DEF Informed, About, MoneyInv

LEMMA RefundIsCounted ==
  ASSUME ReportsParameters, MoneyInv, NEW w \in Workers, CommitRefund(w)
  PROVE  RefundedIsApproved' /\ StatusFits'
<1>1. TypeOK
  BY DEF MoneyInv, ReviewInv
<1>2. session[w] # Idle /\ session[w].op \in {"refundNow", "approve"}
  BY DEF CommitRefund, Idle
<1>3. PICK r \in Refunds : r = session[w].of
  BY <1>1, <1>2, SessionType DEF RefundOps
<1>4. PICK o \in Orders : o = OrderOf(r)
  BY RefundType
<1>5. session[w].read = order[o] /\ refund[r] \in {"pending", "none"}
  BY <1>2, <1>3, <1>4 DEF MoneyInv, Informed, About, OrderOps
<1>6. PICK row : row = Refunded(order[o], order[o], Amount(r), Total(o))
  OBVIOUS
<1>7. refund' = [refund EXCEPT ![r] = "approved"] /\ order' = [order EXCEPT ![o] = row]
  BY <1>3, <1>4, <1>5, <1>6 DEF CommitRefund
<1>8. /\ order[o] \in Order /\ order[o].refunded \in Nat /\ Amount(r) \in Nat \ {0} /\ Total(o) \in Nat \ {0}
      /\ IsFiniteSet(Refunds) /\ \A q \in Refunds : Amounts[q] \in Int
      /\ Amounts[r] = Amount(r)
  BY <1>1, RefundAmounts
<1>9. /\ row.refunded = order[o].refunded + Amount(r)
      /\ row.void = order[o].void
      /\ row.status = IF order[o].refunded + Amount(r) >= Total(o) THEN "refunded" ELSE "partiallyRefunded"
  BY <1>6, <1>8 DEF Refunded, Order
<1>10. \A p \in Orders : order'[p] = IF p = o THEN row ELSE order[p]
  BY <1>1, <1>7 DEF TypeOK
<1>11. ApprovedOf(o)' = ApprovedOf(o) \cup {r} /\ r \notin ApprovedOf(o)
  BY <1>1, <1>4, <1>5, <1>7 DEF TypeOK, ApprovedOf, RefundsOf
<1>12. \A p \in Orders \ {o} : ApprovedOf(p)' = ApprovedOf(p)
  BY <1>1, <1>4, <1>7 DEF TypeOK, ApprovedOf, RefundsOf
<1>13. TotalOver(Amounts, ApprovedOf(o) \cup {r}) = TotalOver(Amounts, ApprovedOf(o)) + Amount(r)
  <2>1. ApprovedOf(o) \in SUBSET Refunds /\ r \in Refunds \ ApprovedOf(o)
    BY <1>11 DEF ApprovedOf, RefundsOf
  <2> QED
    BY <1>8, <2>1, TotalOfPart
<1>14. RefundedIsApproved'
  <2> SUFFICES ASSUME NEW p \in Orders PROVE order'[p].refunded = TotalOver(Amounts, ApprovedOf(p)')
    BY DEF RefundedIsApproved, Amounts
  <2>1. order[p].refunded = TotalOver(Amounts, ApprovedOf(p))
    BY DEF MoneyInv, RefundedIsApproved
  <2>2. CASE p = o
    BY <1>9, <1>10, <1>11, <1>13, <2>1, <2>2
  <2>3. CASE p # o
    BY <1>10, <1>12, <2>1, <2>3
  <2> QED
    BY <2>2, <2>3
<1>15. StatusFits'
  <2> SUFFICES ASSUME NEW p \in Orders
               PROVE  IF order'[p].void = "approved" THEN order'[p].status # "paid"
                      ELSE /\ order'[p].status \in SaleStatuses => order'[p].refunded < Total(p)
                           /\ order'[p].status = "refunded" => order'[p].refunded >= Total(p)
                           /\ order'[p].status # "voided"
    BY DEF StatusFits, SaleStatuses
  <2>1. CASE p = o
    BY <1>8, <1>9, <1>10, <2>1 DEF SaleStatuses
  <2>2. CASE p # o
    BY <1>10, <2>2 DEF MoneyInv, StatusFits
  <2> QED
    BY <2>1, <2>2
<1> QED
  BY <1>14, <1>15

(* Orders that keep what was given back.                                   *)
LEMMA CommitsElseKeep ==
  ASSUME ReportsParameters, MoneyInv, NEW w \in Workers,
         \/ CommitFile(w) \/ CommitReject(w) \/ CommitVoid(w) \/ CommitAskVoid(w) \/ CommitSell(w)
  PROVE  RefundedIsApproved' /\ StatusFits'
<1>1. TypeOK
  BY DEF MoneyInv, ReviewInv
<1>2. session[w] # Idle
  BY DEF CommitFile, CommitReject, CommitVoid, CommitAskVoid, CommitSell, Idle
<1>3. CASE CommitFile(w) \/ CommitReject(w)
  <2>1. session[w].op \in {"file", "reject"}
    BY <1>3 DEF CommitFile, CommitReject
  <2>2. PICK r \in Refunds : r = session[w].of
    BY <1>1, <1>2, <2>1, SessionType DEF RefundOps
  <2>3. order' = order
    BY <1>3 DEF CommitFile, CommitReject
  <2>4. PICK st : refund' = [refund EXCEPT ![r] = st] /\ (st = "approved" <=> refund[r] = "approved")
    <3>1. CASE CommitFile(w)
      <4>1. PICK st : st = IF refund[r] = "none" THEN "pending" ELSE refund[r]
        OBVIOUS
      <4>2. refund' = [refund EXCEPT ![r] = st]
        BY <2>2, <3>1, <4>1 DEF CommitFile
      <4>3. st = "approved" <=> refund[r] = "approved"
        BY <4>1
      <4> QED
        BY <4>2, <4>3
    <3>2. CASE CommitReject(w)
      <4>1. PICK st : st = "rejected" /\ refund' = [refund EXCEPT ![r] = st] /\ session[w].op = "reject"
        BY <2>2, <3>2 DEF CommitReject
      <4>2. refund[r] = "pending"
        BY <1>2, <2>2, <4>1 DEF MoneyInv, Informed
      <4>3. st = "approved" <=> refund[r] = "approved"
        BY <4>1, <4>2
      <4> QED
        BY <4>1, <4>3
    <3> QED
      BY <1>3, <3>1, <3>2
  <2>5. \A o \in Orders : ApprovedOf(o)' = ApprovedOf(o)
    BY <1>1, <2>4 DEF TypeOK, ApprovedOf, RefundsOf
  <2> QED
    BY <2>3, <2>5 DEF MoneyInv, RefundedIsApproved, StatusFits, Amounts
<1>4. CASE CommitVoid(w) \/ CommitAskVoid(w) \/ CommitSell(w)
  <2>1. session[w].op \in OrderOps
    BY <1>4 DEF CommitVoid, CommitAskVoid, CommitSell, OrderOps
  <2>2. PICK o \in Orders : o = session[w].of
    BY <1>1, <1>2, <2>1, SessionType
  <2>3. order[o] \in Order /\ order[o].refunded \in Nat /\ Total(o) \in Nat \ {0} /\ About(session[w]) = o
    BY <1>1, <2>1, <2>2, RefundAmounts DEF About
  <2>4. refund' = refund
    BY <1>4 DEF CommitVoid, CommitAskVoid, CommitSell
  <2>5. PICK row : order' = [order EXCEPT ![o] = row] /\ row.refunded = order[o].refunded
                  /\ IF row.void = "approved" THEN row.status # "paid"
                     ELSE /\ row.status \in SaleStatuses => row.refunded < Total(o)
                          /\ row.status = "refunded" => row.refunded >= Total(o)
                          /\ row.status # "voided"
    <3>1. CASE CommitVoid(w)
      <4>1. PICK row : row = [order[o] EXCEPT !.status = "voided", !.void = "approved"]
        OBVIOUS
      <4>2. order' = [order EXCEPT ![o] = row]
        BY <1>1, <2>2, <3>1, <4>1 DEF CommitVoid, TypeOK
      <4>3. row.refunded = order[o].refunded /\ row.status = "voided" /\ row.void = "approved"
        BY <2>3, <4>1 DEF Order
      <4> QED
        BY <4>2, <4>3
    <3>2. CASE CommitAskVoid(w)
      <4>1. PICK v \in {"pending", "rejected"} : v = IF session[w].op = "askVoid" THEN "pending" ELSE "rejected"
        OBVIOUS
      <4>2. PICK row : row = [order[o] EXCEPT !.void = v]
        OBVIOUS
      <4>3. order' = [order EXCEPT ![o] = row]
        BY <1>1, <2>2, <3>2, <4>1, <4>2 DEF CommitAskVoid, TypeOK
      <4>4. row.refunded = order[o].refunded /\ row.status = order[o].status /\ row.void = v
        BY <2>3, <4>2 DEF Order
      <4>5. order[o].void # "approved"
        BY <1>2, <2>2, <3>2 DEF CommitAskVoid, MoneyInv, Informed
      <4> QED
        BY <4>1, <4>3, <4>4, <4>5 DEF MoneyInv, StatusFits
    <3>3. CASE CommitSell(w)
      <4>1. PICK row : row = [order[o] EXCEPT !.status = "paid"]
        OBVIOUS
      <4>2. order' = [order EXCEPT ![o] = row] /\ session[w].op = "sell"
        BY <1>1, <2>2, <3>3, <4>1 DEF CommitSell, TypeOK
      <4>3. row.refunded = order[o].refunded /\ row.status = "paid" /\ row.void = order[o].void
        BY <2>3, <4>1 DEF Order
      <4>4. order[o].status = "none"
        BY <1>2, <2>3, <4>2 DEF MoneyInv, ReviewInv, SellsTheNew
      <4>5. ApprovedOf(o) = {} /\ order[o].void = "none"
        BY <4>4 DEF MoneyInv, ReviewInv, ReviewIsOfStored, ApprovedOf, RefundsOf
      <4>6. order[o].refunded = 0
        BY <4>5, TotalOfNone DEF MoneyInv, RefundedIsApproved
      <4>7. row.refunded < Total(o)
        BY <2>3, <4>3, <4>6
      <4> QED
        BY <4>2, <4>3, <4>5, <4>7
    <3> QED
      BY <1>4, <3>1, <3>2, <3>3
  <2>6. \A p \in Orders : order'[p] = IF p = o THEN row ELSE order[p]
    BY <1>1, <2>5 DEF TypeOK
  <2>7. \A p \in Orders : ApprovedOf(p)' = ApprovedOf(p)
    BY <2>4 DEF ApprovedOf
  <2>8. RefundedIsApproved'
    BY <2>5, <2>6, <2>7 DEF MoneyInv, RefundedIsApproved, Amounts
  <2>9. StatusFits'
    BY <2>5, <2>6 DEF MoneyInv, StatusFits, SaleStatuses
  <2> QED
    BY <2>8, <2>9
<1> QED
  BY <1>3, <1>4

LEMMA MoneyStep ==
  ReportsParameters /\ MoneyInv /\ [Next]_vars /\ OneAtATime(session') => MoneyInv'
<1> SUFFICES ASSUME ReportsParameters, MoneyInv, [Next]_vars, OneAtATime(session')
             PROVE  MoneyInv'
  OBVIOUS
<1>1. ReviewInv'
  BY ReviewStep DEF MoneyInv
<1>2. TypeOK /\ OneOpen
  BY DEF MoneyInv, ReviewInv
<1>3. CASE UNCHANGED vars
  BY <1>1, <1>3, MoneyStands DEF vars, MoneyInv, OneOpen, Informed, About
<1>4. ASSUME NEW w \in Workers,
             \/ \E o \in Orders : Sell(w, o) \/ ApproveVoid(w, o) \/ RejectVoid(w, o)
             \/ \E o \in Orders, now \in BOOLEAN : RequestVoid(w, o, now)
             \/ \E r \in Refunds : ApproveRefund(w, r) \/ RejectRefund(w, r)
             \/ \E r \in Refunds, now \in BOOLEAN : RefundOrder(w, r, now)
      PROVE  MoneyInv'
  <2>1. /\ Informed' /\ RefundedIsApproved' /\ StatusFits'
        /\ \E s : session' = [session EXCEPT ![w] = s]
    BY <1>4, MoneyBegins
  <2>2. OneOpen'
    BY <1>2, <2>1, OpenIsOne
  <2> QED
    BY <1>1, <2>1, <2>2 DEF MoneyInv
<1>5. ASSUME NEW w \in Workers, ReadLevel(w) \/ Abort(w)
      PROVE  MoneyInv'
  <2>1. UNCHANGED <<order, refund>> /\ session[w] # Idle
    BY <1>5 DEF ReadLevel, Abort
  <2>2. PICK goes : goes = [session[w] EXCEPT !.flushed = TRUE, !.level = onHand]
    OBVIOUS
  <2>3. goes.op = session[w].op /\ goes.of = session[w].of /\ goes.read = session[w].read
    BY <1>2, <2>1, <2>2 DEF TypeOK, Session
  <2>4. session' = [session EXCEPT ![w] = Idle] \/ session' = [session EXCEPT ![w] = goes]
    BY <1>5, <2>2 DEF ReadLevel, Abort
  <2>5. Informed' /\ RefundedIsApproved' /\ StatusFits'
    BY <2>1, <2>3, <2>4, InformedStays
  <2>6. OneOpen'
    BY <1>2, <2>4, OpenIsOne
  <2> QED
    BY <1>1, <2>5, <2>6 DEF MoneyInv
<1>6. ASSUME NEW w \in Workers, Commit(w)
      PROVE  MoneyInv'
  <2>1. session' = [session EXCEPT ![w] = Idle] /\ session[w] # Idle
    BY <1>6 DEF Commit, CommitRefund, CommitFile, CommitReject, CommitVoid, CommitAskVoid, CommitSell, Idle
  <2>2. \A v \in Workers : session'[v] = Idle
    BY <1>2, <2>1 DEF TypeOK, OneOpen
  <2>3. Informed' /\ OneOpen'
    BY <2>2 DEF Informed, OneOpen
  <2>4. RefundedIsApproved' /\ StatusFits'
    BY <1>6, RefundIsCounted, CommitsElseKeep DEF Commit
  <2> QED
    BY <1>1, <2>3, <2>4 DEF MoneyInv
<1> QED
  BY <1>3, <1>4, <1>5, <1>6 DEF Next

LEMMA NetFollows == ReportsParameters /\ MoneyInv => NetIsMoneyKept
<1> SUFFICES ASSUME ReportsParameters, MoneyInv, NEW range \in Ranges,
                    NEW sold, sold = {o \in Orders : SaleTime(o) \in range[1]..range[2]},
                    \A o \in sold : order[o].void # "approved"
             PROVE  Summary(range, "all").net = Sum(sold, Kept)
  BY DEF NetIsMoneyKept
<1>1. TypeOK
  BY DEF MoneyInv, ReviewInv
<1>2. PICK S \in SUBSET Orders : S = Sales(range, "all")
  BY SalesAreOrders
<1>3. S = {o \in sold : order[o].status \in SaleStatuses}
  BY <1>2 DEF Sales, ReportsParameters
<1>4. Summary(range, "all").net = TotalOver(Net, S)
  BY <1>1, <1>2, FiguresAre DEF Summary
<1>5. ASSUME NEW o \in sold
      PROVE  Kept(o) = IF o \in S THEN Net[o] ELSE 0
  <2>1. o \in Orders
    OBVIOUS
  <2>2. order[o].refunded = TotalOver(Amounts, ApprovedOf(o))
    BY <2>1 DEF MoneyInv, RefundedIsApproved
  <2>3. Sum({r \in RefundsOf(o) : refund[r] = "approved"}, Amount) = TotalOver(Amounts, ApprovedOf(o))
    <3>1. PICK A : A = ApprovedOf(o)
      OBVIOUS
    <3>2. IsFiniteSet(A) /\ A \subseteq Refunds
      BY <1>1, <2>1, <3>1, RefundAmounts, FS_Subset
    <3> DEFINE f == [r \in A |-> Amount(r)]
    <3>3. DOMAIN f = A /\ \A r \in A : f[r] = Amounts[r]
      BY <3>2 DEF Amounts
    <3> HIDE DEF f
    <3>4. SumOf(f) = TotalOver(Amounts, A)
      BY <3>2, <3>3, SumOfSet
    <3> QED
      BY <3>1, <3>4 DEF f, Sum, ApprovedOf
  <2>4. Kept(o) = IF order[o].status = "none" \/ order[o].refunded > Total(o)
                  THEN 0 ELSE Total(o) - order[o].refunded
    BY <2>2, <2>3 DEF Kept
  <2>5. /\ order[o] \in Order /\ order[o].refunded \in Nat /\ Total(o) \in Nat
        /\ Net[o] = Total(o) - order[o].refunded
    BY <1>1, <2>1, RefundAmounts DEF Net, NetOf
  <2>6. /\ order[o].status \in SaleStatuses => order[o].refunded < Total(o)
        /\ order[o].status = "refunded" => order[o].refunded >= Total(o)
        /\ order[o].status # "voided"
    BY <2>1 DEF MoneyInv, StatusFits
  <2>7. order[o].status \in {"none", "paid", "partiallyRefunded", "refunded"}
    BY <2>5, <2>6 DEF Order
  <2>8. CASE o \in S
    BY <1>3, <2>4, <2>5, <2>6, <2>8 DEF SaleStatuses
  <2>9. CASE o \notin S
    BY <1>3, <2>4, <2>5, <2>6, <2>7, <2>9 DEF SaleStatuses
  <2> QED
    BY <2>8, <2>9
<1>6. PICK keep : keep = [o \in sold |-> Kept(o)]
  OBVIOUS
<1>7. sold \subseteq Orders /\ IsFiniteSet(sold) /\ S \subseteq sold /\ IsFiniteSet(S)
      /\ \A o \in S : Net[o] \in Int
  BY <1>1, <1>3, OrderAmounts
<1>8. SumOf(keep) = TotalOver(keep, sold)
  BY <1>6, <1>7, SumIsTotal
<1>9. TotalOver(keep, sold) = TotalOver(keep, S)
  <2>1. (\A o \in sold : keep[o] \in Int) /\ (\A o \in sold \ S : keep[o] = 0)
    BY <1>5, <1>6, <1>7
  <2> QED
    BY <1>7, <2>1, TotalOfRest
<1>10. TotalOver(keep, S) = TotalOver(Net, S)
  <2>1. \A o \in S : keep[o] = Net[o]
    BY <1>5, <1>6, <1>7
  <2> QED
    BY <1>7, <2>1, TotalOfSame
<1> QED
  BY <1>4, <1>6, <1>8, <1>9, <1>10 DEF Sum

LEMMA TakingsStep ==
  MoneyInv /\ zone \in Zones /\ [ReportsNext /\ OneAtATime(session')]_reportVars
    => (MoneyInv /\ zone \in Zones)'
<1> SUFFICES ASSUME MoneyInv, zone \in Zones, [ReportsNext /\ OneAtATime(session')]_reportVars
             PROVE  MoneyInv' /\ zone' \in Zones
  OBVIOUS
<1>1. zone' \in Zones
  BY DEF ReportsNext, CloseStore, SetTimezone, reportVars
<1>2. CASE Next /\ OneAtATime(session')
  BY <1>1, <1>2, ReportsParametersHold, MoneyStep
<1>3. CASE UNCHANGED vars
  <2>1. ReviewInv'
    BY <1>3, ReviewStep DEF MoneyInv
  <2>2. MoneyInv'
    BY <1>3, <2>1, MoneyStands DEF vars, MoneyInv, OneOpen, Informed, About
  <2> QED
    BY <1>1, <2>2
<1> QED
  BY <1>2, <1>3 DEF ReportsNext, CloseStore, SetTimezone, reportVars

LEMMA TakingsFollow == MoneyInv /\ zone \in Zones => TakingsAreReported
<1>1. MoneyInv => NetIsMoneyKept
  BY ReportsParametersHold, NetFollows
<1>2. MoneyInv /\ zone \in Zones => ReportsAgree
  BY ReportsParametersHold, ReportsAgreeHere DEF MoneyInv, ReviewInv
<1> QED
  BY <1>1, <1>2 DEF TakingsAreReported

(* For any orders and refunds, any periods and stores, and requests that   *)
(* are handled one at a time: the net revenue of a period is the money     *)
(* kept of its sales, and the reports of a page agree (reporting.py,       *)
(* reports.py, analytics.py).                                              *)
THEOREM TakingsAreReportedInTurn ==
  ReportsInit /\ [][ReportsNext /\ OneAtATime(session')]_reportVars => []TakingsAreReported
<1> DEFINE Inv == MoneyInv /\ zone \in Zones
<1>1. ReportsInit => Inv
  BY ReportsParametersHold, MoneyInit DEF ReportsInit
<1>2. Inv /\ [ReportsNext /\ OneAtATime(session')]_reportVars => Inv'
  BY TakingsStep
<1>3. Inv => TakingsAreReported
  BY TakingsFollow
<1> QED
  BY <1>1, <1>2, <1>3, PTL

(* In the back office: what reports say was taken was kept, and reports of  *)
(* one page agree, of requests one at a time (reporting.py).               *)
THEOREM TakingsAreReportedAlways == BackOfficeSpec => []TakingsAreReportedOneAtATime
<1> DEFINE Inv == part = "reports" => MoneyInv /\ zone \in Zones
<1>1. BackOfficeInit => Inv
  BY ReportsParametersHold, MoneyInit DEF BackOfficeInit, ReportsInit
<1>2. Inv /\ [BackOfficeNext]_backOfficeVars => Inv'
  <2> SUFFICES ASSUME Inv, [BackOfficeNext]_backOfficeVars, part' = "reports"
               PROVE  (MoneyInv /\ zone \in Zones)'
    OBVIOUS
  <2>1. part = "reports" /\ ((ReportsNext /\ OneAtATime(session')) \/ UNCHANGED reportVars)
    BY DEF BackOfficeNext, backOfficeVars
  <2> QED
    BY <2>1, TakingsStep
<1>3. Inv => TakingsAreReportedOneAtATime
  BY TakingsFollow DEF TakingsAreReportedOneAtATime
<1> QED
  BY <1>1, <1>2, <1>3, PTL DEF BackOfficeSpec

---------------------------------------------------------------------------
(* Division.                                                               *)
LEMMA DivMod ==
  ASSUME NEW n \in Nat, NEW d \in Nat, d > 0
  PROVE  /\ n \div d \in Nat
         /\ n % d \in Nat
         /\ n % d < d
         /\ n = d * (n \div d) + (n % d)
<1>1. n \div d \in Int
  OBVIOUS
<1>2. n \div d >= 0
  OBVIOUS
<1>3. n % d \in Int
  OBVIOUS
<1>4. n % d >= 0
  OBVIOUS
<1>5. n % d < d
  OBVIOUS
<1>6. n = d * (n \div d) + (n % d)
  OBVIOUS
<1> QED
  BY <1>1, <1>2, <1>3, <1>4, <1>5, <1>6

LEMMA CancelTimes ==
  ASSUME NEW t \in Nat \ {0}, NEW x \in Int, NEW y \in Int
  PROVE  /\ t * x <= t * y => x <= y
         /\ t * x < t * y => x < y
<1>1. ASSUME x > y PROVE t * x > t * y
  BY <1>1
<1>2. ASSUME x >= y PROVE t * x >= t * y
  BY <1>2
<1>3. t * x \in Int /\ t * y \in Int
  OBVIOUS
<1> QED
  BY <1>1, <1>2, <1>3

LEMMA TimesGrows ==
  ASSUME NEW t \in Nat, NEW x \in Int, NEW y \in Int, x <= y
  PROVE  t * x <= t * y
OBVIOUS

LEMMA ShareOfWhole ==
  ASSUME NEW n \in Nat, NEW pct \in 0..100
  PROVE  (n * pct) \div 100 \in 0..n
<1>1. n * pct \in Nat /\ n * pct <= n * 100
  BY TimesGrows
<1> QED
  BY <1>1

---------------------------------------------------------------------------
(* More of sums: of multiples, and of smaller things.                      *)
LEMMA TotalOfMultiples ==
  ASSUME NEW S, IsFiniteSet(S), NEW f, NEW g, NEW n \in Int,
         \A x \in S : f[x] \in Int, \A x \in S : g[x] = n * f[x]
  PROVE  TotalOver(g, S) = n * TotalOver(f, S)
<1> DEFINE good == {T \in SUBSET S : TotalOver(g, T) = n * TotalOver(f, T)}
<1>1. {} \in good
  BY TotalOfNone
<1>2. ASSUME NEW T \in SUBSET S, T # {}, \A x \in T : T \ {x} \in good PROVE T \in good
  <2>1. PICK x \in T : TRUE
    BY <1>2
  <2> DEFINE U == T \ {x}
  <2>2. IsFiniteSet(U) /\ x \notin U /\ U \cup {x} = T
    BY FS_Subset
  <2>3. \A y \in U \cup {x} : f[y] \in Int
    BY <2>2
  <2>4. \A y \in U \cup {x} : g[y] \in Int
    BY <2>2
  <2>5. TotalOver(f, U) \in Int
    BY <2>2, <2>3, TotalIsInt
  <2>6. TotalOver(g, U) = n * TotalOver(f, U)
    BY <1>2
  <2> HIDE DEF U
  <2>7. TotalOver(f, T) = TotalOver(f, U) + f[x]
    BY <2>2, <2>3, TotalOfMore
  <2>8. TotalOver(g, T) = TotalOver(g, U) + g[x]
    BY <2>2, <2>4, TotalOfMore
  <2>9. f[x] \in Int /\ g[x] = n * f[x]
    OBVIOUS
  <2>10. n * (TotalOver(f, U) + f[x]) = n * TotalOver(f, U) + n * f[x]
    BY <2>5, <2>9
  <2> QED
    BY <2>6, <2>7, <2>8, <2>9, <2>10
<1> HIDE DEF good
<1>3. \A T \in SUBSET S : T \in good
  BY <1>1, <1>2, SubsetsInduct
<1> QED
  BY <1>3 DEF good

LEMMA TotalOfSmaller ==
  ASSUME NEW S, IsFiniteSet(S), NEW f, NEW g,
         \A x \in S : f[x] \in Int, \A x \in S : g[x] \in Int, \A x \in S : f[x] <= g[x]
  PROVE  TotalOver(f, S) <= TotalOver(g, S)
<1> DEFINE good == {T \in SUBSET S : TotalOver(f, T) <= TotalOver(g, T)}
<1>1. {} \in good
  BY TotalOfNone
<1>2. ASSUME NEW T \in SUBSET S, T # {}, \A x \in T : T \ {x} \in good PROVE T \in good
  <2>1. PICK x \in T : TRUE
    BY <1>2
  <2> DEFINE U == T \ {x}
  <2>2. IsFiniteSet(U) /\ x \notin U /\ U \cup {x} = T
    BY FS_Subset
  <2>3. \A y \in U \cup {x} : f[y] \in Int
    BY <2>2
  <2>4. \A y \in U \cup {x} : g[y] \in Int
    BY <2>2
  <2>5. TotalOver(f, U) \in Int /\ TotalOver(g, U) \in Int
    BY <2>2, <2>3, <2>4, TotalIsInt
  <2>6. TotalOver(f, U) <= TotalOver(g, U)
    BY <1>2
  <2> HIDE DEF U
  <2>7. TotalOver(f, T) = TotalOver(f, U) + f[x]
    BY <2>2, <2>3, TotalOfMore
  <2>8. TotalOver(g, T) = TotalOver(g, U) + g[x]
    BY <2>2, <2>4, TotalOfMore
  <2>9. f[x] \in Int /\ g[x] \in Int /\ f[x] <= g[x]
    OBVIOUS
  <2> QED
    BY <2>5, <2>6, <2>7, <2>8, <2>9
<1> HIDE DEF good
<1>3. \A T \in SUBSET S : T \in good
  BY <1>1, <1>2, SubsetsInduct
<1> QED
  BY <1>3 DEF good

---------------------------------------------------------------------------
(* In a total order of a finite set there are as many of a rank below n as *)
(* n says, where the rank of one is how many come before it.               *)
RankedBelow(S, R, n) == {x \in S : Cardinality({y \in S : <<y, x>> \in R}) < n}

LEMMA RanksAreNumbers ==
  ASSUME NEW S, IsFiniteSet(S), NEW R,
         \A x \in S : <<x, x>> \notin R,
         \A x, y, z \in S : <<x, y>> \in R /\ <<y, z>> \in R => <<x, z>> \in R,
         \A x, y \in S : x # y => <<x, y>> \in R \/ <<y, x>> \in R,
         NEW n \in 0..Cardinality(S)
  PROVE  Cardinality(RankedBelow(S, R, n)) = n
<1> DEFINE before == [x \in S |-> {y \in S : <<y, x>> \in R}]
           rank == [x \in S |-> Cardinality(before[x])]
           size == Cardinality(S)
           first == {x \in S : rank[x] < n}
           all == 0..(size - 1)
           small == 0..(n - 1)
<1>1. size \in Nat
  BY FS_CardinalityType
<1>a. \A x \in S : before[x] \in SUBSET S /\ x \notin before[x]
  OBVIOUS
<1>b. \A x, y \in S : <<x, y>> \in R => before[x] \in SUBSET before[y] /\ x \in before[y]
  OBVIOUS
<1>c. first = RankedBelow(S, R, n)
  BY DEF RankedBelow
<1>d. \A x \in S : rank[x] = Cardinality(before[x])
  OBVIOUS
<1>e. DOMAIN rank = S /\ rank = [x \in S |-> rank[x]]
  OBVIOUS
<1>f. \A x, y \in S : x # y => <<x, y>> \in R \/ <<y, x>> \in R
  OBVIOUS
<1> HIDE DEF before, rank
<1>2. \A x \in S : IsFiniteSet(before[x]) /\ rank[x] \in Nat
  BY <1>a, <1>d, FS_Subset, FS_CardinalityType
<1>3. \A x, y \in S : <<x, y>> \in R => rank[x] < rank[y]
  <2> SUFFICES ASSUME NEW x \in S, NEW y \in S, <<x, y>> \in R PROVE rank[x] < rank[y]
    OBVIOUS
  <2>1. before[x] \in SUBSET before[y] /\ before[x] # before[y]
    BY <1>a, <1>b
  <2>2. IsFiniteSet(before[y])
    BY <1>2
  <2>3. Cardinality(before[x]) <= Cardinality(before[y])
        /\ (Cardinality(before[x]) = Cardinality(before[y]) => before[x] = before[y])
    BY <2>1, <2>2, FS_Subset
  <2>4. rank[x] \in Nat /\ rank[y] \in Nat
    BY <1>2
  <2> QED
    BY <1>d, <2>1, <2>3, <2>4
<1>4. \A x \in S : rank[x] \in all
  <2> SUFFICES ASSUME NEW x \in S PROVE rank[x] \in all
    OBVIOUS
  <2>1. before[x] \in SUBSET S /\ before[x] # S
    BY <1>a
  <2>2. Cardinality(before[x]) <= Cardinality(S)
        /\ (Cardinality(before[x]) = Cardinality(S) => before[x] = S)
    BY <2>1, FS_Subset
  <2>3. rank[x] \in Nat /\ rank[x] = Cardinality(before[x])
    BY <1>2, <1>d
  <2> QED
    BY <1>1, <2>1, <2>2, <2>3
<1>g. ASSUME NEW x \in S, NEW y \in S, rank[x] = rank[y] PROVE x = y
  <2>1. rank[x] \in Nat /\ rank[y] \in Nat
    BY <1>2
  <2>2. ~(rank[x] < rank[y]) /\ ~(rank[y] < rank[x])
    BY <1>g, <2>1
  <2>3. <<x, y>> \notin R /\ <<y, x>> \notin R
    BY <1>3, <2>2
  <2> QED
    BY <1>f, <2>3
<1>5. rank \in Injection(S, all)
  <2>2. rank \in [S -> all]
    BY <1>4, <1>e
  <2>3. IsInjective(rank)
    BY <1>e, <1>g DEF IsInjective
  <2> QED
    BY <2>2, <2>3 DEF Injection
<1>6. IsFiniteSet(all) /\ Cardinality(all) = size
  <2>1. 0 \in Int /\ size - 1 \in Int
    BY <1>1
  <2> QED
    BY <1>1, <2>1, FS_Interval
<1>7. rank \in Surjection(S, all)
  BY <1>5, <1>6, FS_Injection
<1> DEFINE some == [x \in first |-> rank[x]]
<1>8. IsFiniteSet(small) /\ Cardinality(small) = n
  <2>1. n \in Nat /\ 0 \in Int /\ n - 1 \in Int
    BY <1>1
  <2>2. IsFiniteSet(small) /\ Cardinality(small) = IF 0 > n - 1 THEN 0 ELSE (n - 1) - 0 + 1
    BY <2>1, FS_Interval
  <2> QED
    BY <2>1, <2>2
<1>9. some \in Injection(first, small)
  <2>1. \A x, y \in S : rank[x] = rank[y] => x = y
    BY <1>g
  <2>2. some \in [first -> small]
    BY <1>2
  <2>3. IsInjective(some)
    BY <2>1 DEF IsInjective
  <2> QED
    BY <2>2, <2>3 DEF Injection
<1>10. some \in Surjection(first, small)
  <2>1. ASSUME NEW k \in small PROVE \E x \in first : some[x] = k
    <3>1. k \in all
      BY <1>1
    <3>2. PICK x \in S : rank[x] = k
      BY <1>7, <3>1 DEF Surjection
    <3> QED
      BY <3>2
  <2> QED
    BY <1>9, <2>1 DEF Injection, Surjection
<1>11. Cardinality(first) = Cardinality(small)
  BY <1>8, <1>9, <1>10, FS_Injection
<1> QED
  BY <1>8, <1>11, <1>c

---------------------------------------------------------------------------
(* The shares of a discount (BookstoreShop).                               *)

LEMMA FiniteInShop ==
  \A S : (Shop!IsFiniteSet(S) <=> IsFiniteSet(S)) /\ Shop!Cardinality(S) = Cardinality(S)
BY DEF Shop!IsFiniteSet, IsFiniteSet, Shop!Cardinality, Cardinality

LEMMA ShopSumIsTotal ==
  ASSUME NEW f, IsFiniteSet(DOMAIN f)
  PROVE  Shop!Sum(f) = TotalOver(f, DOMAIN f)
BY DEF Shop!Sum, Shop!MapThenSumSet, Shop!MapThenFoldSet, TotalOver, Sums, Some

RestOf(amounts, discount) ==
  [i \in DOMAIN amounts |-> (amounts[i] * discount) % Shop!Sum(amounts)]

(* Which remainders go before which.                                       *)
Precedes(amounts, rest) ==
  {p \in (DOMAIN amounts) \X (DOMAIN amounts) :
     \/ rest[p[1]] > rest[p[2]]
     \/ rest[p[1]] = rest[p[2]] /\ amounts[p[1]] > amounts[p[2]]
     \/ rest[p[1]] = rest[p[2]] /\ amounts[p[1]] = amounts[p[2]] /\ p[1] < p[2]}

LEMMA AllocationIs ==
  ASSUME NEW amounts, NEW discount, NEW rest, NEW prec, NEW shares, NEW left,
         rest = RestOf(amounts, discount), prec = Precedes(amounts, rest),
         shares = Shop!Shares(amounts, discount), left = discount - Shop!Sum(shares)
  PROVE  Shop!AllocateDiscount(amounts, discount) =
           [i \in DOMAIN amounts |->
              shares[i] + (IF Cardinality({j \in DOMAIN amounts : <<j, i>> \in prec}) < left
                           THEN 1 ELSE 0)]
<1> DEFINE D == DOMAIN amounts
           RestAt(i) == (amounts[i] * discount) % Shop!Sum(amounts)
           BeforeAt(i, j) == \/ RestAt(i) > RestAt(j)
                             \/ RestAt(i) = RestAt(j) /\ amounts[i] > amounts[j]
                             \/ RestAt(i) = RestAt(j) /\ amounts[i] = amounts[j] /\ i < j
           RankAt(i) == Shop!Cardinality({j \in D : BeforeAt(j, i)})
<1>1. Shop!AllocateDiscount(amounts, discount) =
        [i \in D |-> Shop!Shares(amounts, discount)[i]
           + (IF RankAt(i) < discount - Shop!Sum(Shop!Shares(amounts, discount)) THEN 1 ELSE 0)]
  BY Zenon DEF Shop!AllocateDiscount, Shop!Quantify
<1>2. \A i \in D : rest[i] = RestAt(i)
  BY DEF RestOf
<1> HIDE DEF RestAt
<1>3. \A i \in D : {j \in D : BeforeAt(j, i)} = {j \in D : <<j, i>> \in prec}
  BY <1>2 DEF Precedes
<1> HIDE DEF BeforeAt
<1>4. \A i \in D : RankAt(i) = Cardinality({j \in D : <<j, i>> \in prec})
  BY <1>3, FiniteInShop
<1> HIDE DEF RankAt
<1> QED
  BY <1>1, <1>4

LEMMA PrecedesIsTotal ==
  ASSUME NEW amounts, NEW rest, DOMAIN amounts \subseteq Nat,
         \A i \in DOMAIN amounts : amounts[i] \in Nat /\ rest[i] \in Nat
  PROVE  LET D == DOMAIN amounts
             prec == Precedes(amounts, rest) IN
         /\ \A x \in D : <<x, x>> \notin prec
         /\ \A x, y, z \in D : <<x, y>> \in prec /\ <<y, z>> \in prec => <<x, z>> \in prec
         /\ \A x, y \in D : x # y => <<x, y>> \in prec \/ <<y, x>> \in prec
<1> DEFINE D == DOMAIN amounts
           prec == Precedes(amounts, rest)
<1>1. \A x, y \in D : <<x, y>> \in prec <=>
        \/ rest[x] > rest[y]
        \/ rest[x] = rest[y] /\ amounts[x] > amounts[y]
        \/ rest[x] = rest[y] /\ amounts[x] = amounts[y] /\ x < y
  <2> SUFFICES ASSUME NEW x \in D, NEW y \in D
               PROVE  <<x, y>> \in prec <=>
                        \/ rest[x] > rest[y]
                        \/ rest[x] = rest[y] /\ amounts[x] > amounts[y]
                        \/ rest[x] = rest[y] /\ amounts[x] = amounts[y] /\ x < y
    OBVIOUS
  <2>1. <<x, y>> \in D \X D /\ <<x, y>>[1] = x /\ <<x, y>>[2] = y
    OBVIOUS
  <2> QED
    BY <2>1 DEF Precedes
<1>2. \A x \in D : x \in Nat /\ amounts[x] \in Nat /\ rest[x] \in Nat
  OBVIOUS
<1> HIDE DEF prec, D
<1>3. ASSUME NEW x \in D PROVE <<x, x>> \notin prec
  BY <1>1, <1>2
<1>4. ASSUME NEW x \in D, NEW y \in D, NEW z \in D, <<x, y>> \in prec, <<y, z>> \in prec
      PROVE  <<x, z>> \in prec
  <2>1. /\ x \in Nat /\ amounts[x] \in Nat /\ rest[x] \in Nat
        /\ y \in Nat /\ amounts[y] \in Nat /\ rest[y] \in Nat
        /\ z \in Nat /\ amounts[z] \in Nat /\ rest[z] \in Nat
    BY <1>2
  <2>2. \/ rest[x] > rest[y]
        \/ rest[x] = rest[y] /\ amounts[x] > amounts[y]
        \/ rest[x] = rest[y] /\ amounts[x] = amounts[y] /\ x < y
    BY <1>1, <1>4
  <2>3. \/ rest[y] > rest[z]
        \/ rest[y] = rest[z] /\ amounts[y] > amounts[z]
        \/ rest[y] = rest[z] /\ amounts[y] = amounts[z] /\ y < z
    BY <1>1, <1>4
  <2>4. \/ rest[x] > rest[z]
        \/ rest[x] = rest[z] /\ amounts[x] > amounts[z]
        \/ rest[x] = rest[z] /\ amounts[x] = amounts[z] /\ x < z
    BY <2>1, <2>2, <2>3
  <2> QED
    BY <1>1, <2>4
<1>5. ASSUME NEW x \in D, NEW y \in D, x # y PROVE <<x, y>> \in prec \/ <<y, x>> \in prec
  <2>1. /\ x \in Nat /\ amounts[x] \in Nat /\ rest[x] \in Nat
        /\ y \in Nat /\ amounts[y] \in Nat /\ rest[y] \in Nat
    BY <1>2
  <2> QED
    BY <1>1, <1>5, <2>1
<1> QED
  BY <1>3, <1>4, <1>5 DEF D, prec

(* The shares of a discount make it up, and no share is more than the      *)
(* amount it is of.                                                        *)
LEMMA SharesMakeDiscount ==
  ASSUME NEW amounts, IsFiniteSet(DOMAIN amounts), DOMAIN amounts \subseteq Nat,
         \A i \in DOMAIN amounts : amounts[i] \in Nat,
         Shop!Sum(amounts) > 0, NEW discount \in 0..Shop!Sum(amounts)
  PROVE  LET given == Shop!AllocateDiscount(amounts, discount) IN
         /\ DOMAIN given = DOMAIN amounts
         /\ \A i \in DOMAIN amounts : given[i] \in 0..amounts[i]
         /\ TotalOver(given, DOMAIN amounts) = discount
<1> DEFINE D == DOMAIN amounts
           whole == Shop!Sum(amounts)
           shares == Shop!Shares(amounts, discount)
           rest == RestOf(amounts, discount)
           prec == Precedes(amounts, rest)
           left == discount - Shop!Sum(shares)
           before == [i \in D |-> {j \in D : <<j, i>> \in prec}]
           extra == [i \in D |-> IF Cardinality(before[i]) < left THEN 1 ELSE 0]
           given == [i \in D |-> shares[i] + extra[i]]
           some == {i \in D : rest[i] > 0}
           multiple == [i \in D |-> discount * amounts[i]]
           parts == [i \in D |-> whole * shares[i]]
           one == [i \in D |-> 1]
           wholes == [i \in D |-> whole * one[i]]
<1>1. whole = TotalOver(amounts, D)
  BY ShopSumIsTotal
<1>2. whole \in Nat /\ whole > 0 /\ discount \in Nat /\ discount <= whole
  <2>1. \A i \in D : amounts[i] \in Int
    OBVIOUS
  <2>2. TotalOver(amounts, D) \in Int
    BY <2>1, TotalIsInt
  <2> QED
    BY <1>1, <2>2
<1>3. Shop!AllocateDiscount(amounts, discount) = given
  <2>1. Shop!AllocateDiscount(amounts, discount) =
          [i \in D |-> shares[i] + (IF Cardinality({j \in D : <<j, i>> \in prec}) < left THEN 1 ELSE 0)]
    BY AllocationIs
  <2> QED
    BY <2>1
<1>4. \A i \in D : amounts[i] \in Nat /\ i \in Nat
  OBVIOUS
<1>5. IsFiniteSet(D)
  OBVIOUS
<1>6. \A i \in D : /\ shares[i] = (amounts[i] * discount) \div whole
                   /\ rest[i] = (amounts[i] * discount) % whole
  BY DEF Shop!Shares, RestOf
<1>7. DOMAIN shares = D
  BY DEF Shop!Shares
<1>8. \A i \in D : before[i] = {j \in D : <<j, i>> \in prec}
  OBVIOUS
<1>9. \A i, j \in D : rest[i] = 0 /\ rest[j] > 0 => <<j, i>> \in prec
  <2> SUFFICES ASSUME NEW i \in D, NEW j \in D, rest[i] = 0, rest[j] > 0 PROVE <<j, i>> \in prec
    OBVIOUS
  <2>1. <<j, i>> \in D \X D /\ <<j, i>>[1] = j /\ <<j, i>>[2] = i
    OBVIOUS
  <2> QED
    BY <2>1 DEF Precedes
<1> HIDE DEF shares, rest, whole, left, before
<1>10. \A i \in D : /\ shares[i] \in Nat /\ rest[i] \in Nat /\ rest[i] < whole
                    /\ discount * amounts[i] = whole * shares[i] + rest[i]
  <2> SUFFICES ASSUME NEW i \in D
               PROVE  /\ shares[i] \in Nat /\ rest[i] \in Nat /\ rest[i] < whole
                      /\ discount * amounts[i] = whole * shares[i] + rest[i]
    OBVIOUS
  <2>1. amounts[i] * discount \in Nat /\ amounts[i] * discount = discount * amounts[i]
    BY <1>2, <1>4
  <2>2. /\ (amounts[i] * discount) \div whole \in Nat
        /\ (amounts[i] * discount) % whole \in Nat
        /\ (amounts[i] * discount) % whole < whole
        /\ amounts[i] * discount = whole * ((amounts[i] * discount) \div whole)
                                     + ((amounts[i] * discount) % whole)
    BY <1>2, <2>1, DivMod
  <2> QED
    BY <1>6, <2>1, <2>2
<1>11. /\ \A x \in D : <<x, x>> \notin prec
       /\ \A x, y, z \in D : <<x, y>> \in prec /\ <<y, z>> \in prec => <<x, z>> \in prec
       /\ \A x, y \in D : x # y => <<x, y>> \in prec \/ <<y, x>> \in prec
  <2>1. D \subseteq Nat /\ \A i \in D : amounts[i] \in Nat /\ rest[i] \in Nat
    BY <1>4, <1>10
  <2> QED
    BY <2>1, PrecedesIsTotal
<1> HIDE DEF prec
<1>12. left = discount - TotalOver(shares, D) /\ TotalOver(shares, D) \in Int
  <2>1. Shop!Sum(shares) = TotalOver(shares, D)
    BY <1>5, <1>7, ShopSumIsTotal
  <2>2. \A i \in D : shares[i] \in Int
    BY <1>10
  <2>3. TotalOver(shares, D) \in Int
    BY <1>5, <2>2, TotalIsInt
  <2> QED
    BY <2>1, <2>3 DEF left
<1>13. whole * left = TotalOver(rest, D) /\ TotalOver(rest, D) \in Int
  <2>1. \A i \in D : amounts[i] \in Int
    BY <1>4
  <2>2. \A i \in D : multiple[i] = discount * amounts[i]
    OBVIOUS
  <2>3. discount \in Int /\ whole \in Int
    BY <1>2
  <2>4. \A i \in D : shares[i] \in Int
    BY <1>10
  <2>5. \A i \in D : parts[i] = whole * shares[i]
    OBVIOUS
  <2>6. \A i \in D : rest[i] \in Int
    BY <1>10
  <2>7. \A i \in D : parts[i] \in Int
    BY <2>3, <2>4, <2>5
  <2>8. \A i \in D : multiple[i] = parts[i] + rest[i]
    BY <1>10, <2>2, <2>5
  <2> HIDE DEF multiple, parts
  <2>9. TotalOver(multiple, D) = discount * TotalOver(amounts, D)
    BY <1>5, <2>1, <2>2, <2>3, TotalOfMultiples
  <2>10. TotalOver(parts, D) = whole * TotalOver(shares, D)
    BY <1>5, <2>3, <2>4, <2>5, TotalOfMultiples
  <2>11. TotalOver(multiple, D) = TotalOver(parts, D) + TotalOver(rest, D)
    BY <1>5, <2>6, <2>7, <2>8, TotalOfSum
  <2>12. TotalOver(rest, D) \in Int
    BY <1>5, <2>6, TotalIsInt
  <2>13. discount * whole = whole * TotalOver(shares, D) + TotalOver(rest, D)
    BY <1>1, <2>9, <2>10, <2>11
  <2>14. whole * left = whole * discount - whole * TotalOver(shares, D)
    BY <1>2, <1>12
  <2> QED
    BY <1>2, <1>12, <2>12, <2>13, <2>14
<1>14. IsFiniteSet(some) /\ some \in SUBSET D /\ Cardinality(some) \in Nat
       /\ Cardinality(some) <= Cardinality(D)
  <2>1. some \in SUBSET D
    OBVIOUS
  <2> QED
    BY <1>5, <2>1, FS_Subset, FS_CardinalityType
<1>15. left \in 0..Cardinality(some)
  <2>1. \A i \in D : rest[i] \in Int /\ rest[i] \in Nat
    BY <1>10
  <2>2. \A i \in D \ some : rest[i] = 0
    BY <2>1
  <2>3. \A i \in some : i \in D
    OBVIOUS
  <2>4. \A i \in some : one[i] = 1
    BY <2>3
  <2>5. \A i \in some : wholes[i] = whole * one[i]
    BY <2>3
  <2>6. \A i \in some : rest[i] <= wholes[i]
    BY <1>2, <1>10, <2>3, <2>4, <2>5
  <2>7. \A i \in some : wholes[i] \in Int /\ one[i] \in Int /\ rest[i] \in Int
    BY <1>2, <2>1, <2>3, <2>4, <2>5
  <2> DEFINE none == [i \in D |-> 0 * one[i]]
  <2>8. \A i \in D : none[i] = 0 * one[i] /\ one[i] \in Int /\ none[i] \in Int
    OBVIOUS
  <2>9. \A i \in D : none[i] <= rest[i]
    BY <2>1
  <2> HIDE DEF some, one, wholes, none
  <2>10. TotalOver(rest, D) = TotalOver(rest, some)
    BY <1>5, <1>14, <2>1, <2>2, TotalOfRest
  <2>11. TotalOver(rest, some) <= TotalOver(wholes, some)
    <3>1. (\A i \in some : rest[i] \in Int) /\ (\A i \in some : wholes[i] \in Int)
      BY <2>7
    <3> QED
      BY <1>14, <2>6, <3>1, TotalOfSmaller
  <2>12. TotalOver(wholes, some) = whole * TotalOver(one, some)
    <3>1. (\A i \in some : one[i] \in Int) /\ whole \in Int
      BY <1>2, <2>7
    <3> QED
      BY <1>14, <2>5, <3>1, TotalOfMultiples
  <2>13. TotalOver(one, some) = Cardinality(some)
    BY <1>14, <2>4, CountIsTotal
  <2>14. whole * left <= whole * Cardinality(some)
    BY <1>13, <2>10, <2>11, <2>12, <2>13
  <2>15. TotalOver(none, D) = 0 * TotalOver(one, D) /\ TotalOver(one, D) \in Int
    <3>1. (\A i \in D : one[i] \in Int) /\ (\A i \in D : none[i] = 0 * one[i]) /\ 0 \in Int
      BY <2>8
    <3> QED
      BY <1>5, <3>1, TotalOfMultiples, TotalIsInt
  <2>16. TotalOver(none, D) <= TotalOver(rest, D)
    <3>1. (\A i \in D : none[i] \in Int) /\ (\A i \in D : rest[i] \in Int)
      BY <2>1, <2>8
    <3> QED
      BY <1>5, <2>9, <3>1, TotalOfSmaller
  <2>17. whole * 0 <= whole * left
    BY <1>2, <1>13, <2>15, <2>16
  <2>18. whole \in Nat \ {0} /\ left \in Int /\ 0 \in Int /\ Cardinality(some) \in Int
    BY <1>2, <1>12, <1>14
  <2>19. left <= Cardinality(some)
    BY <2>14, <2>18, CancelTimes
  <2>20. 0 <= left
    BY <2>17, <2>18, CancelTimes
  <2> QED
    BY <2>18, <2>19, <2>20
<1>16. TotalOver(extra, D) = left
  <2> DEFINE chosen == {i \in D : Cardinality({j \in D : <<j, i>> \in prec}) < left}
  <2>1. left \in 0..Cardinality(D)
    BY <1>5, <1>14, <1>15, FS_CardinalityType
  <2>2. Cardinality(chosen) = left
    <3>1. \A x \in D : <<x, x>> \notin prec
      BY <1>11
    <3>2. \A x, y, z \in D : <<x, y>> \in prec /\ <<y, z>> \in prec => <<x, z>> \in prec
      BY <1>11
    <3>3. \A x, y \in D : x # y => <<x, y>> \in prec \/ <<y, x>> \in prec
      BY <1>11
    <3> HIDE DEF D
    <3>4. Cardinality(RankedBelow(D, prec, left)) = left
      BY <1>5, <3>1, <3>2, <3>3, <2>1, RanksAreNumbers
    <3> QED
      BY <3>4 DEF RankedBelow
  <2>3. \A i \in D : extra[i] = IF i \in chosen THEN 1 ELSE 0
    BY <1>8
  <2>4. chosen \in SUBSET D
    OBVIOUS
  <2> HIDE DEF chosen, extra
  <2>5. IsFiniteSet(chosen)
    BY <1>5, <2>4, FS_Subset
  <2>6. (\A i \in D : extra[i] \in Int) /\ (\A i \in D \ chosen : extra[i] = 0)
    BY <2>3
  <2>7. TotalOver(extra, D) = TotalOver(extra, chosen)
    BY <1>5, <2>4, <2>6, TotalOfRest
  <2>8. \A i \in chosen : extra[i] = 1
    BY <2>3, <2>4
  <2>9. TotalOver(extra, chosen) = Cardinality(chosen)
    BY <2>5, <2>8, CountIsTotal
  <2> QED
    BY <2>2, <2>7, <2>9
<1>17. TotalOver(given, D) = discount
  <2>1. (\A i \in D : shares[i] \in Int) /\ (\A i \in D : extra[i] \in Int)
        /\ (\A i \in D : given[i] = shares[i] + extra[i])
    BY <1>10
  <2> HIDE DEF given, extra
  <2>2. TotalOver(given, D) = TotalOver(shares, D) + TotalOver(extra, D)
    BY <1>5, <2>1, TotalOfSum
  <2> QED
    BY <1>2, <1>12, <1>16, <2>2
<1>18. ASSUME NEW i \in D PROVE given[i] \in 0..amounts[i]
  <2>1. /\ shares[i] \in Nat /\ rest[i] \in Nat /\ amounts[i] \in Nat
        /\ whole * shares[i] + rest[i] = discount * amounts[i]
    BY <1>4, <1>10
  <2>2. discount * amounts[i] <= whole * amounts[i]
    <3>1. amounts[i] * discount <= amounts[i] * whole
      BY <1>2, <2>1, TimesGrows
    <3> QED
      BY <1>2, <2>1, <3>1
  <2>3. whole * shares[i] \in Int /\ whole * amounts[i] \in Int /\ discount * amounts[i] \in Int
    BY <1>2, <2>1
  <2>4. whole \in Nat \ {0} /\ shares[i] \in Int /\ amounts[i] \in Int
    BY <1>2, <2>1
  <2>5. CASE extra[i] = 0
    <3>1. whole * shares[i] <= whole * amounts[i]
      BY <2>1, <2>2, <2>3
    <3>2. shares[i] <= amounts[i]
      BY <2>4, <3>1, CancelTimes
    <3> QED
      BY <2>1, <2>5, <3>2
  <2>6. CASE extra[i] # 0
    <3>1. extra[i] = 1 /\ Cardinality(before[i]) < left
      BY <2>6
    <3>2. rest[i] # 0
      <4> SUFFICES ASSUME rest[i] = 0 PROVE FALSE
        OBVIOUS
      <4>1. some \subseteq before[i]
        BY <1>8, <1>9
      <4>2. before[i] \in SUBSET D
        BY <1>8
      <4> HIDE DEF some
      <4>3. IsFiniteSet(before[i])
        BY <1>5, <4>2, FS_Subset
      <4>4. Cardinality(some) <= Cardinality(before[i]) /\ Cardinality(before[i]) \in Nat
        BY <4>1, <4>3, FS_Subset, FS_CardinalityType
      <4> QED
        BY <1>14, <1>15, <3>1, <4>4
    <3>3. whole * shares[i] < whole * amounts[i]
      BY <2>1, <2>2, <2>3, <3>2
    <3>4. shares[i] < amounts[i]
      BY <2>4, <3>3, CancelTimes
    <3> QED
      BY <2>1, <3>1, <3>4
  <2> QED
    BY <2>5, <2>6
<1> QED
  BY <1>3, <1>17, <1>18

---------------------------------------------------------------------------
(* The items of a line of the invoice, and of all of its lines.            *)

InvoiceItem == [qty : Int, price : Int, amount : Nat]

(* What the items of a sequence come to.                                   *)
Worth(s) == TotalOver([i \in DOMAIN s |-> s[i].amount], DOMAIN s)

LEMMA WorthOfNone == Worth(<<>>) = 0
<1>1. DOMAIN <<>> = {}
  OBVIOUS
<1> QED
  BY <1>1, TotalOfNone DEF Worth

LEMMA WorthOfMore ==
  ASSUME NEW s \in Seq(InvoiceItem), NEW x \in InvoiceItem
  PROVE  /\ Append(s, x) \in Seq(InvoiceItem)
         /\ Worth(Append(s, x)) = Worth(s) + x.amount
<1> DEFINE n == Len(s)
           f == [i \in 1..n |-> s[i].amount]
           g == [i \in 1..(n + 1) |-> Append(s, x)[i].amount]
<1>1. n \in Nat /\ DOMAIN s = 1..n
  BY LenProperties
<1>2. /\ Append(s, x) \in Seq(InvoiceItem) /\ Len(Append(s, x)) = n + 1
      /\ \A i \in 1..n : Append(s, x)[i] = s[i]
      /\ Append(s, x)[n + 1] = x
  BY AppendProperties
<1>3. DOMAIN Append(s, x) = 1..(n + 1)
  BY <1>2, LenProperties
<1>4. Worth(s) = TotalOver(f, 1..n) /\ Worth(Append(s, x)) = TotalOver(g, 1..(n + 1))
  BY <1>1, <1>3 DEF Worth
<1>5. \A i \in 1..n : s[i] \in InvoiceItem
  BY ElementOfSeq
<1>6. \A i \in 1..n : f[i] = g[i] /\ g[i] \in Int
  BY <1>1, <1>2, <1>5 DEF InvoiceItem
<1>7. g[n + 1] = x.amount /\ x.amount \in Int
  BY <1>1, <1>2 DEF InvoiceItem
<1> HIDE DEF f, g, n
<1>8. IsFiniteSet(1..n)
  <2>1. 1 \in Int /\ n \in Int
    BY <1>1
  <2> QED
    BY <2>1, FS_Interval
<1>9. 1..(n + 1) = (1..n) \cup {n + 1} /\ n + 1 \notin 1..n
  BY <1>1
<1>11. TotalOver(g, 1..(n + 1)) = TotalOver(g, 1..n) + g[n + 1]
  <2> DEFINE T == 1..n
             m == n + 1
  <2>1. IsFiniteSet(T) /\ m \notin T /\ 1..m = T \cup {m}
    BY <1>8, <1>9
  <2>2. (\A i \in T : g[i] \in Int) /\ g[m] \in Int
    BY <1>6, <1>7
  <2> HIDE DEF T, m
  <2>3. \A i \in T \cup {m} : g[i] \in Int
    BY <2>2
  <2>4. TotalOver(g, T \cup {m}) = TotalOver(g, T) + g[m]
    BY <2>1, <2>3, TotalOfMore
  <2> QED
    BY <2>1, <2>4 DEF T, m
<1>12. TotalOver(f, 1..n) = TotalOver(g, 1..n)
  <2>1. \A i \in 1..n : f[i] = g[i]
    BY <1>6
  <2> QED
    BY <1>8, <2>1, TotalOfSame
<1> QED
  BY <1>2, <1>4, <1>7, <1>11, <1>12

LEMMA WorthIsInt == ASSUME NEW s \in Seq(InvoiceItem) PROVE Worth(s) \in Int
<1> DEFINE f == [i \in DOMAIN s |-> s[i].amount]
<1>1. Len(s) \in Nat /\ DOMAIN s = 1..Len(s)
  BY LenProperties
<1>2. IsFiniteSet(DOMAIN s)
  <2>1. 1 \in Int /\ Len(s) \in Int
    BY <1>1
  <2> QED
    BY <1>1, <2>1, FS_Interval
<1>3. \A i \in DOMAIN s : s[i] \in InvoiceItem
  BY <1>1, ElementOfSeq
<1>4. \A i \in DOMAIN s : f[i] \in Int
  BY <1>3 DEF InvoiceItem
<1> HIDE DEF f
<1>5. TotalOver(f, DOMAIN s) \in Int
  BY <1>2, <1>4, TotalIsInt
<1> QED
  BY <1>5 DEF Worth, f

(* One item or two.                                                        *)
OneOrTwo(s) ==
  \/ \E x \in InvoiceItem : s = <<x>>
  \/ \E x, y \in InvoiceItem : s = <<x, y>>

LEMMA WorthOfJoined ==
  ASSUME NEW s \in Seq(InvoiceItem), NEW t, OneOrTwo(t)
  PROVE  /\ t \in Seq(InvoiceItem) /\ s \o t \in Seq(InvoiceItem)
         /\ Worth(t) \in Int /\ Worth(s \o t) = Worth(s) + Worth(t)
<1>1. Worth(s) \in Int
  BY WorthIsInt
<1>2. <<>> \in Seq(InvoiceItem) /\ Worth(<<>>) = 0
  BY WorthOfNone
<1>3. CASE \E x \in InvoiceItem : t = <<x>>
  <2>1. PICK x \in InvoiceItem : t = <<x>>
    BY <1>3
  <2>2. x.amount \in Int
    BY DEF InvoiceItem
  <2>3. t = Append(<<>>, x) /\ s \o t = Append(s, x)
    BY <2>1
  <2>4. t \in Seq(InvoiceItem) /\ Worth(t) = 0 + x.amount
    BY <1>2, <2>3, WorthOfMore
  <2>5. s \o t \in Seq(InvoiceItem) /\ Worth(s \o t) = Worth(s) + x.amount
    BY <2>3, WorthOfMore
  <2> QED
    BY <1>1, <2>2, <2>4, <2>5
<1>4. CASE \E x, y \in InvoiceItem : t = <<x, y>>
  <2>1. PICK x \in InvoiceItem, y \in InvoiceItem : t = <<x, y>>
    BY <1>4
  <2>2. x.amount \in Int /\ y.amount \in Int
    BY DEF InvoiceItem
  <2>3. t = Append(Append(<<>>, x), y) /\ s \o t = Append(Append(s, x), y)
    BY <2>1
  <2>4. Append(<<>>, x) \in Seq(InvoiceItem) /\ Worth(Append(<<>>, x)) = 0 + x.amount
    BY <1>2, WorthOfMore
  <2>5. t \in Seq(InvoiceItem) /\ Worth(t) = Worth(Append(<<>>, x)) + y.amount
    BY <2>3, <2>4, WorthOfMore
  <2>6. Append(s, x) \in Seq(InvoiceItem) /\ Worth(Append(s, x)) = Worth(s) + x.amount
    BY WorthOfMore
  <2>7. s \o t \in Seq(InvoiceItem) /\ Worth(s \o t) = Worth(Append(s, x)) + y.amount
    BY <2>3, <2>6, WorthOfMore
  <2> QED
    BY <1>1, <2>2, <2>4, <2>5, <2>6, <2>7
<1> QED
  BY <1>3, <1>4 DEF OneOrTwo

(* What FlattenSeq joins, so far.                                          *)
Joins(g, n, seqs) ==
  g = [i \in 1..n |-> IF i = 1 THEN seqs[i] ELSE g[i - 1] \o seqs[i]]

LEMMA JoinsExist ==
  ASSUME NEW seqs, NEW n \in Nat
  PROVE  \E g : Joins(g, n, seqs)
<1> DEFINE good == {k \in Nat : \E g : Joins(g, k, seqs)}
<1>1. 0 \in good
  <2> DEFINE g == [i \in 1..0 |-> seqs[i]]
  <2>1. 1..0 = {}
    OBVIOUS
  <2>2. Joins(g, 0, seqs)
    BY <2>1 DEF Joins
  <2> QED
    BY <2>2
<1>2. ASSUME NEW k \in Nat, k \in good PROVE k + 1 \in good
  <2>1. PICK g : Joins(g, k, seqs)
    BY <1>2
  <2> DEFINE h == [i \in 1..(k + 1) |-> IF i = 1 THEN seqs[i] ELSE g[i - 1] \o seqs[i]]
  <2>2. \A i \in 1..(k + 1) : i # 1 => h[i - 1] = g[i - 1]
    <3> SUFFICES ASSUME NEW i \in 1..(k + 1), i # 1 PROVE h[i - 1] = g[i - 1]
      OBVIOUS
    <3>1. i - 1 \in 1..k /\ i - 1 \in 1..(k + 1)
      OBVIOUS
    <3> QED
      BY <2>1, <3>1 DEF Joins
  <2>3. h = [i \in 1..(k + 1) |-> IF i = 1 THEN seqs[i] ELSE h[i - 1] \o seqs[i]]
    BY <2>2
  <2> HIDE DEF h
  <2>4. Joins(h, k + 1, seqs)
    BY <2>3 DEF Joins
  <2> QED
    BY <2>4
<1> HIDE DEF good
<1>3. n \in good
  BY <1>1, <1>2, NaturalsInduct
<1> QED
  BY <1>3 DEF good

LEMMA JoinsAddUp ==
  ASSUME NEW seqs, NEW n \in Nat, \A i \in 1..n : OneOrTwo(seqs[i]),
         NEW g, Joins(g, n, seqs), NEW worth, \A i \in 1..n : worth[i] = Worth(seqs[i])
  PROVE  \A k \in 1..n : g[k] \in Seq(InvoiceItem) /\ Worth(g[k]) = TotalOver(worth, 1..k)
<1> DEFINE good == {k \in Nat : k \in 1..n =>
                      g[k] \in Seq(InvoiceItem) /\ Worth(g[k]) = TotalOver(worth, 1..k)}
<1>1. 0 \in good
  OBVIOUS
<1>2. ASSUME NEW k \in Nat, k \in good PROVE k + 1 \in good
  <2> SUFFICES ASSUME k + 1 \in 1..n
               PROVE  /\ g[k + 1] \in Seq(InvoiceItem)
                      /\ Worth(g[k + 1]) = TotalOver(worth, 1..(k + 1))
    OBVIOUS
  <2>1. \A i \in 1..(k + 1) : worth[i] \in Int /\ worth[i] = Worth(seqs[i])
                              /\ OneOrTwo(seqs[i]) /\ seqs[i] \in Seq(InvoiceItem)
    <3> SUFFICES ASSUME NEW i \in 1..(k + 1)
                 PROVE  worth[i] \in Int /\ worth[i] = Worth(seqs[i])
                        /\ OneOrTwo(seqs[i]) /\ seqs[i] \in Seq(InvoiceItem)
      OBVIOUS
    <3>1. i \in 1..n
      OBVIOUS
    <3>2. OneOrTwo(seqs[i]) /\ worth[i] = Worth(seqs[i])
      BY <3>1
    <3>3. <<>> \in Seq(InvoiceItem)
      OBVIOUS
    <3> QED
      BY <3>2, <3>3, WorthOfJoined
  <2>2. IsFiniteSet(1..k) /\ 1..(k + 1) = (1..k) \cup {k + 1} /\ k + 1 \notin 1..k
    <3>1. 1 \in Int /\ k \in Int
      OBVIOUS
    <3>2. IsFiniteSet(1..k)
      BY <3>1, FS_Interval
    <3>3. 1..(k + 1) = (1..k) \cup {k + 1} /\ k + 1 \notin 1..k
      OBVIOUS
    <3> QED
      BY <3>2, <3>3
  <2>3. TotalOver(worth, 1..(k + 1)) = TotalOver(worth, 1..k) + worth[k + 1]
    <3> DEFINE T == 1..k
               m == k + 1
    <3>0. \A i \in 1..m : worth[i] \in Int
      BY <2>1
    <3>2. IsFiniteSet(T) /\ m \notin T /\ 1..m = T \cup {m}
      BY <2>2
    <3> HIDE DEF T, m
    <3>1. \A i \in T \cup {m} : worth[i] \in Int
      BY <3>0, <3>2
    <3>3. TotalOver(worth, T \cup {m}) = TotalOver(worth, T) + worth[m]
      BY <3>1, <3>2, TotalOfMore
    <3>4. TotalOver(worth, 1..m) = TotalOver(worth, T) + worth[m]
      BY <3>2, <3>3
    <3> QED
      BY <3>4 DEF T, m
  <2>4. k + 1 \in 1..(k + 1) /\ worth[k + 1] \in Int /\ worth[k + 1] = Worth(seqs[k + 1])
        /\ OneOrTwo(seqs[k + 1]) /\ seqs[k + 1] \in Seq(InvoiceItem)
    BY <2>1
  <2>5. CASE k = 0
    <3>1. g[k + 1] = seqs[k + 1]
      BY <2>5 DEF Joins
    <3>2. 1..k = {}
      BY <2>5
    <3>3. TotalOver(worth, 1..k) = 0
      BY <3>2, TotalOfNone
    <3>4. 0 + worth[k + 1] = worth[k + 1]
      BY <2>4
    <3>5. TotalOver(worth, 1..(k + 1)) = worth[k + 1]
      BY <2>3, <3>3, <3>4
    <3> QED
      BY <2>4, <3>1, <3>5
  <2>6. CASE k # 0
    <3>1. g[k + 1] = g[k] \o seqs[k + 1]
      <4>1. k + 1 \in 1..n /\ k + 1 # 1 /\ (k + 1) - 1 = k
        BY <2>6
      <4>2. g[k + 1] = g[(k + 1) - 1] \o seqs[k + 1]
        BY <4>1 DEF Joins
      <4> QED
        BY <4>1, <4>2
    <3>2. g[k] \in Seq(InvoiceItem) /\ Worth(g[k]) = TotalOver(worth, 1..k)
      BY <1>2, <2>6
    <3>3. /\ g[k] \o seqs[k + 1] \in Seq(InvoiceItem)
          /\ Worth(g[k] \o seqs[k + 1]) = Worth(g[k]) + Worth(seqs[k + 1])
      BY <2>4, <3>2, WorthOfJoined
    <3> QED
      BY <2>3, <2>4, <3>1, <3>2, <3>3
  <2> QED
    BY <2>5, <2>6
<1> HIDE DEF good
<1>3. \A k \in Nat : k \in good
  BY <1>1, <1>2, NaturalsInduct
<1> QED
  BY <1>3 DEF good

LEMMA FlattenedAddsUp ==
  ASSUME NEW n \in Nat, NEW seqs, seqs = [i \in 1..n |-> seqs[i]],
         \A i \in 1..n : OneOrTwo(seqs[i]),
         NEW worth, \A i \in 1..n : worth[i] = Worth(seqs[i])
  PROVE  /\ Shop!FlattenSeq(seqs) \in Seq(InvoiceItem)
         /\ Worth(Shop!FlattenSeq(seqs)) = TotalOver(worth, 1..n)
<1>1. Len(seqs) = n /\ <<>> \in Seq(InvoiceItem)
  OBVIOUS
<1>2. CASE n = 0
  <2>1. seqs = <<>> /\ 1..n = {}
    BY <1>2
  <2>2. Shop!FlattenSeq(seqs) = <<>>
    BY <1>1, <1>2, <2>1 DEF Shop!FlattenSeq
  <2> QED
    BY <1>1, <2>1, <2>2, WorthOfNone, TotalOfNone
<1>3. CASE n # 0
  <2> DEFINE g == CHOOSE g : Joins(g, n, seqs)
  <2>1. Shop!FlattenSeq(seqs) = g[n]
    BY <1>1, <1>3 DEF Shop!FlattenSeq, Joins
  <2>2. Joins(g, n, seqs)
    BY JoinsExist
  <2> HIDE DEF g
  <2>3. n \in 1..n
    BY <1>3
  <2> QED
    BY <2>1, <2>2, <2>3, JoinsAddUp
<1> QED
  BY <1>2, <1>3

LEMMA WorthOfOneOrTwo ==
  /\ \A x \in InvoiceItem : OneOrTwo(<<x>>) /\ Worth(<<x>>) = x.amount
  /\ \A x, y \in InvoiceItem : OneOrTwo(<<x, y>>) /\ Worth(<<x, y>>) = x.amount + y.amount
<1>1. <<>> \in Seq(InvoiceItem) /\ Worth(<<>>) = 0
  BY WorthOfNone
<1>2. ASSUME NEW x \in InvoiceItem
      PROVE  OneOrTwo(<<x>>) /\ <<x>> \in Seq(InvoiceItem) /\ Worth(<<x>>) = x.amount
  <2>1. x.amount \in Int
    BY DEF InvoiceItem
  <2>2. <<x>> = Append(<<>>, x)
    OBVIOUS
  <2>3. <<x>> \in Seq(InvoiceItem) /\ Worth(<<x>>) = 0 + x.amount
    BY <1>1, <2>2, WorthOfMore
  <2> QED
    BY <2>1, <2>3 DEF OneOrTwo
<1>3. ASSUME NEW x \in InvoiceItem, NEW y \in InvoiceItem
      PROVE  OneOrTwo(<<x, y>>) /\ Worth(<<x, y>>) = x.amount + y.amount
  <2>1. <<x>> \in Seq(InvoiceItem) /\ Worth(<<x>>) = x.amount
    BY <1>2
  <2>2. <<x, y>> = Append(<<x>>, y)
    OBVIOUS
  <2>3. Worth(<<x, y>>) = Worth(<<x>>) + y.amount
    BY <2>1, <2>2, WorthOfMore
  <2> QED
    BY <2>1, <2>3 DEF OneOrTwo
<1> QED
  BY <1>2, <1>3

ItemsOfLine(qty, amount) ==
  LET unit == amount \div qty IN
  IF amount % qty = 0 THEN <<Shop!Item(qty, unit)>>
  ELSE <<Shop!Item(qty - 1, unit), Shop!Item(1, amount - unit * (qty - 1))>>

LEMMA ItemsMakeAmount ==
  ASSUME NEW qty \in Nat, qty > 0, NEW amount \in Nat
  PROVE  OneOrTwo(ItemsOfLine(qty, amount)) /\ Worth(ItemsOfLine(qty, amount)) = amount
<1> DEFINE unit == amount \div qty
           rest == amount % qty
<1>1. unit \in Nat /\ rest \in Nat /\ amount = qty * unit + rest
  BY DivMod
<1>2. /\ rest = 0 => ItemsOfLine(qty, amount) = <<Shop!Item(qty, unit)>>
      /\ rest # 0 => ItemsOfLine(qty, amount) =
           <<Shop!Item(qty - 1, unit), Shop!Item(1, amount - unit * (qty - 1))>>
  BY DEF ItemsOfLine
<1> HIDE DEF unit, rest
<1>3. CASE rest = 0
  <2>1. qty * unit = amount
    BY <1>1, <1>3
  <2>2. Shop!Item(qty, unit) \in InvoiceItem /\ Shop!Item(qty, unit).amount = amount
    BY <1>1, <2>1 DEF Shop!Item, InvoiceItem
  <2> QED
    BY <1>2, <1>3, <2>2, WorthOfOneOrTwo
<1>4. CASE rest # 0
  <2> DEFINE x == Shop!Item(qty - 1, unit)
             y == Shop!Item(1, amount - unit * (qty - 1))
             most == (qty - 1) * unit
  <2>1. most = qty * unit - unit /\ unit * (qty - 1) = most
    BY <1>1
  <2>2. most \in Nat
    <3>1. qty - 1 \in Nat
      OBVIOUS
    <3> QED
      BY <1>1, <3>1
  <2>3. qty * unit \in Int
    BY <1>1
  <2>4. amount - most \in Nat
    BY <1>1, <2>1, <2>2, <2>3
  <2>5. x.amount = most /\ x \in InvoiceItem
    BY <1>1, <2>2 DEF Shop!Item, InvoiceItem
  <2>6. y.amount = amount - most /\ y \in InvoiceItem
    BY <2>1, <2>2, <2>4 DEF Shop!Item, InvoiceItem
  <2>7. ItemsOfLine(qty, amount) = <<x, y>>
    BY <1>2, <1>4
  <2> HIDE DEF x, y, most
  <2>8. OneOrTwo(<<x, y>>) /\ Worth(<<x, y>>) = x.amount + y.amount
    BY <2>5, <2>6, WorthOfOneOrTwo
  <2>9. x.amount + y.amount = amount
    BY <2>2, <2>4, <2>5, <2>6
  <2> QED
    BY <2>7, <2>8, <2>9
<1> QED
  BY <1>3, <1>4

---------------------------------------------------------------------------
(* The items of an invoice make up what its lines come to less the         *)
(* discount (allocate_discount, invoice_lines).                            *)

ShopLine == [qty : Nat \ {0}, price : Nat]

LEMMA InvoiceAddsUp ==
  ASSUME NEW lines \in Seq(ShopLine), Shop!Sum(Shop!Amounts(lines)) > 0,
         NEW discount \in 0..Shop!Sum(Shop!Amounts(lines))
  PROVE  LET items == Shop!InvoiceLines(lines, discount) IN
         /\ Shop!Sum([i \in DOMAIN items |-> items[i].amount])
              = Shop!Sum(Shop!Amounts(lines)) - discount
         /\ \A i \in DOMAIN items : items[i].amount >= 0
<1> DEFINE n == Len(lines)
           amounts == Shop!Amounts(lines)
           given == Shop!AllocateDiscount(amounts, discount)
           worth == [i \in 1..n |-> amounts[i] - given[i]]
           seqs == [i \in 1..n |-> ItemsOfLine(lines[i].qty, worth[i])]
           items == Shop!InvoiceLines(lines, discount)
<1>1. n \in Nat /\ DOMAIN lines = 1..n
  BY LenProperties
<1>2. IsFiniteSet(1..n) /\ 1..n \subseteq Nat
  <2>1. 1 \in Int /\ n \in Int
    BY <1>1
  <2>2. IsFiniteSet(1..n)
    BY <2>1, FS_Interval
  <2> QED
    BY <2>2
<1>3. \A i \in 1..n : lines[i] \in ShopLine
  BY ElementOfSeq
<1>4. DOMAIN amounts = 1..n /\ \A i \in 1..n : amounts[i] = lines[i].qty * lines[i].price
  BY <1>1 DEF Shop!Amounts
<1>5. \A i \in 1..n : lines[i].qty \in Nat /\ lines[i].qty > 0 /\ amounts[i] \in Nat
  BY <1>3, <1>4 DEF ShopLine
<1>6. Shop!FlattenSeq(seqs) = items
  <2>1. seqs = [i \in DOMAIN lines |->
                  ItemsOfLine(lines[i].qty, lines[i].qty * lines[i].price - given[i])]
    BY <1>1, <1>4
  <2> QED
    BY <2>1 DEF Shop!InvoiceLines, ItemsOfLine
<1> HIDE DEF amounts, items
<1>7. /\ \A i \in 1..n : given[i] \in 0..amounts[i]
      /\ TotalOver(given, 1..n) = discount
  <2>1. /\ IsFiniteSet(DOMAIN amounts) /\ DOMAIN amounts \subseteq Nat
        /\ \A i \in DOMAIN amounts : amounts[i] \in Nat
    BY <1>2, <1>4, <1>5
  <2>2. Shop!Sum(amounts) > 0 /\ discount \in 0..Shop!Sum(amounts)
    BY DEF amounts
  <2>3. /\ \A i \in DOMAIN amounts : given[i] \in 0..amounts[i]
        /\ TotalOver(given, DOMAIN amounts) = discount
    BY <2>1, <2>2, SharesMakeDiscount
  <2> QED
    BY <1>4, <2>3
<1> HIDE DEF given
<1>8. \A i \in 1..n : worth[i] \in Nat /\ given[i] \in Nat /\ amounts[i] = worth[i] + given[i]
  BY <1>5, <1>7
<1>9. \A i \in 1..n : OneOrTwo(seqs[i]) /\ Worth(seqs[i]) = worth[i]
  BY <1>5, <1>8, ItemsMakeAmount
<1>10. seqs = [i \in 1..n |-> seqs[i]]
  OBVIOUS
<1> HIDE DEF worth, seqs
<1>11. items \in Seq(InvoiceItem) /\ Worth(items) = TotalOver(worth, 1..n)
  <2>1. \A i \in 1..n : worth[i] = Worth(seqs[i])
    BY <1>9
  <2>2. \A i \in 1..n : OneOrTwo(seqs[i])
    BY <1>9
  <2>3. /\ Shop!FlattenSeq(seqs) \in Seq(InvoiceItem)
        /\ Worth(Shop!FlattenSeq(seqs)) = TotalOver(worth, 1..n)
    BY <1>1, <1>10, <2>1, <2>2, FlattenedAddsUp
  <2> QED
    BY <1>6, <2>3
<1>12. TotalOver(amounts, 1..n) = TotalOver(worth, 1..n) + TotalOver(given, 1..n)
  <2>1. (\A i \in 1..n : worth[i] \in Int) /\ (\A i \in 1..n : given[i] \in Int)
        /\ (\A i \in 1..n : amounts[i] = worth[i] + given[i])
    BY <1>8
  <2> QED
    BY <1>2, <2>1, TotalOfSum
<1>13. Shop!Sum(amounts) = TotalOver(amounts, 1..n)
  BY <1>2, <1>4, ShopSumIsTotal
<1>14. TotalOver(worth, 1..n) \in Int
  <2>1. \A i \in 1..n : worth[i] \in Int
    BY <1>8
  <2> QED
    BY <1>2, <2>1, TotalIsInt
<1>15. Worth(items) = Shop!Sum(amounts) - discount
  <2>1. discount \in Int
    <3>1. Shop!Sum(amounts) \in Int
      BY <1>7, <1>12, <1>13, <1>14
    <3> QED
      OBVIOUS
  <2> QED
    BY <1>7, <1>11, <1>12, <1>13, <1>14, <2>1
<1>16. Len(items) \in Nat /\ DOMAIN items = 1..Len(items)
       /\ \A i \in DOMAIN items : items[i] \in InvoiceItem
  BY <1>11, LenProperties, ElementOfSeq
<1>17. \A i \in DOMAIN items : items[i].amount >= 0
  BY <1>16 DEF InvoiceItem
<1>18. Shop!Sum([i \in DOMAIN items |-> items[i].amount]) = Worth(items)
  <2> DEFINE f == [i \in DOMAIN items |-> items[i].amount]
  <2>1. DOMAIN f = DOMAIN items
    OBVIOUS
  <2>2. IsFiniteSet(DOMAIN items)
    <3>1. 1 \in Int /\ Len(items) \in Int
      BY <1>16
    <3> QED
      BY <1>16, <3>1, FS_Interval
  <2> HIDE DEF f
  <2>3. Shop!Sum(f) = TotalOver(f, DOMAIN items)
    BY <2>1, <2>2, ShopSumIsTotal
  <2> QED
    BY <2>3 DEF f, Worth
<1> QED
  BY <1>15, <1>17, <1>18 DEF items, amounts

---------------------------------------------------------------------------
(* The checkout of the bookstore, and the percents it is priced by, those  *)
(* that a request is to write included.                                    *)

HasPercents(s) ==
  /\ {"cash_pct", "book_pct"} \subseteq DOMAIN s
  /\ s.cash_pct \in 50..100 /\ s.book_pct \in 10..100

(* Its lines make its subtotal, and it is paid but for the discount.       *)
IsPriced(c) ==
  /\ c.subtotal = Shop!Sum(Shop!Amounts(c.lines)) /\ c.subtotal > 0
  /\ c.discount \in 0..c.subtotal
  /\ c.total = c.subtotal - c.discount

PricedCheckout ==
  [status : {"none", "pending", "paid", "refunded"}, cash : BOOLEAN, lines : Seq(ShopLine),
   subtotal : Nat, discount : Nat, total : Nat,
   invoice : {None, "skipped", "issued", "failed"}]

WritesPercents ==
  /\ DOMAIN shopping = Workers
  /\ \A w \in Workers : shopping[w].at \in {"settings", "paying"} => HasPercents(shopping[w].to)
  /\ HasPercents(json)

CheckoutInv ==
  /\ WritesPercents
  /\ checkout \in PricedCheckout
  /\ checkout.status # "none" => IsPriced(checkout)
  /\ \A w \in Workers : shopping[w].at = "paying" => checkout.status # "none"

CartLine == [qty : Nat \ {0}, price : Nat, list : Nat]

LEMMA CheckoutInit == ASSUME Shop!ShopParameters, Shop!Init PROVE CheckoutInv
BY DEF Shop!ShopParameters, Shop!Init, CheckoutInv, WritesPercents, HasPercents, PricedCheckout, Shop!Idle

LEMMA RequestHasPercents ==
  ASSUME WritesPercents, NEW w \in Workers, NEW r, shopping' = [shopping EXCEPT ![w] = r],
         r.at \in {"settings", "paying"} => HasPercents(r.to), HasPercents(json')
  PROVE  WritesPercents'
BY DEF WritesPercents

(* The settings, of a request that a worker is to write or has written.    *)
LEMMA SettingsHavePercents ==
  ASSUME Shop!ShopParameters, WritesPercents, NEW w \in Workers,
         \/ Shop!UpdateSettings(w) \/ Shop!RotateDoorQr(w) \/ Shop!GetDoorQr(w)
         \/ Shop!CommitSettings(w) \/ Shop!Claim(w)
  PROVE  WritesPercents' /\ checkout' = checkout
<1>1. CASE Shop!UpdateSettings(w)
  <2>1. PICK patch \in SettingsPatches : Shop!Settle(w, Shop!Patched(patch))
    BY <1>1 DEF Shop!UpdateSettings
  <2>2. /\ "cash_pct" \in DOMAIN patch => patch.cash_pct \in 50..100
        /\ "book_pct" \in DOMAIN patch => patch.book_pct \in 10..100
    BY DEF Shop!ShopParameters
  <2>3. HasPercents(Shop!Patched(patch))
    BY <2>2 DEF Shop!Patched, WritesPercents, HasPercents
  <2> DEFINE r == [at |-> "settings", read |-> json, to |-> Shop!Patched(patch)]
  <2>4. shopping' = [shopping EXCEPT ![w] = r] /\ UNCHANGED <<json, checkout>>
    BY <2>1 DEF Shop!Settle, Shop!Begin, Shop!door, Shop!sale
  <2>5. r.to = Shop!Patched(patch) /\ HasPercents(json)
    BY DEF WritesPercents
  <2> HIDE DEF r
  <2> QED
    BY <2>3, <2>4, <2>5, RequestHasPercents DEF HasPercents
<1>2. CASE Shop!RotateDoorQr(w)
  <2> DEFINE to == [json EXCEPT !.qr = @ + 1, !.content = json.qr + 1]
             r == [at |-> "settings", read |-> json, to |-> to]
  <2>1. HasPercents(to) /\ HasPercents(json)
    BY DEF WritesPercents, HasPercents
  <2>2. shopping' = [shopping EXCEPT ![w] = r] /\ UNCHANGED <<json, checkout>>
    BY <1>2 DEF Shop!RotateDoorQr, Shop!Settle, Shop!Begin, Shop!door, Shop!sale
  <2>3. r.to = to
    OBVIOUS
  <2> HIDE DEF r, to
  <2> QED
    BY <2>1, <2>2, <2>3, RequestHasPercents DEF HasPercents
<1>3. CASE Shop!GetDoorQr(w)
  <2> DEFINE to == [json EXCEPT !.content = json.qr]
             r == [at |-> "settings", read |-> json, to |-> to]
  <2>1. HasPercents(to) /\ HasPercents(json)
    BY DEF WritesPercents, HasPercents
  <2>2. shopping' = [shopping EXCEPT ![w] = r] /\ UNCHANGED <<json, checkout>>
    BY <1>3 DEF Shop!GetDoorQr, Shop!Settle, Shop!Begin, Shop!door, Shop!sale
  <2>3. r.to = to
    OBVIOUS
  <2> HIDE DEF r, to
  <2> QED
    BY <2>1, <2>2, <2>3, RequestHasPercents DEF HasPercents
<1>4. CASE Shop!CommitSettings(w)
  <2>1. shopping' = [shopping EXCEPT ![w] = Shop!Idle] /\ checkout' = checkout
    BY <1>4 DEF Shop!CommitSettings, Shop!End, Shop!sale
  <2>2. json' = json \/ json' = shopping[w].to
    BY <1>4 DEF Shop!CommitSettings, Shop!Write
  <2>3. HasPercents(shopping[w].to) /\ HasPercents(json)
    BY <1>4 DEF Shop!CommitSettings, WritesPercents
  <2>4. HasPercents(json')
    BY <2>2, <2>3
  <2>5. Shop!Idle.at = "idle"
    BY DEF Shop!Idle
  <2> QED
    BY <2>1, <2>4, <2>5, RequestHasPercents
<1>5. CASE Shop!Claim(w)
  <2> DEFINE r == [at |-> "paying", read |-> json, to |-> Shop!WithIdentity]
  <2>1. HasPercents(Shop!WithIdentity) /\ HasPercents(json)
    BY DEF WritesPercents, HasPercents, Shop!WithIdentity
  <2>2. shopping' = [shopping EXCEPT ![w] = r] /\ UNCHANGED <<json, checkout>>
    BY <1>5 DEF Shop!Claim, Shop!Begin, Shop!door, Shop!sale
  <2>3. r.to = Shop!WithIdentity
    OBVIOUS
  <2> HIDE DEF r
  <2> QED
    BY <2>1, <2>2, <2>3, RequestHasPercents DEF HasPercents
<1> QED
  BY <1>1, <1>2, <1>3, <1>4, <1>5

(* The lesser of two.                                                      *)
LEMMA LeastOfTwo ==
  ASSUME NEW a \in Nat, NEW b \in Nat
  PROVE  Shop!Min({a, b}) \in Nat /\ Shop!Min({a, b}) <= a /\ Shop!Min({a, b}) <= b
<1> DEFINE c == IF a <= b THEN a ELSE b
<1>1. c \in {a, b} /\ \A x \in {a, b} : c <= x
  OBVIOUS
<1>2. ASSUME NEW d \in {a, b}, \A x \in {a, b} : d <= x
      PROVE  d = c
  BY <1>2
<1>3. Shop!Min({a, b}) = c
  BY <1>1, <1>2 DEF Shop!Min
<1> QED
  BY <1>3

LEMMA PriceShares ==
  ASSUME WritesPercents, NEW n \in Nat
  PROVE  (n * Shop!CashPct) \div 100 \in 0..n /\ Shop!RedeemCap(n) \in 0..n
<1>1. Shop!CashPct \in 0..100
  BY DEF Shop!CashPct, WritesPercents, HasPercents
<1>2. (n * Shop!CashPct) \div 100 \in 0..n
  BY <1>1, ShareOfWhole
<1> QED
  BY <1>2 DEF Shop!RedeemCap

(* What a basket comes to (create_checkout).                               *)
LEMMA CreateIsPriced ==
  ASSUME Shop!ShopParameters, CheckoutInv, Shop!CreateCheckout
  PROVE  checkout' \in PricedCheckout /\ IsPriced(checkout')
<1>1. PICK cart \in Carts, redeem \in Redeems :
        LET lines == [i \in DOMAIN cart |->
                        [qty |-> cart[i].qty, price |-> Shop!AppUnitPrice(cart[i])]]
            subtotal == Shop!Sum(Shop!Amounts(lines))
            discount == Shop!Min({redeem, Shop!RedeemCap(subtotal)})
        IN /\ subtotal > 0
           /\ checkout' = [checkout EXCEPT !.status = "pending", !.lines = lines,
                !.subtotal = subtotal, !.discount = discount, !.total = subtotal - discount]
  BY DEF Shop!CreateCheckout
<1> DEFINE lines == [i \in DOMAIN cart |->
                       [qty |-> cart[i].qty, price |-> Shop!AppUnitPrice(cart[i])]]
           subtotal == Shop!Sum(Shop!Amounts(lines))
           discount == Shop!Min({redeem, Shop!RedeemCap(subtotal)})
<1>2. /\ subtotal > 0
      /\ checkout' = [checkout EXCEPT !.status = "pending", !.lines = lines,
           !.subtotal = subtotal, !.discount = discount, !.total = subtotal - discount]
  BY <1>1
<1>3. cart \in Seq(CartLine) /\ redeem \in Nat
  BY DEF Shop!ShopParameters, CartLine
<1>4. Len(cart) \in Nat /\ DOMAIN cart = 1..Len(cart)
      /\ \A i \in DOMAIN cart : cart[i] \in CartLine
  BY <1>3, LenProperties, ElementOfSeq
<1>5. ASSUME NEW i \in DOMAIN cart
      PROVE  [qty |-> cart[i].qty, price |-> Shop!AppUnitPrice(cart[i])] \in ShopLine
  <2>1. cart[i].qty \in Nat \ {0} /\ cart[i].price \in Nat /\ cart[i].list \in Nat
    BY <1>4 DEF CartLine
  <2>2. json.book_pct \in 0..100
    BY DEF CheckoutInv, WritesPercents, HasPercents
  <2>3. (cart[i].list * json.book_pct) \div 100 \in Nat
    BY <2>1, <2>2, ShareOfWhole
  <2>4. Shop!AppUnitPrice(cart[i]) \in Nat
    BY <2>1, <2>3 DEF Shop!AppUnitPrice
  <2> QED
    BY <2>1, <2>4 DEF ShopLine
<1>6. lines \in Seq(ShopLine) /\ DOMAIN lines = 1..Len(cart)
  BY <1>4, <1>5
<1>7. subtotal \in Nat
  <2> DEFINE amounts == Shop!Amounts(lines)
  <2>1. DOMAIN amounts = 1..Len(cart) /\ \A i \in 1..Len(cart) : amounts[i] \in Int
    <3>1. \A i \in DOMAIN lines : lines[i] \in ShopLine
      BY <1>6, ElementOfSeq, LenProperties
    <3> HIDE DEF lines
    <3>2. \A i \in DOMAIN lines : lines[i].qty * lines[i].price \in Int
      BY <3>1 DEF ShopLine
    <3> QED
      BY <1>6, <3>2 DEF Shop!Amounts
  <2>2. IsFiniteSet(1..Len(cart))
    <3>1. 1 \in Int /\ Len(cart) \in Int
      BY <1>4
    <3> QED
      BY <3>1, FS_Interval
  <2> HIDE DEF amounts, lines
  <2>3. Shop!Sum(amounts) = TotalOver(amounts, 1..Len(cart))
    BY <2>1, <2>2, ShopSumIsTotal
  <2>4. TotalOver(amounts, 1..Len(cart)) \in Int
    BY <2>1, <2>2, TotalIsInt
  <2> QED
    BY <1>2, <2>3, <2>4 DEF amounts
<1> HIDE DEF lines
<1>8. discount \in 0..subtotal
  <2>1. WritesPercents
    BY DEF CheckoutInv
  <2>2. Shop!RedeemCap(subtotal) \in 0..subtotal
    BY <1>7, <2>1, PriceShares
  <2> DEFINE cap == Shop!RedeemCap(subtotal)
  <2>4. cap \in 0..subtotal /\ cap \in Nat
    BY <1>7, <2>2
  <2> HIDE DEF cap
  <2>3. Shop!Min({redeem, cap}) \in Nat /\ Shop!Min({redeem, cap}) <= cap
    BY <1>3, <2>4, LeastOfTwo
  <2>5. Shop!Min({redeem, cap}) = discount
    BY DEF cap
  <2> HIDE DEF subtotal, discount
  <2> QED
    BY <1>7, <2>3, <2>4, <2>5
<1>9. subtotal = Shop!Sum(Shop!Amounts(lines))
  OBVIOUS
<1> HIDE DEF subtotal, discount
<1>10. checkout \in PricedCheckout /\ subtotal - discount \in Nat
  BY <1>7, <1>8 DEF CheckoutInv
<1>11. /\ checkout'.lines = lines /\ checkout'.subtotal = subtotal
       /\ checkout'.discount = discount /\ checkout'.total = subtotal - discount
  BY <1>2, <1>10 DEF PricedCheckout
<1>12. checkout' \in PricedCheckout
  <2>1. checkout' = [status |-> "pending", cash |-> checkout.cash, lines |-> lines,
                     subtotal |-> subtotal, discount |-> discount,
                     total |-> subtotal - discount, invoice |-> checkout.invoice]
    BY <1>2, <1>10 DEF PricedCheckout
  <2>2. checkout.cash \in BOOLEAN /\ checkout.invoice \in {None, "skipped", "issued", "failed"}
    BY <1>10 DEF PricedCheckout
  <2>3. discount \in Nat
    BY <1>7, <1>8
  <2> QED
    BY <1>6, <1>7, <1>10, <2>1, <2>2, <2>3 DEF PricedCheckout
<1> QED
  BY <1>2, <1>8, <1>9, <1>11, <1>12 DEF IsPriced

(* What it comes to when it is paid in cash (select_cash).                 *)
LEMMA CashIsPriced ==
  ASSUME CheckoutInv, Shop!SelectCash
  PROVE  checkout' \in PricedCheckout /\ IsPriced(checkout')
<1> DEFINE price == (checkout.subtotal * Shop!CashPct) \div 100
           most == Shop!Min({checkout.discount, price})
           total == price - most
<1>1. checkout' = [checkout EXCEPT !.cash = TRUE, !.total = total,
                                   !.discount = checkout.subtotal - total]
  BY DEF Shop!SelectCash
<1>2. checkout \in PricedCheckout /\ IsPriced(checkout)
  BY DEF CheckoutInv, Shop!SelectCash
<1>3. checkout.subtotal \in Nat /\ checkout.discount \in Nat
  BY <1>2 DEF PricedCheckout
<1>4. price \in 0..checkout.subtotal
  BY <1>3, PriceShares DEF CheckoutInv
<1> HIDE DEF price
<1>5. most \in Nat /\ most <= price
  BY <1>3, <1>4, LeastOfTwo
<1> HIDE DEF most
<1>6. total \in Nat /\ total <= checkout.subtotal
      /\ checkout.subtotal - total \in 0..checkout.subtotal
      /\ total = checkout.subtotal - (checkout.subtotal - total)
  BY <1>3, <1>4, <1>5
<1> HIDE DEF total
<1>7. /\ checkout'.lines = checkout.lines /\ checkout'.subtotal = checkout.subtotal
      /\ checkout'.discount = checkout.subtotal - total /\ checkout'.total = total
  BY <1>1, <1>2 DEF PricedCheckout
<1>8. checkout' \in PricedCheckout
  <2>1. checkout' = [status |-> checkout.status, cash |-> TRUE, lines |-> checkout.lines,
                     subtotal |-> checkout.subtotal, discount |-> checkout.subtotal - total,
                     total |-> total, invoice |-> checkout.invoice]
    BY <1>1, <1>2 DEF PricedCheckout
  <2>2. /\ checkout.status \in {"none", "pending", "paid", "refunded"}
        /\ checkout.lines \in Seq(ShopLine)
        /\ checkout.invoice \in {None, "skipped", "issued", "failed"}
    BY <1>2 DEF PricedCheckout
  <2>3. checkout.subtotal - total \in Nat
    BY <1>3, <1>6
  <2> QED
    BY <1>3, <1>6, <2>1, <2>2, <2>3 DEF PricedCheckout
<1> QED
  BY <1>2, <1>6, <1>7, <1>8 DEF IsPriced

(* The sale goes on: what it was priced at stays.                          *)
SaleGoesOn ==
  \/ checkout' = checkout
  \/ \E answer \in {"skipped", "issued", "failed"} : checkout' = [checkout EXCEPT !.invoice = answer]
  \/ /\ checkout.status # "none"
     /\ \E status \in {"paid", "refunded"} : checkout' = [checkout EXCEPT !.status = status]

LEMMA SaleStaysPriced ==
  ASSUME CheckoutInv, SaleGoesOn
  PROVE  /\ checkout' \in PricedCheckout
         /\ checkout'.status # "none" => IsPriced(checkout')
         /\ checkout.status # "none" => checkout'.status # "none"
<1>1. CASE checkout' = checkout
  BY <1>1 DEF CheckoutInv
<1>2. CASE \E answer \in {"skipped", "issued", "failed"} : checkout' = [checkout EXCEPT !.invoice = answer]
  <2>1. PICK answer \in {"skipped", "issued", "failed"} : checkout' = [checkout EXCEPT !.invoice = answer]
    BY <1>2
  <2>2. checkout \in PricedCheckout
    BY DEF CheckoutInv
  <2>3. checkout' \in PricedCheckout /\ checkout'.status = checkout.status
        /\ checkout'.lines = checkout.lines /\ checkout'.subtotal = checkout.subtotal
        /\ checkout'.discount = checkout.discount /\ checkout'.total = checkout.total
    BY <2>1, <2>2 DEF PricedCheckout
  <2> QED
    BY <2>3 DEF CheckoutInv, IsPriced
<1>3. CASE /\ checkout.status # "none"
           /\ \E status \in {"paid", "refunded"} : checkout' = [checkout EXCEPT !.status = status]
  <2>1. PICK status \in {"paid", "refunded"} : checkout' = [checkout EXCEPT !.status = status]
    BY <1>3
  <2>2. checkout \in PricedCheckout /\ IsPriced(checkout)
    BY <1>3 DEF CheckoutInv
  <2>3. checkout' \in PricedCheckout /\ checkout'.status = status
        /\ checkout'.lines = checkout.lines /\ checkout'.subtotal = checkout.subtotal
        /\ checkout'.discount = checkout.discount /\ checkout'.total = checkout.total
    BY <2>1, <2>2 DEF PricedCheckout
  <2> QED
    BY <2>2, <2>3 DEF IsPriced
<1> QED
  BY <1>1, <1>2, <1>3 DEF SaleGoesOn

(* A request of another kind takes the place of a worker's.                *)
LEMMA InvoiceIsNoWrite ==
  ASSUME NEW w \in Workers,
         \/ Shop!IssueLook(w) \/ Shop!StaffIssue(w) \/ Shop!StaffVoid(w)
         \/ \E answer \in {"issued", "failed"} : Shop!CommitIssue(w, answer)
         \/ Shop!RefundCheckout(w) \/ Shop!RefundLook(w) \/ Shop!CommitVoid(w) \/ Shop!Crash(w)
  PROVE  /\ \E r : shopping' = [shopping EXCEPT ![w] = r] /\ r.at \notin {"settings", "paying"}
         /\ json' = json /\ SaleGoesOn
<1> USE DEF Shop!End, Shop!Begin, Shop!door, Shop!sale
<1>1. Shop!Idle.at \notin {"settings", "paying"}
  BY DEF Shop!Idle
<1>2. CASE Shop!IssueLook(w)
  <2> DEFINE r == [at |-> "issue", by |-> "sale", seen |-> rows,
                   items |-> Shop!InvoiceLines(checkout.lines, checkout.discount)]
  <2>1. shopping' = [shopping EXCEPT ![w] = Shop!Idle] \/ shopping' = [shopping EXCEPT ![w] = r]
    BY <1>2 DEF Shop!IssueLook
  <2>2. r.at \notin {"settings", "paying"}
    OBVIOUS
  <2> HIDE DEF r
  <2>3. json' = json /\ SaleGoesOn
    BY <1>2 DEF Shop!IssueLook, SaleGoesOn
  <2> QED
    BY <1>1, <2>1, <2>2, <2>3
<1>3. CASE Shop!StaffIssue(w)
  <2> DEFINE r == [at |-> "issue", by |-> "staff", seen |-> rows, items |-> Shop!OrderItems]
  <2>1. shopping' = [shopping EXCEPT ![w] = r] /\ json' = json /\ SaleGoesOn
    BY <1>3 DEF Shop!StaffIssue, SaleGoesOn
  <2>2. r.at \notin {"settings", "paying"}
    OBVIOUS
  <2> HIDE DEF r
  <2> QED
    BY <2>1, <2>2
<1>4. CASE Shop!StaffVoid(w)
  <2>1. PICK i \in DOMAIN rows : shopping' = [shopping EXCEPT ![w] = [at |-> "void", by |-> "staff", row |-> i]]
    BY <1>4 DEF Shop!StaffVoid
  <2> DEFINE r == [at |-> "void", by |-> "staff", row |-> i]
  <2>2. shopping' = [shopping EXCEPT ![w] = r] /\ json' = json /\ SaleGoesOn
    BY <1>4, <2>1 DEF Shop!StaffVoid, SaleGoesOn
  <2>3. r.at \notin {"settings", "paying"}
    OBVIOUS
  <2> HIDE DEF r
  <2> QED
    BY <2>2, <2>3
<1>5. CASE \E answer \in {"issued", "failed"} : Shop!CommitIssue(w, answer)
  <2>1. shopping' = [shopping EXCEPT ![w] = Shop!Idle] /\ json' = json /\ SaleGoesOn
    BY <1>5 DEF Shop!CommitIssue, SaleGoesOn
  <2> QED
    BY <1>1, <2>1
<1>6. CASE Shop!RefundCheckout(w)
  <2> DEFINE r == [at |-> "look", by |-> "refund"]
  <2>1. shopping' = [shopping EXCEPT ![w] = r] /\ json' = json /\ SaleGoesOn
    BY <1>6 DEF Shop!RefundCheckout, SaleGoesOn
  <2>2. r.at \notin {"settings", "paying"}
    OBVIOUS
  <2> HIDE DEF r
  <2> QED
    BY <2>1, <2>2
<1>7. CASE Shop!RefundLook(w)
  <2> DEFINE r == [at |-> "void", by |-> "refund", row |-> 1]
  <2>1. shopping' = [shopping EXCEPT ![w] = Shop!Idle] \/ shopping' = [shopping EXCEPT ![w] = r]
    BY <1>7 DEF Shop!RefundLook
  <2>2. r.at \notin {"settings", "paying"}
    OBVIOUS
  <2> HIDE DEF r
  <2>3. json' = json /\ SaleGoesOn
    BY <1>7 DEF Shop!RefundLook, SaleGoesOn
  <2> QED
    BY <1>1, <2>1, <2>2, <2>3
<1>8. CASE Shop!CommitVoid(w)
  <2>1. shopping' = [shopping EXCEPT ![w] = Shop!Idle] /\ json' = json /\ SaleGoesOn
    BY <1>8 DEF Shop!CommitVoid, SaleGoesOn
  <2> QED
    BY <1>1, <2>1
<1>9. CASE Shop!Crash(w)
  <2>1. shopping' = [shopping EXCEPT ![w] = Shop!Idle] /\ json' = json /\ SaleGoesOn
    BY <1>9 DEF Shop!Crash, SaleGoesOn
  <2> QED
    BY <1>1, <2>1
<1> QED
  BY <1>2, <1>3, <1>4, <1>5, <1>6, <1>7, <1>8, <1>9

LEMMA CheckoutHandle ==
  ASSUME Shop!ShopParameters, CheckoutInv, NEW w \in Workers, Shop!Handle(w)
  PROVE  CheckoutInv'
<1>1. CASE \/ Shop!UpdateSettings(w) \/ Shop!RotateDoorQr(w) \/ Shop!GetDoorQr(w)
           \/ Shop!CommitSettings(w)
  <2>1. WritesPercents' /\ checkout' = checkout
    BY <1>1, SettingsHavePercents DEF CheckoutInv
  <2>2. \A v \in Workers : shopping'[v].at = "paying" => shopping[v].at = "paying"
    BY <1>1 DEF CheckoutInv, WritesPercents, Shop!UpdateSettings, Shop!RotateDoorQr, Shop!GetDoorQr,
                Shop!CommitSettings, Shop!Settle, Shop!Begin, Shop!End, Shop!Idle
  <2> QED
    BY <2>1, <2>2 DEF CheckoutInv
<1>2. CASE Shop!Claim(w)
  <2>1. WritesPercents' /\ checkout' = checkout
    BY <1>2, SettingsHavePercents DEF CheckoutInv
  <2>2. checkout.status = "pending"
    BY <1>2 DEF Shop!Claim
  <2> QED
    BY <2>1, <2>2 DEF CheckoutInv
<1>3. CASE Shop!CommitPaid(w)
  <2> DEFINE r == [at |-> "look", by |-> "sale"]
  <2>1. /\ shopping[w].at = "paying" /\ shopping' = [shopping EXCEPT ![w] = r]
        /\ checkout' = [checkout EXCEPT !.status = "paid"]
        /\ (json' = json \/ json' = shopping[w].to)
    BY <1>3 DEF Shop!CommitPaid, Shop!Write
  <2>2. r.at = "look"
    OBVIOUS
  <2> HIDE DEF r
  <2>3. WritesPercents /\ HasPercents(shopping[w].to) /\ HasPercents(json)
    BY <2>1 DEF CheckoutInv, WritesPercents
  <2>4. HasPercents(json')
    BY <2>1, <2>3
  <2>5. WritesPercents'
    BY <2>1, <2>2, <2>3, <2>4, RequestHasPercents
  <2>6. SaleGoesOn /\ checkout.status # "none"
    BY <2>1 DEF SaleGoesOn, CheckoutInv
  <2>7. checkout' \in PricedCheckout /\ checkout'.status # "none" /\ IsPriced(checkout')
    BY <2>6, SaleStaysPriced
  <2> QED
    BY <2>5, <2>7 DEF CheckoutInv
<1>4. CASE \/ Shop!IssueLook(w) \/ Shop!StaffIssue(w) \/ Shop!StaffVoid(w)
           \/ \E answer \in {"issued", "failed"} : Shop!CommitIssue(w, answer)
           \/ Shop!RefundCheckout(w) \/ Shop!RefundLook(w) \/ Shop!CommitVoid(w) \/ Shop!Crash(w)
  <2>1. /\ \E r : shopping' = [shopping EXCEPT ![w] = r] /\ r.at \notin {"settings", "paying"}
        /\ json' = json /\ SaleGoesOn
    BY <1>4, InvoiceIsNoWrite
  <2>2. PICK r : shopping' = [shopping EXCEPT ![w] = r] /\ r.at \notin {"settings", "paying"}
    BY <2>1
  <2>3. WritesPercents /\ HasPercents(json')
    BY <2>1 DEF CheckoutInv, WritesPercents
  <2>4. WritesPercents'
    BY <2>2, <2>3, RequestHasPercents
  <2>5. /\ checkout' \in PricedCheckout
        /\ checkout'.status # "none" => IsPriced(checkout')
        /\ checkout.status # "none" => checkout'.status # "none"
    BY <2>1, SaleStaysPriced
  <2>6. \A v \in Workers : shopping'[v].at = "paying" => shopping[v].at = "paying"
    BY <2>2, <2>3 DEF WritesPercents
  <2> QED
    BY <2>4, <2>5, <2>6 DEF CheckoutInv
<1> QED
  BY <1>1, <1>2, <1>3, <1>4 DEF Shop!Handle

LEMMA CheckoutStep ==
  ASSUME Shop!ShopParameters, CheckoutInv, Shop!Next \/ UNCHANGED Shop!shopVars
  PROVE  CheckoutInv'
<1>1. CASE \E w \in Workers : Shop!Handle(w)
  BY <1>1, CheckoutHandle
<1>2. CASE UNCHANGED Shop!shopVars \/ Shop!ResolveDoorQr
  <2>1. UNCHANGED <<json, checkout, shopping>>
    BY <1>2 DEF Shop!shopVars, Shop!ResolveDoorQr, Shop!door, Shop!sale
  <2> QED
    BY <2>1 DEF CheckoutInv, WritesPercents
<1>3. CASE Shop!CreateCheckout
  <2>1. UNCHANGED <<json, shopping>> /\ checkout.status = "none"
    BY <1>3 DEF Shop!CreateCheckout, Shop!door
  <2>2. checkout' \in PricedCheckout /\ IsPriced(checkout')
    BY <1>3, CreateIsPriced
  <2>3. WritesPercents' /\ \A w \in Workers : shopping'[w].at # "paying"
    BY <2>1 DEF CheckoutInv, WritesPercents
  <2> QED
    BY <2>2, <2>3 DEF CheckoutInv
<1>4. CASE Shop!SelectCash
  <2>1. UNCHANGED <<json, shopping>> /\ checkout.status = "pending"
    BY <1>4 DEF Shop!SelectCash, Shop!door
  <2>2. checkout' \in PricedCheckout /\ IsPriced(checkout')
    BY <1>4, CashIsPriced
  <2>3. WritesPercents'
    BY <2>1 DEF CheckoutInv, WritesPercents
  <2>4. checkout'.status = "pending"
    BY <1>4, <2>1 DEF Shop!SelectCash, CheckoutInv, PricedCheckout
  <2> QED
    BY <2>2, <2>3, <2>4 DEF CheckoutInv
<1> QED
  BY <1>1, <1>2, <1>3, <1>4 DEF Shop!Next

---------------------------------------------------------------------------
(* The invoices that the gateway issued, and the requests that are at it.  *)

(* What is invoiced by the sale, or by the staff: the items are those of   *)
(* the lines of the sale, and no longer change once it is paid.            *)
ItemsBy(c, by) ==
  IF by = "sale" THEN Shop!InvoiceLines(c.lines, c.discount)
  ELSE [i \in DOMAIN c.lines |-> Shop!Item(c.lines[i].qty, c.lines[i].price)]

IsOver(c) == c.status \in {"paid", "refunded"}

IsIssued(c, invoice) ==
  /\ invoice.by \in {"sale", "staff"}
  /\ invoice.items = ItemsBy(c, invoice.by) /\ invoice.total = c.total

RequestIsOfSale(r, c) ==
  /\ r = [at |-> "look", by |-> "sale"] => IsOver(c)
  /\ r.at = "issue" => /\ IsOver(c) /\ r.by \in {"sale", "staff"}
                       /\ r.items = ItemsBy(c, r.by)

InvoicesOfSale ==
  /\ \A w \in Workers : RequestIsOfSale(shopping[w], checkout)
  /\ \A invoice \in invoices : IsOver(checkout) /\ IsIssued(checkout, invoice)

(* A paid sale has the lines and the amounts it was paid for from then on. *)
LEMMA SaleKeepsItems ==
  ASSUME CheckoutInv, SaleGoesOn
  PROVE  /\ IsOver(checkout) => IsOver(checkout')
         /\ \A by : ItemsBy(checkout', by) = ItemsBy(checkout, by)
         /\ checkout'.total = checkout.total
<1>1. checkout \in PricedCheckout
  BY DEF CheckoutInv
<1>2. /\ checkout'.lines = checkout.lines /\ checkout'.discount = checkout.discount
      /\ checkout'.total = checkout.total
  BY <1>1 DEF SaleGoesOn, PricedCheckout
<1>3. IsOver(checkout) => IsOver(checkout')
  BY <1>1 DEF SaleGoesOn, PricedCheckout, IsOver
<1> QED
  BY <1>2, <1>3 DEF ItemsBy

LEMMA InvoicesGoOn ==
  ASSUME CheckoutInv, InvoicesOfSale, SaleGoesOn, NEW w \in Workers, NEW r,
         shopping' = [shopping EXCEPT ![w] = r], RequestIsOfSale(r, checkout'),
         \A invoice \in invoices' :
           invoice \in invoices \/ (IsOver(checkout') /\ IsIssued(checkout', invoice))
  PROVE  InvoicesOfSale'
<1>1. /\ IsOver(checkout) => IsOver(checkout')
      /\ \A by : ItemsBy(checkout', by) = ItemsBy(checkout, by)
      /\ checkout'.total = checkout.total
  BY SaleKeepsItems
<1>2. \A v \in Workers : RequestIsOfSale(shopping'[v], checkout')
  <2> TAKE v \in Workers
  <2>1. DOMAIN shopping = Workers
    BY DEF CheckoutInv, WritesPercents
  <2>2. CASE v = w
    BY <2>1, <2>2
  <2>3. CASE v # w
    <3>1. shopping'[v] = shopping[v] /\ RequestIsOfSale(shopping[v], checkout)
      BY <2>1, <2>3 DEF InvoicesOfSale
    <3> QED
      BY <1>1, <3>1 DEF RequestIsOfSale
  <2> QED
    BY <2>2, <2>3
<1>3. \A invoice \in invoices' : IsOver(checkout') /\ IsIssued(checkout', invoice)
  <2> TAKE invoice \in invoices'
  <2>1. CASE invoice \in invoices
    <3>1. IsOver(checkout) /\ IsIssued(checkout, invoice)
      BY <2>1 DEF InvoicesOfSale
    <3> QED
      BY <1>1, <3>1 DEF IsIssued
  <2> QED
    BY <2>1
<1> QED
  BY <1>2, <1>3 DEF InvoicesOfSale

(* What a request does to the invoices: only the gateway's answer adds one.*)
LEMMA InvoicesHandle ==
  ASSUME CheckoutInv, InvoicesOfSale, NEW w \in Workers, Shop!Handle(w)
  PROVE  InvoicesOfSale'
<1> USE DEF Shop!End, Shop!Begin, Shop!door, Shop!sale
<1>1. ASSUME NEW r, r.at \notin {"look", "issue"}, shopping' = [shopping EXCEPT ![w] = r],
             SaleGoesOn, invoices' = invoices
      PROVE  InvoicesOfSale'
  <2>1. r # [at |-> "look", by |-> "sale"]
    BY <1>1
  <2>2. RequestIsOfSale(r, checkout')
    BY <1>1, <2>1 DEF RequestIsOfSale
  <2> QED
    BY <1>1, <2>2, InvoicesGoOn
<1>2. Shop!Idle.at \notin {"look", "issue"}
  BY DEF Shop!Idle
<1>3. ASSUME NEW to, Shop!Settle(w, to)
      PROVE  InvoicesOfSale'
  <2> DEFINE r == [at |-> "settings", read |-> json, to |-> to]
  <2>1. shopping' = [shopping EXCEPT ![w] = r] /\ SaleGoesOn /\ invoices' = invoices
    BY <1>3 DEF Shop!Settle, SaleGoesOn
  <2>2. r.at \notin {"look", "issue"}
    OBVIOUS
  <2> HIDE DEF r
  <2> QED
    BY <1>1, <2>1, <2>2
<1>4. CASE Shop!UpdateSettings(w) \/ Shop!RotateDoorQr(w) \/ Shop!GetDoorQr(w)
  BY <1>3, <1>4 DEF Shop!UpdateSettings, Shop!RotateDoorQr, Shop!GetDoorQr
<1>5. CASE Shop!CommitSettings(w) \/ Shop!CommitVoid(w) \/ Shop!Crash(w)
  <2>1. /\ shopping' = [shopping EXCEPT ![w] = Shop!Idle] /\ SaleGoesOn
        /\ invoices' = invoices
    BY <1>5 DEF Shop!CommitSettings, Shop!CommitVoid, Shop!Crash, SaleGoesOn
  <2> QED
    BY <1>1, <1>2, <2>1
<1>6. CASE Shop!Claim(w)
  <2> DEFINE r == [at |-> "paying", read |-> json, to |-> Shop!WithIdentity]
  <2>1. shopping' = [shopping EXCEPT ![w] = r] /\ SaleGoesOn /\ invoices' = invoices
    BY <1>6 DEF Shop!Claim, SaleGoesOn
  <2>2. r.at \notin {"look", "issue"}
    OBVIOUS
  <2> HIDE DEF r
  <2> QED
    BY <1>1, <2>1, <2>2
<1>7. CASE Shop!CommitPaid(w)
  <2> DEFINE r == [at |-> "look", by |-> "sale"]
  <2>1. /\ shopping[w].at = "paying" /\ shopping' = [shopping EXCEPT ![w] = r]
        /\ checkout' = [checkout EXCEPT !.status = "paid"] /\ invoices' = invoices
    BY <1>7 DEF Shop!CommitPaid
  <2>2. SaleGoesOn /\ IsOver(checkout')
    BY <2>1 DEF SaleGoesOn, CheckoutInv, PricedCheckout, IsOver
  <2>3. RequestIsOfSale(r, checkout')
    BY <2>2 DEF RequestIsOfSale
  <2> HIDE DEF r
  <2> QED
    BY <2>1, <2>2, <2>3, InvoicesGoOn
<1>8. CASE Shop!IssueLook(w)
  <2> DEFINE r == [at |-> "issue", by |-> "sale", seen |-> rows,
                   items |-> Shop!InvoiceLines(checkout.lines, checkout.discount)]
  <2>1. SaleGoesOn /\ invoices' = invoices /\ shopping[w] = [at |-> "look", by |-> "sale"]
    BY <1>8 DEF Shop!IssueLook, SaleGoesOn
  <2>2. \/ shopping' = [shopping EXCEPT ![w] = Shop!Idle]
        \/ shopping' = [shopping EXCEPT ![w] = r] /\ checkout' = checkout
    BY <1>8 DEF Shop!IssueLook
  <2>3. IsOver(checkout)
    BY <2>1 DEF InvoicesOfSale, RequestIsOfSale
  <2>4. RequestIsOfSale(r, checkout)
    <3>1. r.items = ItemsBy(checkout, "sale") /\ r.at = "issue" /\ r.by = "sale"
      BY DEF ItemsBy
    <3> HIDE DEF r
    <3> QED
      BY <2>3, <3>1 DEF RequestIsOfSale
  <2> HIDE DEF r
  <2>5. CASE shopping' = [shopping EXCEPT ![w] = Shop!Idle]
    BY <1>1, <1>2, <2>1, <2>5
  <2>6. CASE shopping' = [shopping EXCEPT ![w] = r] /\ checkout' = checkout
    BY <2>1, <2>4, <2>6, InvoicesGoOn
  <2> QED
    BY <2>2, <2>5, <2>6
<1>9. CASE Shop!StaffIssue(w)
  <2> DEFINE r == [at |-> "issue", by |-> "staff", seen |-> rows, items |-> Shop!OrderItems]
  <2>1. /\ SaleGoesOn /\ invoices' = invoices /\ IsOver(checkout) /\ checkout' = checkout
        /\ shopping' = [shopping EXCEPT ![w] = r]
    BY <1>9 DEF Shop!StaffIssue, SaleGoesOn, IsOver
  <2>2. RequestIsOfSale(r, checkout)
    <3>1. r.items = ItemsBy(checkout, "staff") /\ r.at = "issue" /\ r.by = "staff"
      BY DEF ItemsBy, Shop!OrderItems
    <3> HIDE DEF r
    <3> QED
      BY <2>1, <3>1 DEF RequestIsOfSale
  <2> HIDE DEF r
  <2> QED
    BY <2>1, <2>2, InvoicesGoOn
<1>10. ASSUME NEW answer \in {"issued", "failed"}, Shop!CommitIssue(w, answer)
       PROVE  InvoicesOfSale'
  <2> DEFINE by == shopping[w].by
             new == [by |-> by, items |-> shopping[w].items, total |-> checkout.total]
  <2>1. /\ shopping[w].at = "issue" /\ shopping' = [shopping EXCEPT ![w] = Shop!Idle]
        /\ SaleGoesOn /\ invoices' \subseteq invoices \cup {new}
    BY <1>10 DEF Shop!CommitIssue, SaleGoesOn
  <2>2. /\ IsOver(checkout) /\ by \in {"sale", "staff"}
        /\ shopping[w].items = ItemsBy(checkout, by)
    BY <2>1 DEF InvoicesOfSale, RequestIsOfSale
  <2>3. /\ IsOver(checkout') /\ ItemsBy(checkout', by) = ItemsBy(checkout, by)
        /\ checkout'.total = checkout.total
    BY <2>1, <2>2, SaleKeepsItems
  <2>4. IsIssued(checkout', new)
    BY <2>2, <2>3 DEF IsIssued
  <2>5. RequestIsOfSale(Shop!Idle, checkout')
    BY DEF RequestIsOfSale, Shop!Idle
  <2> HIDE DEF new
  <2> QED
    BY <2>1, <2>3, <2>4, <2>5, InvoicesGoOn
<1>11. CASE Shop!StaffVoid(w)
  <2>1. PICK i \in DOMAIN rows : shopping' = [shopping EXCEPT ![w] = [at |-> "void", by |-> "staff", row |-> i]]
    BY <1>11 DEF Shop!StaffVoid
  <2> DEFINE r == [at |-> "void", by |-> "staff", row |-> i]
  <2>2. shopping' = [shopping EXCEPT ![w] = r] /\ SaleGoesOn /\ invoices' = invoices
    BY <1>11, <2>1 DEF Shop!StaffVoid, SaleGoesOn
  <2>3. r.at \notin {"look", "issue"}
    OBVIOUS
  <2> HIDE DEF r
  <2> QED
    BY <1>1, <2>2, <2>3
<1>12. CASE Shop!RefundCheckout(w)
  <2> DEFINE r == [at |-> "look", by |-> "refund"]
  <2>1. shopping' = [shopping EXCEPT ![w] = r] /\ invoices' = invoices /\ SaleGoesOn
    BY <1>12 DEF Shop!RefundCheckout, SaleGoesOn
  <2>2. r.by = "refund" /\ r.at = "look"
    OBVIOUS
  <2> HIDE DEF r
  <2>3. RequestIsOfSale(r, checkout')
    BY <2>2 DEF RequestIsOfSale
  <2> QED
    BY <2>1, <2>3, InvoicesGoOn
<1>13. CASE Shop!RefundLook(w)
  <2> DEFINE r == [at |-> "void", by |-> "refund", row |-> 1]
  <2>1. shopping' = [shopping EXCEPT ![w] = Shop!Idle] \/ shopping' = [shopping EXCEPT ![w] = r]
    BY <1>13 DEF Shop!RefundLook
  <2>2. r.at \notin {"look", "issue"}
    OBVIOUS
  <2> HIDE DEF r
  <2>3. SaleGoesOn /\ invoices' = invoices
    BY <1>13 DEF Shop!RefundLook, SaleGoesOn
  <2> QED
    BY <1>1, <1>2, <2>1, <2>2, <2>3
<1> QED
  BY <1>4, <1>5, <1>6, <1>7, <1>8, <1>9, <1>10, <1>11, <1>12, <1>13 DEF Shop!Handle

LEMMA InvoicesStep ==
  ASSUME CheckoutInv, InvoicesOfSale, Shop!Next \/ UNCHANGED Shop!shopVars
  PROVE  InvoicesOfSale'
<1>1. CASE \E w \in Workers : Shop!Handle(w)
  BY <1>1, InvoicesHandle
<1>2. CASE UNCHANGED Shop!shopVars \/ Shop!ResolveDoorQr
  <2>1. UNCHANGED <<checkout, shopping, invoices>>
    BY <1>2 DEF Shop!shopVars, Shop!ResolveDoorQr, Shop!sale
  <2> QED
    BY <2>1 DEF InvoicesOfSale
<1>3. CASE Shop!CreateCheckout \/ Shop!SelectCash
  <2>1. UNCHANGED <<shopping, invoices>> /\ ~IsOver(checkout)
    BY <1>3 DEF Shop!CreateCheckout, Shop!SelectCash, IsOver
  <2>2. invoices = {} /\ \A w \in Workers :
          shopping[w] # [at |-> "look", by |-> "sale"] /\ shopping[w].at # "issue"
    BY <2>1 DEF InvoicesOfSale, RequestIsOfSale
  <2> QED
    BY <2>1, <2>2 DEF InvoicesOfSale, RequestIsOfSale
<1> QED
  BY <1>1, <1>2, <1>3 DEF Shop!Next

(* What an order's lines come to before the discount (issue_invoice).      *)
LEMMA OrderItemsAddUp ==
  ASSUME NEW lines \in Seq(ShopLine)
  PROVE  LET items == [i \in DOMAIN lines |-> Shop!Item(lines[i].qty, lines[i].price)] IN
         /\ [i \in DOMAIN items |-> items[i].amount] = Shop!Amounts(lines)
         /\ \A i \in DOMAIN items : items[i].amount >= 0
<1>1. \A i \in DOMAIN lines : lines[i] \in ShopLine
  BY ElementOfSeq, LenProperties
<1>2. \A i \in DOMAIN lines : lines[i].qty * lines[i].price >= 0
  BY <1>1 DEF ShopLine
<1> QED
  BY <1>2 DEF Shop!Item, Shop!Amounts

LEMMA InvoiceFollows == CheckoutInv /\ InvoicesOfSale => Shop!InvoiceItemsMakeTotal
<1> SUFFICES ASSUME CheckoutInv, InvoicesOfSale, NEW invoice \in invoices
             PROVE  LET items == invoice.items
                        over == IF invoice.by = "staff" THEN checkout.discount ELSE 0
                    IN /\ Shop!Sum([i \in DOMAIN items |-> items[i].amount])
                            = invoice.total + over
                       /\ \A i \in DOMAIN items : items[i].amount >= 0
  BY DEF Shop!InvoiceItemsMakeTotal
<1> DEFINE items == invoice.items
           whole == Shop!Sum(Shop!Amounts(checkout.lines))
<1>1. /\ IsOver(checkout) /\ invoice.by \in {"sale", "staff"}
      /\ items = ItemsBy(checkout, invoice.by) /\ invoice.total = checkout.total
  BY DEF InvoicesOfSale, IsIssued
<1>2. checkout.lines \in Seq(ShopLine) /\ IsPriced(checkout)
  BY <1>1 DEF CheckoutInv, PricedCheckout, IsOver
<1>3. /\ whole > 0 /\ checkout.discount \in 0..whole
      /\ checkout.total = whole - checkout.discount
  BY <1>2 DEF IsPriced
<1>4. checkout.subtotal = whole /\ whole \in Nat /\ checkout.discount \in Nat
  BY <1>2 DEF IsPriced, CheckoutInv, PricedCheckout
<1>5. CASE invoice.by = "sale"
  <2>1. items = Shop!InvoiceLines(checkout.lines, checkout.discount)
    BY <1>1, <1>5 DEF ItemsBy
  <2>2. /\ Shop!Sum([i \in DOMAIN items |-> items[i].amount]) = whole - checkout.discount
        /\ \A i \in DOMAIN items : items[i].amount >= 0
    BY <1>2, <1>3, <2>1, InvoiceAddsUp
  <2> HIDE DEF items, whole
  <2> QED
    BY <1>1, <1>3, <1>4, <1>5, <2>2 DEF items
<1>6. CASE invoice.by = "staff"
  <2>1. items = [i \in DOMAIN checkout.lines |->
                   Shop!Item(checkout.lines[i].qty, checkout.lines[i].price)]
    BY <1>1, <1>6 DEF ItemsBy
  <2>2. /\ [i \in DOMAIN items |-> items[i].amount] = Shop!Amounts(checkout.lines)
        /\ \A i \in DOMAIN items : items[i].amount >= 0
    BY <1>2, <2>1, OrderItemsAddUp
  <2>3. Shop!Sum([i \in DOMAIN items |-> items[i].amount]) = whole
    BY <2>2
  <2> HIDE DEF items, whole
  <2> QED
    BY <1>1, <1>3, <1>4, <1>6, <2>2, <2>3 DEF items
<1> QED
  BY <1>1, <1>5, <1>6

LEMMA InvoicesInit == ASSUME Shop!ShopParameters, Shop!Init PROVE CheckoutInv /\ InvoicesOfSale
<1>1. CheckoutInv
  BY CheckoutInit
<1> QED
  BY <1>1 DEF Shop!Init, Shop!Idle, InvoicesOfSale, RequestIsOfSale

(* The items of the invoice that a sale issues make up the total invoiced, *)
(* those of one that the staff issue exceed it by the discount, and none   *)
(* is negative, of any basket, redemption and settings, whoever issues,    *)
(* voids and refunds meanwhile (invoice_lines, allocate_discount,          *)
(* select_cash, issue_invoice).                                            *)
THEOREM InvoicesAlways ==
  ASSUME Shop!ShopParameters
  PROVE  Shop!Spec => []Shop!InvoiceItemsMakeTotal
<1>1. Shop!Init => CheckoutInv /\ InvoicesOfSale
  BY InvoicesInit
<1>2. CheckoutInv /\ InvoicesOfSale /\ [Shop!Next]_(Shop!shopVars)
      => CheckoutInv' /\ InvoicesOfSale'
  BY CheckoutStep, InvoicesStep
<1>3. CheckoutInv /\ InvoicesOfSale => Shop!InvoiceItemsMakeTotal
  BY InvoiceFollows
<1> QED
  BY <1>1, <1>2, <1>3, PTL DEF Shop!Spec

(* A step of the back office, of the part "shop", is one of it alone.      *)
LEMMA CheckoutStepIsOwn ==
  ASSUME BackOfficeNext \/ UNCHANGED backOfficeVars, part = "shop"
  PROVE  part' = part /\ (Shop!Next \/ UNCHANGED Shop!shopVars)
<1>1. CASE BackOfficeNext
  BY <1>1 DEF BackOfficeNext
<1>2. CASE UNCHANGED backOfficeVars
  BY <1>2 DEF backOfficeVars
<1> QED
  BY <1>1, <1>2

(* In the back office: the items of an invoice make up its total, but for  *)
(* the discount on one that the staff issue                                *)
(* (services/bookstore_checkout.py, api/v1/invoices.py).                   *)
THEOREM InvoiceItemsMakeTotalAlways == BackOfficeSpec => []InvoiceItemsMakeTotal
<1> DEFINE Inv == part = "shop" => CheckoutInv /\ InvoicesOfSale
<1>1. BackOfficeInit => Inv
  BY ShopParametersHold, InvoicesInit DEF BackOfficeInit
<1>2. Inv /\ [BackOfficeNext]_backOfficeVars => Inv'
  <2> SUFFICES ASSUME Inv, [BackOfficeNext]_backOfficeVars, part' = "shop"
               PROVE  CheckoutInv' /\ InvoicesOfSale'
    OBVIOUS
  <2>1. part = "shop"
    BY DEF BackOfficeNext, backOfficeVars
  <2>2. Shop!Next \/ UNCHANGED Shop!shopVars
    BY <2>1, CheckoutStepIsOwn
  <2> QED
    BY <2>1, <2>2, ShopParametersHold, CheckoutStep, InvoicesStep
<1>3. Inv => InvoiceItemsMakeTotal
  BY InvoiceFollows DEF InvoiceItemsMakeTotal
<1> QED
  BY <1>1, <1>2, <1>3, PTL DEF BackOfficeSpec
=============================================================================
