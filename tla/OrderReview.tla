---------------------------- MODULE OrderReview ----------------------------
(***************************************************************************)
(* Orders at the server after the till has uploaded them: refunds, voids   *)
(* and their review by a manager, with the stock they give back:           *)
(* apps/api/app/api/v1/refunds.py, approvals.py and, for the stock a sale  *)
(* takes, orders.py.                                                       *)
(*                                                                         *)
(* A worker handles one request at a time in a session of its own: it      *)
(* reads the rows it decides by, then the inventory level, then commits    *)
(* the columns whose values differ from what it read.  A write before the  *)
(* second step locks its row until the session ends.  One product at a     *)
(* price of one stands for all; an order is Total(o) of it.                *)
(***************************************************************************)
EXTENDS Integers, FiniteSets

CONSTANTS
  Orders,
  Refunds,
  Workers,
  Total(_),     \* Total(o): the quantity, and price, of order o
  OrderOf(_),   \* OrderOf(r): the order that refund r is of
  Amount(_)     \* Amount(r): the quantity, and price, that r gives back

ASSUME RefundsAreNotOrders == Refunds \cap Orders = {}
ASSUME TotalType == \A o \in Orders : Total(o) \in Nat \ {0}
ASSUME RefundType ==
  \A r \in Refunds : OrderOf(r) \in Orders /\ Amount(r) \in 1..Total(OrderOf(r))

VARIABLES
  order,      \* order[o]: the row of order o
  refund,     \* refund[r]: status of the row of refund r
  onHand,     \* on_hand of the inventory level
  ledger,     \* the sum of the inventory movements
  booked,     \* booked[x]: how often the movements of refund or void x are there
  session     \* session[w]: what worker w is at

vars == <<order, refund, onHand, ledger, booked, session>>

---------------------------------------------------------------------------
Order == [status : {"none", "paid", "partiallyRefunded", "refunded", "voided"},
          refunded : Nat, void : {"none", "pending", "approved", "rejected"}]

NoOrder == [status |-> "none", refunded |-> 0, void |-> "none"]

Refundable == {"paid", "partiallyRefunded"}

Idle == [op |-> "none"]

OrderOps == {"sell", "askVoid", "voidNow", "approveVoid", "rejectVoid"}
RefundOps == {"file", "refundNow", "approve", "reject"}

(* The requests that move stock, and those that write before they read it. *)
Movers == {"sell", "refundNow", "approve", "voidNow", "approveVoid"}
LockFirst == {"sell", "refundNow", "approve", "voidNow"}

Session ==
  {Idle}
  \cup [op : OrderOps, of : Orders, read : Order, flushed : BOOLEAN, level : Int]
  \cup [op : RefundOps, of : Refunds, read : Order, flushed : BOOLEAN, level : Int]

TypeOK ==
  /\ order \in [Orders -> Order]
  /\ refund \in [Refunds -> {"none", "pending", "approved", "rejected"}]
  /\ onHand \in Int /\ ledger \in Int
  /\ booked \in [Refunds \cup Orders -> Nat]
  /\ session \in [Workers -> Session]

Init ==
  /\ order = [o \in Orders |-> NoOrder]
  /\ refund = [r \in Refunds |-> "none"]
  /\ onHand = 0 /\ ledger = 0
  /\ booked = [x \in Refunds \cup Orders |-> 0]
  /\ session = [w \in Workers |-> Idle]

---------------------------------------------------------------------------
(* The first step of each request; a request that its checks turn down     *)
(* leaves nothing behind.                                                  *)

Begin(w, op, x, o) ==
  /\ session[w] = Idle
  /\ session' = [session EXCEPT ![w] =
       [op |-> op, of |-> x, read |-> order[o], flushed |-> FALSE, level |-> 0]]
  /\ UNCHANGED <<order, refund, onHand, ledger, booked>>

(* upload_order; uploads take turns at the row of the order sequence.      *)
Sell(w, o) ==
  /\ order[o].status = "none"
  /\ \A v \in Workers : session[v].op # "sell"
  /\ Begin(w, "sell", o, o)

(* refund_order, to be reviewed or, for a manager or a tenant without      *)
(* review, on the spot.                                                    *)
RefundOrder(w, r, now) ==
  /\ order[OrderOf(r)].status \in Refundable
  /\ refund[r] = "none"
  /\ Begin(w, IF now THEN "refundNow" ELSE "file", r, OrderOf(r))

ApproveRefund(w, r) ==
  /\ refund[r] = "pending"
  /\ Begin(w, "approve", r, OrderOf(r))

RejectRefund(w, r) ==
  /\ refund[r] = "pending"
  /\ Begin(w, "reject", r, OrderOf(r))

(* create_void_request, which a manager's own request approves.            *)
RequestVoid(w, o, now) ==
  /\ order[o].status = "paid"
  /\ order[o].void # "pending"
  /\ Begin(w, IF now THEN "voidNow" ELSE "askVoid", o, o)

ApproveVoid(w, o) ==
  /\ order[o].void = "pending"
  /\ order[o].status = "paid"
  /\ Begin(w, "approveVoid", o, o)

RejectVoid(w, o) ==
  /\ order[o].void = "pending"
  /\ Begin(w, "rejectVoid", o, o)

---------------------------------------------------------------------------
(* The second step: the level is read, after a flush of what is written so *)
(* far.                                                                    *)

(* w is past its flush, and has x locked.                                  *)
Holds(w, x) ==
  session[w] # Idle /\ session[w].op \in LockFirst
    /\ session[w].of = x /\ session[w].flushed

(* Nobody else has locked a row that w is going to write.                  *)
Unlocked(w, x) == \A v \in Workers \ {w} : ~Holds(v, x)

ReadLevel(w) ==
  /\ session[w] # Idle
  /\ session[w].op \in Movers
  /\ ~session[w].flushed
  /\ session[w].op \in LockFirst => Unlocked(w, session[w].of)
  /\ session' = [session EXCEPT ![w] =
       IF @.op = "refundNow" /\ refund[@.of] # "none" THEN Idle  \* primary key
       ELSE [@ EXCEPT !.flushed = TRUE, !.level = onHand]]
  /\ UNCHANGED <<order, refund, onHand, ledger, booked>>

---------------------------------------------------------------------------
(* The last step: flush and commit.                                        *)

Move(qty, level) ==
  /\ onHand' = level + qty
  /\ ledger' = ledger + qty

NoMove == UNCHANGED <<onHand, ledger, booked>>

(* apply_refund_effects, from the order as it was read.                    *)
Refunded(row, read, amount, total) ==
  LET sum == read.refunded + amount
      status == IF sum >= total THEN "refunded" ELSE "partiallyRefunded"
  IN  [row EXCEPT !.refunded = sum,
                  !.status = IF status = read.status THEN @ ELSE status]

(* Mutant: the refund is marked as approved before its effects are booked. *)
CommitRefundFirst(w) ==
  LET s == session[w] IN
  /\ s.op \in {"refundNow", "approve"} /\ s.flushed
  /\ refund' = [refund EXCEPT ![s.of] = "approved"]
  /\ NoMove /\ UNCHANGED order

(* Mutant: the status of the order is left to a later step.                *)
CommitRefundOnly(w) ==
  LET s == session[w] IN
  /\ s.op \in {"refundNow", "approve"} /\ s.flushed
  /\ refund' = [refund EXCEPT ![s.of] = "approved"]
  /\ Move(Amount(s.of), s.level)
  /\ booked' = [booked EXCEPT ![s.of] = @ + 1]
  /\ UNCHANGED order

(* refund_order and approve_refund.                                        *)
CommitRefund(w) ==
  LET s == session[w]
      o == OrderOf(s.of)
  IN  /\ s.op \in {"refundNow", "approve"} /\ s.flushed
      /\ Unlocked(w, o)
      /\ refund' = [refund EXCEPT ![s.of] = "approved"]
      /\ order' = [order EXCEPT ![o] = Refunded(@, s.read, Amount(s.of), Total(o))]
      /\ Move(Amount(s.of), s.level)
      /\ booked' = [booked EXCEPT ![s.of] = @ + 1]

CommitFile(w) ==
  LET s == session[w] IN
  /\ s.op = "file" /\ Unlocked(w, s.of)
  /\ refund' = [refund EXCEPT ![s.of] = IF @ = "none" THEN "pending" ELSE @]
  /\ UNCHANGED order /\ NoMove

CommitReject(w) ==
  LET s == session[w] IN
  /\ s.op = "reject" /\ Unlocked(w, s.of)
  /\ refund' = [refund EXCEPT ![s.of] = "rejected"]
  /\ UNCHANGED order /\ NoMove

(* _apply_void: all of the order goes back.                                *)
CommitVoid(w) ==
  LET s == session[w] IN
  /\ s.op \in {"voidNow", "approveVoid"} /\ s.flushed
  /\ Unlocked(w, s.of)
  /\ order' = [order EXCEPT ![s.of].status = "voided", ![s.of].void = "approved"]
  /\ Move(Total(s.of), s.level)
  /\ booked' = [booked EXCEPT ![s.of] = @ + 1]
  /\ UNCHANGED refund

CommitAskVoid(w) ==
  LET s == session[w] IN
  /\ s.op \in {"askVoid", "rejectVoid"} /\ Unlocked(w, s.of)
  /\ order' = [order EXCEPT ![s.of].void =
                 IF s.op = "askVoid" THEN "pending" ELSE "rejected"]
  /\ UNCHANGED refund /\ NoMove

CommitSell(w) ==
  LET s == session[w] IN
  /\ s.op = "sell" /\ s.flushed
  /\ order' = [order EXCEPT ![s.of].status = "paid"]
  /\ Move(-Total(s.of), s.level)
  /\ UNCHANGED <<refund, booked>>

Commit(w) ==
  /\ \/ CommitRefund(w) \/ CommitFile(w) \/ CommitReject(w)
     \/ CommitVoid(w) \/ CommitAskVoid(w) \/ CommitSell(w)
  /\ session' = [session EXCEPT ![w] = Idle]

(* The session ends in an error and nothing of it is kept.                 *)
Abort(w) ==
  /\ session[w] # Idle
  /\ session' = [session EXCEPT ![w] = Idle]
  /\ UNCHANGED <<order, refund, onHand, ledger, booked>>

---------------------------------------------------------------------------
Next ==
  \E w \in Workers :
    \/ \E o \in Orders : Sell(w, o) \/ ApproveVoid(w, o) \/ RejectVoid(w, o)
    \/ \E o \in Orders, now \in BOOLEAN : RequestVoid(w, o, now)
    \/ \E r \in Refunds : ApproveRefund(w, r) \/ RejectRefund(w, r)
    \/ \E r \in Refunds, now \in BOOLEAN : RefundOrder(w, r, now)
    \/ ReadLevel(w) \/ Commit(w) \/ Abort(w)

Spec == Init /\ [][Next]_vars

---------------------------------------------------------------------------
(* Properties.                                                             *)

RefundsOf(o) == {r \in Refunds : OrderOf(r) = o}

(* Whatever overlaps, an order that reads as paid has had nothing given    *)
(* back: no refund or void of it is booked.                                *)
NothingBookedWhilePaid ==
  \A o \in Orders : order[o].status = "paid" =>
    booked[o] = 0 /\ \A r \in RefundsOf(o) : booked[r] = 0

(* A refund that reads as approved has its movements, and one that has     *)
(* them is never open again, whichever of the reviewers that read it as    *)
(* pending committed first and however often the till files it.            *)
ApprovedIsBooked ==
  \A r \in Refunds :
    /\ refund[r] = "approved" => booked[r] > 0
    /\ booked[r] > 0 => refund[r] \in {"approved", "rejected"}

(* The effects of a refund are applied at most once.  True of requests     *)
(* that are handled one at a time; a comment in refunds.py says it of all. *)
BookedOnce == \A r \in Refunds : booked[r] <= 1

=============================================================================
