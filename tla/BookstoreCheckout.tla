------------------------- MODULE BookstoreCheckout -------------------------
(***************************************************************************)
(* The scan-and-go checkout of a physical bookstore:                       *)
(* apps/api/app/services/bookstore_checkout.py and the handlers of         *)
(* api/v1/bookstore.py, bookstore_partner.py and bookstore_public.py that  *)
(* call it.  Every handler is a coroutine with a database session of its   *)
(* own (READ COMMITTED), so a handler that reads a row and writes it after *)
(* an await is two actions, with what it read kept in its job.  A handler  *)
(* whose write is one conditional UPDATE that repeats all its checks is    *)
(* one action: what it read earlier cannot change the outcome.             *)
(***************************************************************************)
EXTENDS Baskets

CONSTANTS
  Workers,      \* requests the server handles at the same time
  Customers,
  Owner,        \* Owner[c]: the customer who opens checkout c
  MaxPending,   \* BOOKSTORE_MAX_PENDING_PER_CUSTOMER
  MaxAttempts,  \* MAX_PAYMENT_ATTEMPTS
  AppTotal,     \* what a checkout costs when paid online
  CashTotal     \* what it costs once cash at the counter is selected

ASSUME OwnerType == Owner \in [Checkouts -> Customers]
ASSUME LimitsType == MaxPending \in Nat /\ MaxAttempts \in Nat
ASSUME TotalsType == AppTotal \in Nat /\ CashTotal \in Nat

VARIABLES
  row,       \* row[c]: the bookstore_checkouts row of checkout c
  orders,    \* orders[c]: orders created for c
  onHand,    \* onHand[p]: inventory_levels.on_hand
  reserved,  \* reserved[p]: inventory_levels.reserved
  job,       \* job[w]: what the request in worker w has read so far
  forms,     \* payment forms handed to browsers
  captured,  \* forms the gateway took the money for
  admitted   \* admitted[c]: times the door was told "valid" for c

vars == <<row, orders, onHand, reserved, job, forms, captured, admitted>>
stock == <<onHand, reserved>>
gateway == <<forms, captured>>

---------------------------------------------------------------------------
(* Types.                                                                  *)

Statuses == {"none", "pending", "paid", "expired", "cancelled", "refunded"}

Totals == {AppTotal, CashTotal}

Row == [status : Statuses, active : BOOLEAN, lapsed : BOOLEAN,
        cash : BOOLEAN, total : Totals, attempts : 0..MaxAttempts,
        late : BOOLEAN, gate : {"none", "cash", "ecpay"}, ref : 0..MaxAttempts,
        pass : {"none", "live", "lapsed"}, verified : BOOLEAN]

Form == [c : Checkouts, no : 1..MaxAttempts, amount : Totals]

Idle == [op |-> "idle"]

Job == {Idle}
  \cup [op : {"create", "exit"}, c : Checkouts]
  \cup [op : {"page"}, c : Checkouts, attempts : 0..(MaxAttempts - 1), total : Totals]

TypeOK ==
  /\ row \in [Checkouts -> Row]
  /\ orders \in [Checkouts -> Nat]
  /\ onHand \in [Products -> Int]
  /\ reserved \in [Products -> Nat]
  /\ job \in [Workers -> Job]
  /\ forms \subseteq Form
  /\ captured \subseteq forms
  /\ admitted \in [Checkouts -> Nat]

---------------------------------------------------------------------------
(* A row as create_checkout inserts it; status "none" is no row at all.    *)
NewRow(s) ==
  [status |-> s, active |-> s = "pending", lapsed |-> FALSE, cash |-> FALSE,
   total |-> AppTotal, attempts |-> 0, late |-> FALSE, gate |-> "none", ref |-> 0,
   pass |-> "none", verified |-> FALSE]

Init ==
  /\ row = [c \in Checkouts |-> NewRow("none")]
  /\ orders = [c \in Checkouts |-> 0]
  /\ onHand = Stock
  /\ reserved = [p \in Products |-> 0]
  /\ job = [w \in Workers |-> Idle]
  /\ forms = {}
  /\ captured = {}
  /\ admitted = [c \in Checkouts |-> 0]

With(s) == {c \in Checkouts : row[c].status = s}
Holding == {c \in Checkouts : row[c].active}
PendingOf(u) == {c \in With("pending") : Owner[c] = u}
Lapsed == {c \in With("pending") : row[c].lapsed}

Floor0(n) == IF n < 0 THEN 0 ELSE n

(* _unreserve, for all the lines of the checkouts in S.                    *)
Unreserve(S) ==
  reserved' = [p \in Products |-> Floor0(reserved[p] - Demand(S, p))]

(* _close_pending for each checkout in S, in one transaction.              *)
ClosePending(S, s) ==
  LET closed == {c \in S : row[c].status = "pending" /\ row[c].active}
  IN  /\ row' = [c \in Checkouts |->
                   IF c \in closed
                     THEN [row[c] EXCEPT !.status = s, !.active = FALSE]
                     ELSE row[c]]
      /\ Unreserve(closed)

---------------------------------------------------------------------------
(* create_checkout up to the pending count: a known client_request_id      *)
(* returns the checkout it made (no step here); otherwise the expired      *)
(* holds of the tenant are released and committed, and the customer's      *)
(* pending checkouts are counted.                                          *)
CreateRead(w, c) ==
  /\ job[w] = Idle
  /\ row[c].status = "none"
  /\ ClosePending(Lapsed, "expired")
  /\ job' = IF Cardinality(PendingOf(Owner[c]) \ Lapsed) < MaxPending
              THEN [job EXCEPT ![w] = [op |-> "create", c |-> c]]
              ELSE job
  /\ UNCHANGED <<orders, onHand, gateway, admitted>>

(* Mutant: on_hand is compared and the copies other buyers hold are not     *)
(* subtracted.                                                             *)
CreateCommitIgnoringHolds(w) ==
  LET c == job[w].c IN
  /\ job[w].op = "create"
  /\ row[c].status = "none"
  /\ \A p \in Products : onHand[p] >= Demand({c}, p)
  /\ row' = [row EXCEPT ![c] = NewRow("pending")]
  /\ reserved' = [p \in Products |-> reserved[p] + Demand({c}, p)]
  /\ job' = [job EXCEPT ![w] = Idle]
  /\ UNCHANGED <<orders, onHand, gateway, admitted>>

(* The rest of create_checkout, one transaction: insert the row and its    *)
(* lines, reserve each line where on_hand - reserved >= qty, commit.       *)
CreateCommit(w) ==
  LET c == job[w].c IN
  /\ job[w].op = "create"
  /\ row[c].status = "none"
  /\ \A p \in Products : onHand[p] - reserved[p] >= Demand({c}, p)
  /\ row' = [row EXCEPT ![c] = NewRow("pending")]
  /\ reserved' = [p \in Products |-> reserved[p] + Demand({c}, p)]
  /\ job' = [job EXCEPT ![w] = Idle]
  /\ UNCHANGED <<orders, onHand, gateway, admitted>>

(* Mutant: the lines reserved before the one that failed are not rolled    *)
(* back.                                                                   *)
CreateFailKeepingLines(w) ==
  LET c == job[w].c IN
  /\ job[w].op = "create"
  /\ row[c].status = "none"
  /\ \E p \in Products : onHand[p] - reserved[p] < Demand({c}, p)
  /\ reserved' = [p \in Products |->
                    IF onHand[p] - reserved[p] < Demand({c}, p)
                      THEN reserved[p] ELSE reserved[p] + Demand({c}, p)]
  /\ job' = [job EXCEPT ![w] = Idle]
  /\ UNCHANGED <<row, orders, onHand, gateway, admitted>>

(* Rolled back: the unique key on client_request_id, or a line that could  *)
(* not be reserved.                                                        *)
CreateFail(w) ==
  LET c == job[w].c IN
  /\ job[w].op = "create"
  /\ \/ row[c].status # "none"
     \/ \E p \in Products : onHand[p] - reserved[p] < Demand({c}, p)
  /\ job' = [job EXCEPT ![w] = Idle]
  /\ UNCHANGED <<row, orders, stock, gateway, admitted>>

Cancel(c) ==
  /\ row[c].status = "pending"
  /\ ClosePending({c}, "cancelled")
  /\ UNCHANGED <<orders, onHand, job, gateway, admitted>>

(* expires_at passes.                                                      *)
Lapse(c) ==
  /\ row[c].status = "pending"
  /\ ~row[c].lapsed
  /\ row' = [row EXCEPT ![c].lapsed = TRUE]
  /\ UNCHANGED <<orders, stock, job, gateway, admitted>>

(* select_cash: the UPDATE repeats every check on the row.                 *)
SelectCash(c) ==
  /\ row[c].status = "pending"
  /\ ~row[c].cash
  /\ row[c].attempts = 0
  /\ ~row[c].lapsed
  /\ row' = [row EXCEPT ![c].cash = TRUE, ![c].total = CashTotal]
  /\ UNCHANGED <<orders, stock, job, gateway, admitted>>

---------------------------------------------------------------------------
(* Online payment.                                                         *)

(* Mutant: MAX_PAYMENT_ATTEMPTS is not checked.                            *)
PageReadUncapped(w, c) ==
  /\ job[w] = Idle
  /\ row[c].status = "pending"
  /\ ~row[c].cash
  /\ ~row[c].lapsed
  /\ job' = [job EXCEPT ![w] = [op |-> "page", c |-> c,
               attempts |-> row[c].attempts, total |-> row[c].total]]
  /\ UNCHANGED <<row, orders, stock, gateway, admitted>>

(* payment_page: next_payment_trade_no checks the row it has loaded ...    *)
PageRead(w, c) ==
  /\ job[w] = Idle
  /\ row[c].status = "pending"
  /\ ~row[c].cash
  /\ ~row[c].lapsed
  /\ row[c].attempts < MaxAttempts
  /\ job' = [job EXCEPT ![w] = [op |-> "page", c |-> c,
               attempts |-> row[c].attempts, total |-> row[c].total]]
  /\ UNCHANGED <<row, orders, stock, gateway, admitted>>

(* ... and writes payment_attempts back through the ORM, with no condition *)
(* on the row as it is now; the form carries the total that was read.      *)
PageCommit(w) ==
  LET c == job[w].c
      n == job[w].attempts + 1
  IN  /\ job[w].op = "page"
      /\ row' = [row EXCEPT ![c].attempts = n]
      /\ forms' = forms \cup {[c |-> c, no |-> n, amount |-> job[w].total]}
      /\ job' = [job EXCEPT ![w] = Idle]
      /\ UNCHANGED <<orders, stock, captured, admitted>>

(* The gateway takes a payment; it takes a trade number only once.         *)
Capture(f) ==
  /\ \A g \in captured : ~(g.c = f.c /\ g.no = f.no)
  /\ captured' = captured \cup {f}
  /\ UNCHANGED <<row, orders, stock, job, forms, admitted>>

(* Mutant: the lines are unreserved whatever reservation_active says.      *)
MarkPaidAlwaysUnreserving(c, from, gate, ref) ==
  /\ row[c].status \in from
  /\ row' = [row EXCEPT ![c].status = "paid",
                        ![c].active = FALSE,
                        ![c].late = ~row[c].active,
                        ![c].gate = gate,
                        ![c].ref = ref,
                        ![c].pass = IF gate = "cash" THEN @ ELSE "live",
                        ![c].verified = IF gate = "cash" THEN TRUE ELSE @]
  /\ orders' = [orders EXCEPT ![c] = @ + 1]
  /\ Unreserve({c})
  /\ onHand' = [p \in Products |-> onHand[p] - Demand({c}, p)]
  /\ UNCHANGED <<job, gateway, admitted>>

(* mark_paid: one transaction, entered through the UPDATE of the status.   *)
MarkPaid(c, from, gate, ref) ==
  /\ row[c].status \in from
  /\ row' = [row EXCEPT ![c].status = "paid",
                        ![c].active = FALSE,
                        ![c].late = ~row[c].active,
                        ![c].gate = gate,
                        ![c].ref = ref,
                        ![c].pass = IF gate = "cash" THEN @ ELSE "live",
                        ![c].verified = IF gate = "cash" THEN TRUE ELSE @]
  /\ orders' = [orders EXCEPT ![c] = @ + 1]
  /\ Unreserve(IF row[c].active THEN {c} ELSE {})
  /\ onHand' = [p \in Products |-> onHand[p] - Demand({c}, p)]
  /\ UNCHANGED <<job, gateway, admitted>>

(* Mutants: a notification for a checkout that is paid already is settled  *)
(* again; the amount is not compared; a late payment is turned away.       *)
NotifyReplayed(f) ==
  /\ f.amount = row[f.c].total
  /\ MarkPaid(f.c, {"pending", "expired", "cancelled", "paid"}, "ecpay", f.no)

NotifyAnyAmount(f) ==
  MarkPaid(f.c, {"pending", "expired", "cancelled"}, "ecpay", f.no)

NotifyPendingOnly(f) ==
  /\ f.amount = row[f.c].total
  /\ MarkPaid(f.c, {"pending"}, "ecpay", f.no)

(* ecpay_notify, delivered any number of times.  A wrong amount or a       *)
(* checkout that is settled already changes nothing.                       *)
Notify(f) ==
  /\ f.amount = row[f.c].total
  /\ MarkPaid(f.c, {"pending", "expired", "cancelled"}, "ecpay", f.no)

(* confirm_cash: staff took the cash, expected_total_cents matching.       *)
ConfirmCash(c) ==
  /\ row[c].cash
  /\ MarkPaid(c, {"pending", "expired"}, "cash", 0)

---------------------------------------------------------------------------
(* The door and the return desk.                                           *)

(* exit_expires_at passes.                                                 *)
PassLapse(c) ==
  /\ row[c].status = "paid"
  /\ row[c].pass = "live"
  /\ row' = [row EXCEPT ![c].pass = "lapsed"]
  /\ UNCHANGED <<orders, stock, job, gateway, admitted>>

RotateExitPass(c) ==
  /\ row[c].status = "paid"
  /\ ~row[c].verified
  /\ row' = [row EXCEPT ![c].pass = "live"]
  /\ UNCHANGED <<orders, stock, job, gateway, admitted>>

(* verify_exit checks the row it has loaded ...                            *)
ExitRead(w, c) ==
  /\ job[w] = Idle
  /\ row[c].status = "paid"
  /\ ~row[c].verified
  /\ row[c].pass = "live"
  /\ job' = [job EXCEPT ![w] = [op |-> "exit", c |-> c]]
  /\ UNCHANGED <<row, orders, stock, gateway, admitted>>

(* Mutant: the UPDATE does not repeat "exit_verified_at IS NULL".          *)
ExitCommitUnguarded(w) ==
  LET c == job[w].c
  IN  /\ job[w].op = "exit"
      /\ row' = [row EXCEPT ![c].verified = TRUE]
      /\ admitted' = [admitted EXCEPT ![c] = @ + 1]
      /\ job' = [job EXCEPT ![w] = Idle]
      /\ UNCHANGED <<orders, stock, gateway>>

(* ... and answers "valid" if it is the one to set exit_verified_at.       *)
ExitCommit(w) ==
  LET c == job[w].c
      first == ~row[c].verified
  IN  /\ job[w].op = "exit"
      /\ row' = [row EXCEPT ![c].verified = TRUE]
      /\ admitted' = [admitted EXCEPT ![c] = IF first THEN @ + 1 ELSE @]
      /\ job' = [job EXCEPT ![w] = Idle]
      /\ UNCHANGED <<orders, stock, gateway>>

(* Mutant: a checkout that is refunded already is refunded again.          *)
RefundAgain(c) ==
  /\ row[c].status \in {"paid", "refunded"}
  /\ row' = [row EXCEPT ![c].status = "refunded"]
  /\ onHand' = [p \in Products |-> onHand[p] + Demand({c}, p)]
  /\ UNCHANGED <<orders, reserved, job, gateway, admitted>>

(* refund_checkout: one transaction, entered through the UPDATE.           *)
Refund(c) ==
  /\ row[c].status = "paid"
  /\ row' = [row EXCEPT ![c].status = "refunded"]
  /\ onHand' = [p \in Products |-> onHand[p] + Demand({c}, p)]
  /\ UNCHANGED <<orders, reserved, job, gateway, admitted>>

---------------------------------------------------------------------------
Step(w) == CreateCommit(w) \/ CreateFail(w) \/ PageCommit(w) \/ ExitCommit(w)

Next ==
  \/ \E w \in Workers : Step(w)
  \/ \E w \in Workers, c \in Checkouts :
       CreateRead(w, c) \/ PageRead(w, c) \/ ExitRead(w, c)
  \/ \E c \in Checkouts :
       \/ Cancel(c) \/ Lapse(c) \/ SelectCash(c) \/ ConfirmCash(c)
       \/ PassLapse(c) \/ RotateExitPass(c) \/ Refund(c)
  \/ \E f \in forms : Capture(f)
  \/ \E f \in captured : Notify(f)

Spec == Init /\ [][Next]_vars

(* A request that has begun runs to its end, and the gateway repeats a     *)
(* notification until it is acknowledged.                                  *)
Fairness ==
  /\ \A w \in Workers : WF_vars(Step(w))
  /\ WF_vars(\E f \in captured : Notify(f))

FairSpec == Spec /\ Fairness

---------------------------------------------------------------------------
(* Properties.                                                             *)

(* inventory_levels.reserved is always the copies of the checkouts whose   *)
(* reservation is active: whatever races a cancel, an expiry sweep and a   *)
(* payment run, a hold is released exactly once (reservation_active).      *)
ReservedMatchesHolds == \A p \in Products : reserved[p] = Demand(Holding, p)

(* on_hand is what was on the shelf less the copies of the checkouts that  *)
(* are paid and not refunded: no replayed notification, second till or     *)
(* repeated refund takes or restores stock twice.                          *)
StockLedger ==
  \A p \in Products : onHand[p] = Stock[p] - Demand(With("paid"), p)

LatePaid == {c \in With("paid") : row[c].late}

(* Copies are oversold only by payments that arrived after their hold was  *)
(* released, and by no more than those payments' copies: the conditional   *)
(* UPDATE of _reserve never lets two buyers take the last copy.            *)
OversoldOnlyByLatePayment ==
  \A p \in Products : onHand[p] - reserved[p] + Demand(LatePaid, p) >= 0

(* A settled checkout has exactly one order, any other none.               *)
OneOrderPerSettledCheckout ==
  \A c \in Checkouts :
    orders[c] = IF row[c].status \in {"paid", "refunded"} THEN 1 ELSE 0

(* The amount of the order of a checkout settled online is an amount that  *)
(* the gateway captured under the trade number the settlement recorded.    *)
OnlineOrderIsCaptured ==
  \A c \in Checkouts : row[c].gate = "ecpay" =>
    [c |-> c, no |-> row[c].ref, amount |-> row[c].total] \in captured

(* The door is told "valid" at most once for a checkout, and never for one *)
(* settled at the counter, however many guards scan the pass at once.      *)
DoorAdmitsOnce ==
  \A c \in Checkouts :
    admitted[c] <= IF row[c].gate = "cash" THEN 0 ELSE 1

(* What settled a checkout is never replaced by another payment.           *)
SettlementIsFinal ==
  [][\A c \in Checkouts : row[c].gate # "none" =>
       row'[c].gate = row[c].gate /\ row'[c].ref = row[c].ref]_vars

(* The promise of StockHold, in terms of the columns.                      *)
Free == [p \in Products |-> onHand[p] - reserved[p]]

Late == {c \in Checkouts : row[c].late}

FateOf(s) ==
  CASE s = "pending"                  -> "held"
    [] s \in {"expired", "cancelled"} -> "released"
    [] s = "paid"                     -> "sold"
    [] s = "refunded"                 -> "returned"
    [] OTHER                          -> "none"

Fate == [c \in Checkouts |-> FateOf(row[c].status)]

Hold == INSTANCE StockHold WITH free <- Free, fate <- Fate, late <- Late

(* The handlers together keep the promise of StockHold.                    *)
KeepsStockPromise == Hold!Spec

(* A captured payment whose amount is the checkout's total settles it.     *)
CapturedPaymentSettles ==
  \A f \in Form :
    (f \in captured /\ f.amount = row[f.c].total)
      ~> row[f.c].status \in {"paid", "refunded"}

=============================================================================
