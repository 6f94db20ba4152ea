------------------------------ MODULE PosSync ------------------------------
(***************************************************************************)
(* A till that works offline: apps/pos_app/lib.  A sale or a refund is     *)
(* written to the till's database together with an entry of its sync       *)
(* queue; ticks of the sync worker send the entries to the server, which   *)
(* handles each request in a database session of its own.  The checkout    *)
(* screen also tries to upload the sale and to issue its e-invoice online  *)
(* before it gives up and queues the invoice.                              *)
(*                                                                         *)
(* flush(), which every checkout and a button call, starts a tick whether  *)
(* or not one is running, so the _running flag excludes nothing.           *)
(* Each sale has at most one refund here, of all its lines, and entries of *)
(* different sales are sent in any order.                                  *)
(***************************************************************************)
EXTENDS Naturals, Sequences

CONSTANTS
  Sales,
  Cashiers,
  Admins,     \* the cashiers who are store managers
  Disputed,   \* the sales that a rule of the server may turn down
  Ticks,      \* runs of the sync worker that may overlap
  Counter,    \* the checkout screen
  Requests,   \* requests the server handles at the same time
  MaxFaults   \* bound: lost requests, lost answers and restarts of the till

ASSUME AdminsType == Admins \subseteq Cashiers
ASSUME DisputedType == Disputed \subseteq Sales
ASSUME CounterIsNotATick == Counter \notin Ticks
ASSUME MaxFaultsType == MaxFaults \in Nat

VARIABLES
  session,   \* who is logged in at the till
  sale,      \* sale[s]: the till's own rows of sale s
  queue,     \* queue[e]: what became of the sync_queue row of entry e
  todo,      \* todo[k]: the calls that k, a tick or the checkout, will still make
  req,       \* req[q]: a request under way, if any
  order,     \* order[s]: status of the server's order
  taken,     \* taken[s]: copies that left the server's inventory for s
  refused,   \* history: sales whose upload the server answered with a refusal
  invoices,  \* invoices[s]: statuses of the server's invoice rows for s
  gateway,   \* sales the e-invoice platform issued an invoice for
  faults

vars == <<session, sale, queue, todo, req, order, taken, refused, invoices, gateway, faults>>
till == <<sale, queue, todo>>
books == <<order, taken, refused>>
billing == <<invoices, gateway>>

---------------------------------------------------------------------------
(* Types.                                                                  *)

Entry == [op : {"upload", "invoice", "refund"}, s : Sales]

Upload(s) == [op |-> "upload", s |-> s]
Invoice(s) == [op |-> "invoice", s |-> s]
Refund(s) == [op |-> "refund", s |-> s]

(* Entries of a sale are sent in the order in which they are created.      *)
Rank(e) == CASE e.op = "upload" -> 0 [] e.op = "invoice" -> 1 [] OTHER -> 2

Sale == [phase : {"none", "paid", "refunded"}, seller : Cashiers, synced : BOOLEAN,
         invoice : {"none", "pending", "issued"}]

Queued == {"due", "waiting"}

Callers == Ticks \cup {Counter}
Nobody == "nobody"
ASSUME NobodyCalls == Nobody \notin Callers

Free == [stage |-> "free"]

Request == {Free} \cup
  [stage : {"sent", "busy", "issued", "failed"}, e : Entry, by : Cashiers,
   caller : Callers \cup {Nobody}, saw : 0..1]

TypeOK ==
  /\ session \in Cashiers
  /\ sale \in [Sales -> Sale]
  /\ queue \in [Entry -> Queued \cup {"none", "done", "dropped"}]
  /\ todo \in [Callers -> SUBSET Entry]
  /\ req \in [Requests -> Request]
  /\ order \in [Sales -> {"none", "paid", "refunded"}]
  /\ taken \in [Sales -> Nat]
  /\ refused \subseteq Sales
  /\ invoices \in [Sales -> Seq({"issued", "failed"})]
  /\ gateway \subseteq Sales
  /\ faults \in 0..MaxFaults

Init ==
  /\ session \in Cashiers
  /\ sale = [s \in Sales |-> [phase |-> "none", seller |-> session,
                              synced |-> FALSE, invoice |-> "none"]]
  /\ queue = [e \in Entry |-> "none"]
  /\ todo = [k \in Callers |-> {}]
  /\ req = [q \in Requests |-> Free]
  /\ order = [s \in Sales |-> "none"]
  /\ taken = [s \in Sales |-> 0]
  /\ refused = {}
  /\ invoices = [s \in Sales |-> <<>>]
  /\ gateway = {}
  /\ faults = 0

---------------------------------------------------------------------------
(* The till.                                                               *)

Login(u) ==
  /\ session' = u
  /\ UNCHANGED <<till, req, books, billing, faults>>

(* CheckoutController.finalize: one transaction for the sale and its       *)
(* uploadOrder entry; then, if it is taxed, the two online calls.          *)
Finalize(s, taxed) ==
  /\ todo[Counter] = {}
  /\ sale[s].phase = "none"
  /\ sale' = [sale EXCEPT ![s] =
       [phase |-> "paid", seller |-> session, synced |-> FALSE,
        invoice |-> IF taxed THEN "pending" ELSE "none"]]
  /\ queue' = [queue EXCEPT ![Upload(s)] = "due"]
  /\ todo' = [todo EXCEPT ![Counter] = IF taxed THEN {Upload(s), Invoice(s)} ELSE {}]
  /\ UNCHANGED <<session, req, books, billing, faults>>

(* RefundPage._doRefund, for all the lines of the sale.                    *)
RefundAtTill(s) ==
  /\ sale[s].phase = "paid"
  /\ Upload(s) \notin todo[Counter] /\ Invoice(s) \notin todo[Counter]
  /\ sale' = [sale EXCEPT ![s].phase = "refunded"]
  /\ queue' = [queue EXCEPT ![Refund(s)] = "due"]
  /\ UNCHANGED <<session, todo, req, books, billing, faults>>

(* SyncWorker._tick reads the due entries once.                            *)
StartTick(t) ==
  /\ todo[t] = {}
  /\ \E e \in Entry : queue[e] = "due"
  /\ todo' = [todo EXCEPT ![t] = {e \in Entry : queue[e] = "due"}]
  /\ UNCHANGED <<session, sale, queue, req, books, billing, faults>>

BackoffEnds(e) ==
  /\ queue[e] = "waiting"
  /\ queue' = [queue EXCEPT ![e] = "due"]
  /\ UNCHANGED <<session, sale, todo, req, books, billing, faults>>

(* A caller waits for each answer; the request carries the token of the    *)
(* session of the moment.                                                  *)
Send(k) ==
  \E q \in Requests, e \in todo[k] :
    /\ req[q] = Free
    /\ \A r \in Requests : req[r] # Free => req[r].caller # k
    /\ \A d \in todo[k] : d.s = e.s => Rank(e) <= Rank(d)
    /\ req' = [req EXCEPT ![q] = [stage |-> "sent", e |-> e, by |-> session,
                                  caller |-> k, saw |-> 0]]
    /\ UNCHANGED <<session, till, books, billing, faults>>

(* Mutant: a call that fails is not tried again.                           *)
SettleOnFirstTry(code) == IF code \in {"ok", "failed"} THEN "done" ELSE "dropped"

(* Answers: "ok"; "failed", a 201 whose invoice was not issued; "refused", *)
(* a 4xx other than 401, 408 and 429 (the 409 of an upload too: a coupon   *)
(* that is spent); "error", anything else.  _tick removes the row, or puts *)
(* off the next try.                                                       *)
Settle(code) ==
  CASE code = "error"   -> "waiting"
    [] code = "refused" -> "dropped"
    [] OTHER            -> "done"

(* Mutant: the sale is marked as synced whatever the server says.          *)
TickHearsNothing(t, e, code) ==
  /\ todo' = [todo EXCEPT ![t] = @ \ {e}]
  /\ queue' = [queue EXCEPT ![e] = IF @ \in Queued THEN Settle(code) ELSE @]
  /\ sale' = [sale EXCEPT ![e.s].synced = @ \/ e.op = "upload"]

(* A row that another tick removed stays removed.  An invoice issued       *)
(* through the queue is written to the row with the server's id for it,    *)
(* which no row of the till has.                                           *)
TickHears(t, e, code) ==
  /\ todo' = [todo EXCEPT ![t] = @ \ {e}]
  /\ queue' = [queue EXCEPT ![e] = IF @ \in Queued THEN Settle(code) ELSE @]
  /\ sale' = [sale EXCEPT ![e.s].synced = @ \/ (e.op = "upload" /\ code = "ok")]

(* Mutant: any 201 counts as an issued invoice.                            *)
CounterHearsAny201(e, code) ==
  \/ /\ code \in {"ok", "failed"}
     /\ todo' = [todo EXCEPT ![Counter] = @ \ {e}]
     /\ sale' = [sale EXCEPT ![e.s].invoice = IF e.op = "invoice" THEN "issued" ELSE @]
     /\ UNCHANGED queue
  \/ /\ code \notin {"ok", "failed"}
     /\ todo' = [todo EXCEPT ![Counter] = {}]
     /\ queue' = [queue EXCEPT ![Invoice(e.s)] = "due"]
     /\ UNCHANGED sale

(* _tryIssueInvoiceOnline: short of an issued invoice, queue it.           *)
CounterHears(e, code) ==
  \/ /\ code = "ok"
     /\ todo' = [todo EXCEPT ![Counter] = @ \ {e}]
     /\ sale' = [sale EXCEPT ![e.s].invoice = IF e.op = "invoice" THEN "issued" ELSE @]
     /\ UNCHANGED queue
  \/ /\ code # "ok"
     /\ todo' = [todo EXCEPT ![Counter] = {}]
     /\ queue' = [queue EXCEPT ![Invoice(e.s)] = "due"]
     /\ UNCHANGED sale

Hears(k, e, code) ==
  \/ k \in Ticks /\ TickHears(k, e, code)
  \/ k = Counter /\ CounterHears(e, code)
  \/ k = Nobody /\ UNCHANGED till

(* The caller gives up: the request never arrived, or the server failed,   *)
(* or it is still at work and nobody will hear its answer.                 *)
CallFails(q) ==
  /\ req[q] # Free
  /\ req[q].caller # Nobody
  /\ faults < MaxFaults
  /\ faults' = faults + 1
  /\ Hears(req[q].caller, req[q].e, "error")
  /\ \/ req' = [req EXCEPT ![q] = Free]
     \/ req' = [req EXCEPT ![q].caller = Nobody]
  /\ UNCHANGED <<session, books, billing>>

(* The app is killed: the database keeps its rows, nothing else is kept.   *)
Crash ==
  /\ faults < MaxFaults
  /\ faults' = faults + 1
  /\ todo' = [k \in Callers |-> {}]
  /\ req' = [q \in Requests |->
               IF req[q] = Free THEN Free ELSE [req[q] EXCEPT !.caller = Nobody]]
  /\ UNCHANGED <<session, sale, queue, books, billing>>

---------------------------------------------------------------------------
(* The server.                                                             *)

Answer(q, code) ==
  /\ req' = [req EXCEPT ![q] = Free]
  /\ Hears(req[q].caller, req[q].e, code)

At(q, op, stage) ==
  req[q].stage = stage /\ req[q].e.op = op

(* upload_order: only a store manager may upload another cashier's sale.   *)
MayUpload(by, s) == by = sale[s].seller \/ by \in Admins

TurnsDown(q) ==
  /\ refused' = refused \cup {req[q].e.s}
  /\ Answer(q, "refused")

(* An order with this id is returned as it is.  A sale in Disputed may be  *)
(* turned down at any try, by a rule about what this module leaves out:    *)
(* the role of the session (403), the month's quota (402), its store or    *)
(* terminal (403), the member, the products, the options and their price,  *)
(* the coupon and the points redeemed (400, 409).                          *)
UploadRead(q) ==
  LET s == req[q].e.s
      mayUpload == MayUpload(req[q].by, s)
  IN
  /\ At(q, "upload", "sent")
  /\ \/ (s \in Disputed \/ (order[s] = "none" /\ ~mayUpload)) /\ TurnsDown(q)
     \/ order[s] # "none" /\ Answer(q, "ok") /\ UNCHANGED refused
     \/ /\ order[s] = "none" /\ mayUpload
        /\ req' = [req EXCEPT ![q].stage = "busy"]
        /\ UNCHANGED <<till, refused>>
  /\ UNCHANGED <<session, order, taken, billing, faults>>

(* Mutant: the server gives the order a key of its own.                    *)
UploadCommitUnkeyed(q) ==
  LET s == req[q].e.s IN
  /\ At(q, "upload", "busy")
  /\ order' = [order EXCEPT ![s] = "paid"]
  /\ taken' = [taken EXCEPT ![s] = @ + 1]
  /\ Answer(q, "ok")
  /\ UNCHANGED <<session, refused, billing, faults>>

(* The transaction fails on the primary key if another request was first;  *)
(* after that the coupon (400, 409) or the points (400) may turn it down.  *)
UploadCommit(q) ==
  LET s == req[q].e.s IN
  /\ At(q, "upload", "busy")
  /\ \/ /\ order[s] = "none"
        /\ order' = [order EXCEPT ![s] = "paid"]
        /\ taken' = [taken EXCEPT ![s] = @ + 1]
        /\ Answer(q, "ok") /\ UNCHANGED refused
     \/ order[s] = "none" /\ s \in Disputed /\ TurnsDown(q) /\ UNCHANGED <<order, taken>>
     \/ order[s] # "none" /\ Answer(q, "error") /\ UNCHANGED books
  /\ UNCHANGED <<session, billing, faults>>

(* Mutant: a refund that is there already is an error.                     *)
RefundReadConflict(q) ==
  LET s == req[q].e.s IN
  /\ At(q, "refund", "sent")
  /\ \/ order[s] = "none" /\ Answer(q, "refused")
     \/ order[s] = "refunded" /\ Answer(q, "error")
     \/ /\ order[s] = "paid"
        /\ req' = [req EXCEPT ![q].stage = "busy"]
        /\ UNCHANGED till
  /\ UNCHANGED <<session, books, billing, faults>>

(* refund_order: 404 without an order; 409, which the till takes for done, *)
(* if the order is refunded.                                               *)
RefundRead(q) ==
  LET s == req[q].e.s IN
  /\ At(q, "refund", "sent")
  /\ \/ order[s] = "none" /\ Answer(q, "refused")
     \/ order[s] = "refunded" /\ Answer(q, "ok")
     \/ /\ order[s] = "paid"
        /\ req' = [req EXCEPT ![q].stage = "busy"]
        /\ UNCHANGED till
  /\ UNCHANGED <<session, books, billing, faults>>

(* Mutant: the server gives the refund a key of its own.                   *)
RefundCommitUnkeyed(q) ==
  LET s == req[q].e.s IN
  /\ At(q, "refund", "busy")
  /\ order' = [order EXCEPT ![s] = "refunded"]
  /\ taken' = [taken EXCEPT ![s] = @ - 1]
  /\ Answer(q, "ok")
  /\ UNCHANGED <<session, refused, billing, faults>>

(* Likewise.                                                               *)
RefundCommit(q) ==
  LET s == req[q].e.s IN
  /\ At(q, "refund", "busy")
  /\ \/ /\ order[s] = "paid"
        /\ order' = [order EXCEPT ![s] = "refunded"]
        /\ taken' = [taken EXCEPT ![s] = @ - 1]
        /\ Answer(q, "ok") /\ UNCHANGED refused
     \/ order[s] = "refunded" /\ Answer(q, "error") /\ UNCHANGED books
  /\ UNCHANGED <<session, billing, faults>>

(* issue_invoice: two invoice rows for an order are an internal error.     *)
InvoiceRead(q) ==
  LET s == req[q].e.s IN
  /\ At(q, "invoice", "sent")
  /\ \/ order[s] = "none" /\ Answer(q, "refused")
     \/ order[s] # "none" /\ Len(invoices[s]) > 1 /\ Answer(q, "error")
     \/ order[s] # "none" /\ invoices[s] = <<"issued">> /\ Answer(q, "ok")
     \/ /\ order[s] # "none"
        /\ invoices[s] \in {<<>>, <<"failed">>}
        /\ req' = [req EXCEPT ![q].stage = "busy", ![q].saw = Len(invoices[s])]
        /\ UNCHANGED till
  /\ UNCHANGED <<session, books, billing, faults>>

(* The platform takes an order number once; it may refuse an invoice for   *)
(* reasons of its own.                                                     *)
GatewayIssue(q) ==
  LET s == req[q].e.s IN
  /\ At(q, "invoice", "busy")
  /\ \/ /\ s \notin gateway
        /\ gateway' = gateway \cup {s}
        /\ req' = [req EXCEPT ![q].stage = "issued"]
     \/ /\ req' = [req EXCEPT ![q].stage = "failed"]
        /\ UNCHANGED gateway
  /\ UNCHANGED <<session, till, books, invoices, faults>>

(* The row that was read is updated, or a row is inserted.                 *)
InvoiceCommit(q) ==
  LET s == req[q].e.s
      status == req[q].stage
  IN  /\ status \in {"issued", "failed"}
      /\ invoices' = [invoices EXCEPT ![s] =
           IF req[q].saw = 0 THEN Append(@, status) ELSE [@ EXCEPT ![1] = status]]
      /\ Answer(q, IF status = "issued" THEN "ok" ELSE "failed")
      /\ UNCHANGED <<session, books, gateway, faults>>

Serve(q) ==
  \/ UploadRead(q) \/ UploadCommit(q) \/ RefundRead(q) \/ RefundCommit(q)
  \/ InvoiceRead(q) \/ GatewayIssue(q) \/ InvoiceCommit(q)

---------------------------------------------------------------------------
Next ==
  \/ \E u \in Cashiers : Login(u)
  \/ \E s \in Sales : (\E taxed \in BOOLEAN : Finalize(s, taxed)) \/ RefundAtTill(s)
  \/ \E t \in Ticks : StartTick(t)
  \/ \E e \in Entry : BackoffEnds(e)
  \/ \E k \in Callers : Send(k)
  \/ \E q \in Requests : CallFails(q) \/ Serve(q)
  \/ Crash

Spec == Init /\ [][Next]_vars

(* The worker's timer fires, a backoff ends, a caller goes on to its next  *)
(* call and the server answers what reaches it.                            *)
Fairness ==
  /\ \A t \in Ticks : WF_vars(StartTick(t))
  /\ \A e \in Entry : WF_vars(BackoffEnds(e))
  /\ \A k \in Callers : WF_vars(Send(k))
  /\ \A q \in Requests : WF_vars(Serve(q))

FairSpec == Spec /\ Fairness

---------------------------------------------------------------------------
(* The promise of SaleOnce, in terms of the rows.                          *)

Rung == [s \in Sales |-> sale[s].phase]
Owed == {s \in Sales : queue[Upload(s)] \in Queued}
Known == {s \in Sales : sale[s].synced}

Once == INSTANCE SaleOnce
  WITH rung <- Rung, booked <- order, gone <- taken, denied <- refused,
       owed <- Owed, known <- Known

---------------------------------------------------------------------------
(* Properties.                                                             *)

(* The till and the server together keep the promise of SaleOnce: a sale   *)
(* that was rung up is booked once, taken back once and after the till     *)
(* took it back, and its entry leaves the queue only when the server has   *)
(* it or has turned it down.                                               *)
KeepsSalePromise == Once!Spec

(* The server's inventory gives up the goods of a sale exactly while its   *)
(* order stands: no repeated upload, late request or repeated refund moves *)
(* them twice.                                                             *)
StockMovedOnce ==
  \A s \in Sales : taken[s] = IF order[s] = "paid" THEN 1 ELSE 0

(* "Never lose a sale" (docs/sync_protocol.md): a sale rung up at the till *)
(* is at the server or still in the queue.                                 *)
NoSaleLost ==
  \A s \in Sales : sale[s].phase # "none" /\ order[s] = "none" =>
    queue[Upload(s)] \in Queued

(* What the code keeps of that: a sale that is neither at the server nor   *)
(* in the queue was turned down by the server.  No lost request or answer, *)
(* restart of the till, repeated tick or failed transaction loses one.     *)
LostOnlyIfRefused ==
  \A s \in Sales : sale[s].phase # "none" /\ order[s] = "none" =>
    queue[Upload(s)] \in Queued \/ s \in refused

(* The till marks a sale as synced only if the server has it.              *)
SyncedIsStored ==
  \A s \in Sales : sale[s].synced => order[s] # "none"

(* An invoice the till holds for issued is the server's only row for the   *)
(* order, and issued.                                                      *)
LocalInvoiceIsReal ==
  \A s \in Sales : sale[s].invoice = "issued" =>
    s \in gateway /\ invoices[s] = <<"issued">>

(* A sale rung up at the till reaches the server, which books it or turns  *)
(* it down.                                                                *)
SaleReachesServer ==
  \A s \in Sales : sale[s].phase # "none" ~> (order[s] # "none" \/ s \in refused)

(* An upload or a refund that is queued is answered for good, whatever the *)
(* answer.  Not so an invoice: once lost answers have left an order with   *)
(* two invoice rows, every call for it is an error.                        *)
EntryIsSettled ==
  \A e \in {x \in Entry : x.op # "invoice"} :
    queue[e] \in Queued ~> queue[e] \notin Queued

=============================================================================
