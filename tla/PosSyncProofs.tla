--------------------------- MODULE PosSyncProofs ---------------------------
(***************************************************************************)
(* What PosSync guarantees for any number of sales, cashiers, runs of the  *)
(* sync worker and requests, whatever is lost and however often the till   *)
(* stops.                                                                  *)
(***************************************************************************)
EXTENDS PosSync, SequenceTheorems, TLAPS

---------------------------------------------------------------------------
(* The inductive invariant.                                                *)

(* A request that knows how an invoice fared is for one, and issued means  *)
(* that the platform has it.                                               *)
IssuedAtGateway ==
  \A q \in Requests :
    /\ req[q].stage \in {"issued", "failed"} => req[q].e.op = "invoice"
    /\ req[q].stage = "issued" => req[q].e.s \in gateway

(* The checkout waits for one call at a time, which it has still to make   *)
(* good; it asks for the invoice when the upload has been answered.        *)
CounterCalls ==
  \A q \in Requests : req[q] # Free /\ req[q].caller = Counter =>
    /\ req[q].e \in todo[Counter]
    /\ req[q].saw = 0
    /\ req[q].e.op = "invoice" => Upload(req[q].e.s) \notin todo[Counter]
    /\ \A r \in Requests : req[r] # Free /\ req[r].caller = Counter => r = q

(* Its calls are for one sale, which was paid and whose invoice is open.   *)
CounterSells ==
  \A d \in todo[Counter] :
    /\ d.op # "refund"
    /\ sale[d.s].phase # "none" /\ sale[d.s].invoice = "pending"
    /\ \A e \in todo[Counter] : e.s = d.s

(* Nobody but the checkout has asked for an invoice of sale s yet.         *)
Untold(s) == sale[s].phase = "none" \/ Invoice(s) \in todo[Counter]

(* The queue asks for an invoice only when the checkout has given up, and  *)
(* never for one that the till holds for issued.                           *)
CounterAlone ==
  \A s \in Sales : Untold(s) \/ sale[s].invoice = "issued" =>
    /\ queue[Invoice(s)] = "none"
    /\ \A t \in Ticks : Invoice(s) \notin todo[t]
    /\ \A q \in Requests : req[q] # Free /\ req[q].e = Invoice(s) => req[q].caller = Counter

(* Until then the server has no row for it.                                *)
FirstInvoice == \A s \in Sales : Untold(s) => invoices[s] = <<>>

InvoiceInv ==
  /\ IssuedAtGateway /\ CounterCalls /\ CounterSells /\ CounterAlone /\ FirstInvoice
  /\ LocalInvoiceIsReal

SyncInv == TypeOK /\ StockMovedOnce /\ SyncedIsStored /\ InvoiceInv

---------------------------------------------------------------------------
(* Entries and requests.                                                   *)

Codes == {"ok", "failed", "refused", "error"}

LEMMA EntryForms ==
  /\ \A s \in Sales : Upload(s) \in Entry /\ Invoice(s) \in Entry /\ Refund(s) \in Entry
  /\ \A e \in Entry : /\ e.s \in Sales
                      /\ e.op = "upload" => e = Upload(e.s)
                      /\ e.op = "invoice" => e = Invoice(e.s)
  /\ \A s : Upload(s).s = s /\ Invoice(s).s = s /\ Refund(s).s = s
  /\ \A s : Upload(s).op = "upload" /\ Invoice(s).op = "invoice" /\ Refund(s).op = "refund"
BY DEF Entry, Upload, Invoice, Refund

LEMMA CallerForms == Counter \in Callers /\ Counter # Nobody /\ Counter \notin Ticks
BY CounterIsNotATick, NobodyCalls DEF Callers

(* A request under way is of an entry, by a cashier.                       *)
LEMMA RequestType ==
  ASSUME TypeOK, NEW q \in Requests, req[q] # Free
  PROVE  /\ req[q].stage \in {"sent", "busy", "issued", "failed"}
         /\ req[q].e \in Entry /\ req[q].e.s \in Sales /\ req[q].by \in Cashiers
         /\ req[q].caller \in Callers \cup {Nobody} /\ req[q].saw \in 0..1
BY EntryForms DEF TypeOK, Request

(* It has a later stage, or a caller who has given up, and is else as it   *)
(* was.                                                                    *)
LEMMA RequestGoesOn ==
  ASSUME TypeOK, NEW q \in Requests, req[q] # Free
  PROVE  /\ [req[q] EXCEPT !.stage = "busy"] \in Request
         /\ [req[q] EXCEPT !.stage = "issued"] \in Request
         /\ [req[q] EXCEPT !.stage = "failed"] \in Request
         /\ \A saw \in 0..1 : [req[q] EXCEPT !.stage = "busy", !.saw = saw] \in Request
         /\ [req[q] EXCEPT !.caller = Nobody] \in Request
BY DEF TypeOK, Request

LEMMA AtForms ==
  ASSUME TypeOK, NEW q \in Requests
  PROVE  \A op, stage : At(q, op, stage) /\ stage # "free" =>
           /\ req[q] # Free /\ req[q].e.op = op /\ req[q].stage = stage
           /\ req[q].e.s \in Sales
BY RequestType DEF At, Free

LEMMA HearsType ==
  ASSUME TypeOK, NEW q \in Requests, req[q] # Free, NEW code \in Codes,
         Hears(req[q].caller, req[q].e, code)
  PROVE  /\ sale' \in [Sales -> Sale]
         /\ queue' \in [Entry -> Queued \cup {"none", "done", "dropped"}]
         /\ todo' \in [Callers -> SUBSET Entry]
<1> PICK e \in Entry : e = req[q].e
  BY RequestType
<1>1. e.s \in Sales /\ Invoice(e.s) \in Entry
  BY EntryForms
<1>2. sale[e.s] \in Sale
  BY <1>1 DEF TypeOK
<1>3. ASSUME NEW t \in Ticks, TickHears(t, e, code)
      PROVE  /\ sale' \in [Sales -> Sale]
             /\ queue' \in [Entry -> Queued \cup {"none", "done", "dropped"}]
             /\ todo' \in [Callers -> SUBSET Entry]
  <2>1. \A b \in BOOLEAN : [sale[e.s] EXCEPT !.synced = b] \in Sale
    BY <1>2 DEF Sale
  <2>2. sale[e.s].synced \in BOOLEAN
    BY <1>2 DEF Sale
  <2>3. (sale[e.s].synced \/ (e.op = "upload" /\ code = "ok")) \in BOOLEAN
    BY <2>2
  <2>4. sale' \in [Sales -> Sale]
    BY <1>1, <1>3, <2>1, <2>3 DEF TickHears, TypeOK
  <2>5. queue' \in [Entry -> Queued \cup {"none", "done", "dropped"}]
    BY <1>3 DEF TickHears, Settle, Queued, TypeOK
  <2>6. todo' \in [Callers -> SUBSET Entry]
    BY <1>3 DEF TickHears, TypeOK
  <2> QED
    BY <2>4, <2>5, <2>6
<1>4. ASSUME CounterHears(e, code)
      PROVE  /\ sale' \in [Sales -> Sale]
             /\ queue' \in [Entry -> Queued \cup {"none", "done", "dropped"}]
             /\ todo' \in [Callers -> SUBSET Entry]
  <2>1. \A i \in {"none", "pending", "issued"} : [sale[e.s] EXCEPT !.invoice = i] \in Sale
    BY <1>2 DEF Sale
  <2>2. sale[e.s].invoice \in {"none", "pending", "issued"}
    BY <1>2 DEF Sale
  <2>3. sale' \in [Sales -> Sale]
    BY <1>1, <1>4, <2>1, <2>2 DEF CounterHears, TypeOK
  <2>4. queue' \in [Entry -> Queued \cup {"none", "done", "dropped"}]
    BY <1>1, <1>4 DEF CounterHears, Queued, TypeOK
  <2>5. todo' \in [Callers -> SUBSET Entry]
    <3>1. todo[Counter] \ {e} \in SUBSET Entry /\ {} \in SUBSET Entry
      BY CallerForms DEF TypeOK
    <3>2. \/ todo' = [todo EXCEPT ![Counter] = todo[Counter] \ {e}]
          \/ todo' = [todo EXCEPT ![Counter] = {}]
      BY <1>4 DEF CounterHears
    <3> QED
      BY <3>1, <3>2 DEF TypeOK
  <2> QED
    BY <2>3, <2>4, <2>5
<1> QED
  BY <1>3, <1>4 DEF Hears, till, TypeOK

LEMMA AnswerType ==
  ASSUME TypeOK, NEW q \in Requests, req[q] # Free, NEW code \in Codes, Answer(q, code)
  PROVE  /\ sale' \in [Sales -> Sale]
         /\ queue' \in [Entry -> Queued \cup {"none", "done", "dropped"}]
         /\ todo' \in [Callers -> SUBSET Entry]
         /\ req' \in [Requests -> Request]
BY HearsType DEF Answer, TypeOK, Request

---------------------------------------------------------------------------
(* What the till does.                                                     *)

TillActions ==
  \/ \E u \in Cashiers : Login(u)
  \/ \E s \in Sales : (\E taxed \in BOOLEAN : Finalize(s, taxed)) \/ RefundAtTill(s)
  \/ \E t \in Ticks : StartTick(t)
  \/ \E e \in Entry : BackoffEnds(e)
  \/ \E k \in Callers : Send(k)
  \/ \E q \in Requests : CallFails(q)
  \/ Crash

LEMMA TillType == TypeOK /\ TillActions => TypeOK'
<1> SUFFICES ASSUME TypeOK, TillActions
             PROVE  TypeOK'
  OBVIOUS
<1>1. ASSUME NEW u \in Cashiers, Login(u)
      PROVE  TypeOK'
  BY <1>1 DEF Login, till, books, billing, TypeOK
<1>2. ASSUME NEW s \in Sales, NEW taxed \in BOOLEAN, Finalize(s, taxed)
      PROVE  TypeOK'
  <2>1. [phase |-> "paid", seller |-> session, synced |-> FALSE,
         invoice |-> IF taxed THEN "pending" ELSE "none"] \in Sale
    BY DEF TypeOK, Sale
  <2>2. Upload(s) \in Entry /\ Invoice(s) \in Entry
    BY EntryForms
  <2> QED
    BY <1>2, <2>1, <2>2, CallerForms DEF Finalize, books, billing, TypeOK, Queued
<1>3. ASSUME NEW s \in Sales, RefundAtTill(s)
      PROVE  TypeOK'
  <2>0. sale[s] \in Sale
    BY DEF TypeOK
  <2>1. [sale[s] EXCEPT !.phase = "refunded"] \in Sale
    BY <2>0 DEF Sale
  <2>2. Refund(s) \in Entry
    BY EntryForms
  <2> QED
    BY <1>3, <2>1, <2>2 DEF RefundAtTill, books, billing, TypeOK, Queued
<1>4. ASSUME NEW t \in Ticks, StartTick(t)
      PROVE  TypeOK'
  BY <1>4 DEF StartTick, books, billing, TypeOK, Callers
<1>5. ASSUME NEW e \in Entry, BackoffEnds(e)
      PROVE  TypeOK'
  BY <1>5 DEF BackoffEnds, books, billing, TypeOK, Queued
<1>6. ASSUME NEW k \in Callers, Send(k)
      PROVE  TypeOK'
  <2>1. PICK q \in Requests, e \in todo[k] :
          req' = [req EXCEPT ![q] = [stage |-> "sent", e |-> e, by |-> session,
                                     caller |-> k, saw |-> 0]]
    BY <1>6 DEF Send
  <2>2. [stage |-> "sent", e |-> e, by |-> session, caller |-> k, saw |-> 0] \in Request
    BY DEF TypeOK, Request
  <2> QED
    BY <1>6, <2>1, <2>2 DEF Send, till, books, billing, TypeOK
<1>7. ASSUME NEW q \in Requests, CallFails(q)
      PROVE  TypeOK'
  <2>1. req[q] # Free /\ Hears(req[q].caller, req[q].e, "error")
    BY <1>7 DEF CallFails
  <2>2. req' \in [Requests -> Request]
    <3>1. [req[q] EXCEPT !.caller = Nobody] \in Request /\ Free \in Request
      BY <2>1, RequestGoesOn DEF Request
    <3>2. \/ req' = [req EXCEPT ![q] = Free]
          \/ req' = [req EXCEPT ![q] = [req[q] EXCEPT !.caller = Nobody]]
      BY <1>7 DEF CallFails
    <3> QED
      BY <3>1, <3>2 DEF TypeOK
  <2>3. faults' \in 0..MaxFaults
    BY <1>7, MaxFaultsType DEF CallFails, TypeOK
  <2> QED
    BY <1>7, <2>1, <2>2, <2>3, HearsType DEF CallFails, books, billing, TypeOK, Codes
<1>8. ASSUME Crash
      PROVE  TypeOK'
  <2>1. \A q \in Requests : req[q] # Free => [req[q] EXCEPT !.caller = Nobody] \in Request
    BY RequestGoesOn
  <2>2. req' \in [Requests -> Request]
    BY <1>8, <2>1 DEF Crash, TypeOK, Request
  <2>3. faults' \in 0..MaxFaults
    BY <1>8, MaxFaultsType DEF Crash, TypeOK
  <2> QED
    BY <1>8, <2>2, <2>3 DEF Crash, books, billing, TypeOK
<1> QED
  BY <1>1, <1>2, <1>3, <1>4, <1>5, <1>6, <1>7, <1>8 DEF TillActions

---------------------------------------------------------------------------
(* What the server does.                                                   *)

LEMMA ServeType ==
  ASSUME TypeOK, StockMovedOnce, NEW q \in Requests, Serve(q)
  PROVE  TypeOK'
<1> USE DEF Codes
<1>1. ASSUME NEW code \in Codes, req[q] # Free, Answer(q, code),
             UNCHANGED <<session, faults>>,
             order' \in [Sales -> {"none", "paid", "refunded"}],
             taken' \in [Sales -> Nat],
             refused' \subseteq Sales,
             invoices' \in [Sales -> Seq({"issued", "failed"})],
             gateway' \subseteq Sales
      PROVE  TypeOK'
  BY <1>1, AnswerType DEF TypeOK
<1>2. ASSUME req[q] # Free, NEW r \in Request, req' = [req EXCEPT ![q] = r],
             UNCHANGED <<session, till, books, invoices, faults>>,
             gateway' \subseteq Sales
      PROVE  TypeOK'
  BY <1>2 DEF TypeOK, till, books
<1>3. ASSUME UploadRead(q)
      PROVE  TypeOK'
  <2>1. req[q] # Free
    BY <1>3, AtForms DEF UploadRead
  <2>2. [req[q] EXCEPT !.stage = "busy"] \in Request /\ req[q].e.s \in Sales
    BY <2>1, RequestGoesOn, RequestType
  <2>3. UNCHANGED <<session, order, taken, billing, faults>>
    BY <1>3 DEF UploadRead
  <2>4. CASE TurnsDown(q)
    BY <1>1, <2>1, <2>2, <2>3, <2>4 DEF TurnsDown, billing, TypeOK
  <2>5. CASE Answer(q, "ok") /\ UNCHANGED refused
    BY <1>1, <2>1, <2>3, <2>5 DEF billing, TypeOK
  <2>6. CASE req' = [req EXCEPT ![q].stage = "busy"] /\ UNCHANGED <<till, refused>>
    BY <1>2, <2>1, <2>2, <2>3, <2>6 DEF books, billing, TypeOK
  <2> QED
    BY <1>3, <2>4, <2>5, <2>6 DEF UploadRead
<1>4. ASSUME UploadCommit(q)
      PROVE  TypeOK'
  <2>1. req[q] # Free /\ req[q].e.s \in Sales
    BY <1>4, AtForms DEF UploadCommit
  <2> QED
    <3>1. /\ order' \in [Sales -> {"none", "paid", "refunded"}]
          /\ taken' \in [Sales -> Nat]
          /\ refused' \subseteq Sales
          /\ UNCHANGED <<session, faults, invoices, gateway>>
      <4> PICK s \in Sales : s = req[q].e.s
        BY <2>1
      <4>1. taken[s] + 1 \in Nat \/ order[s] # "none"
        BY DEF TypeOK
      <4>2. CASE /\ order[s] = "none"
                 /\ order' = [order EXCEPT ![s] = "paid"]
                 /\ taken' = [taken EXCEPT ![s] = taken[s] + 1]
                 /\ UNCHANGED refused
        BY <1>4, <4>1, <4>2 DEF UploadCommit, billing, TypeOK
      <4>3. CASE UNCHANGED books
        BY <1>4, <4>3 DEF UploadCommit, books, billing, TypeOK
      <4>4. CASE TurnsDown(q) /\ UNCHANGED <<order, taken>>
        BY <1>4, <4>4 DEF UploadCommit, TurnsDown, billing, TypeOK
      <4> QED
        BY <1>4, <4>2, <4>3, <4>4 DEF UploadCommit
    <3>2. Answer(q, "ok") \/ Answer(q, "error") \/ Answer(q, "refused")
      BY <1>4 DEF UploadCommit, TurnsDown
    <3> QED
      BY <1>1, <2>1, <3>1, <3>2 DEF TypeOK
<1>5. ASSUME RefundRead(q)
      PROVE  TypeOK'
  <2>1. req[q] # Free
    BY <1>5, AtForms DEF RefundRead
  <2>2. [req[q] EXCEPT !.stage = "busy"] \in Request
    BY <2>1, RequestGoesOn
  <2> QED
    BY <1>1, <1>2, <1>5, <2>1, <2>2 DEF RefundRead, books, billing, TypeOK
<1>6. ASSUME RefundCommit(q)
      PROVE  TypeOK'
  <2>1. req[q] # Free /\ req[q].e.s \in Sales
    BY <1>6, AtForms DEF RefundCommit
  <2>2. order[req[q].e.s] = "paid" => taken[req[q].e.s] = 1
    BY <2>1 DEF StockMovedOnce
  <2> QED
    <3>1. /\ order' \in [Sales -> {"none", "paid", "refunded"}]
          /\ taken' \in [Sales -> Nat]
          /\ UNCHANGED <<session, faults, refused, invoices, gateway>>
      <4> PICK s \in Sales : s = req[q].e.s
        BY <2>1
      <4>1. taken[s] - 1 \in Nat \/ order[s] # "paid"
        BY <2>2 DEF TypeOK
      <4>2. CASE /\ order[s] = "paid"
                 /\ order' = [order EXCEPT ![s] = "refunded"]
                 /\ taken' = [taken EXCEPT ![s] = taken[s] - 1]
                 /\ UNCHANGED refused
        BY <1>6, <4>1, <4>2 DEF RefundCommit, billing, TypeOK
      <4>3. CASE UNCHANGED books
        BY <1>6, <4>3 DEF RefundCommit, books, billing, TypeOK
      <4> QED
        BY <1>6, <4>2, <4>3 DEF RefundCommit
    <3>2. Answer(q, "ok") \/ Answer(q, "error")
      BY <1>6 DEF RefundCommit
    <3> QED
      BY <1>1, <2>1, <3>1, <3>2 DEF TypeOK
<1>7. ASSUME InvoiceRead(q)
      PROVE  TypeOK'
  <2>1. req[q] # Free /\ req[q].e.s \in Sales
    BY <1>7, AtForms DEF InvoiceRead
  <2>2. \A saw \in 0..1 : [req[q] EXCEPT !.stage = "busy", !.saw = saw] \in Request
    BY <2>1, RequestGoesOn
  <2>3. invoices[req[q].e.s] \in {<<>>, <<"failed">>} => Len(invoices[req[q].e.s]) \in 0..1
    OBVIOUS
  <2>4. CASE /\ invoices[req[q].e.s] \in {<<>>, <<"failed">>}
             /\ req' = [req EXCEPT ![q].stage = "busy",
                                   ![q].saw = Len(invoices[req[q].e.s])]
             /\ UNCHANGED till
    <3> PICK saw \in 0..1 : saw = Len(invoices[req[q].e.s])
      BY <2>3, <2>4
    <3> DEFINE r == [req[q] EXCEPT !.stage = "busy", !.saw = saw]
    <3>1. req' = [req EXCEPT ![q] = r]
      BY <2>4 DEF TypeOK
    <3> QED
      BY <1>2, <1>7, <2>1, <2>2, <2>4, <3>1 DEF InvoiceRead, billing, TypeOK
  <2>5. CASE Answer(q, "refused") \/ Answer(q, "error") \/ Answer(q, "ok")
    BY <1>1, <1>7, <2>1, <2>5 DEF InvoiceRead, books, billing, TypeOK
  <2> QED
    BY <1>7, <2>4, <2>5 DEF InvoiceRead
<1>8. ASSUME GatewayIssue(q)
      PROVE  TypeOK'
  <2>1. req[q] # Free /\ req[q].e.s \in Sales
    BY <1>8, AtForms DEF GatewayIssue
  <2>2. /\ [req[q] EXCEPT !.stage = "issued"] \in Request
        /\ [req[q] EXCEPT !.stage = "failed"] \in Request
    BY <2>1, RequestGoesOn
  <2> QED
    BY <1>2, <1>8, <2>1, <2>2 DEF GatewayIssue, TypeOK
<1>9. ASSUME InvoiceCommit(q)
      PROVE  TypeOK'
  <2>1. req[q] # Free /\ req[q].stage \in {"issued", "failed"}
    BY <1>9 DEF InvoiceCommit, Free
  <2> PICK s \in Sales : s = req[q].e.s
    BY <2>1, RequestType
  <2> PICK status \in {"issued", "failed"} : status = req[q].stage
    BY <2>1
  <2>2. invoices[s] \in Seq({"issued", "failed"})
    BY DEF TypeOK
  <2>3. Append(invoices[s], status) \in Seq({"issued", "failed"})
    BY <2>2
  <2>4. [invoices[s] EXCEPT ![1] = status] \in Seq({"issued", "failed"})
    <3>1. CASE invoices[s] = <<>>
      <4>1. [invoices[s] EXCEPT ![1] = status] = invoices[s]
        BY <3>1
      <4> QED
        BY <2>2, <4>1
    <3>2. CASE invoices[s] # <<>>
      <4>1. 1 \in 1..Len(invoices[s])
        BY <2>2, <3>2, EmptySeq
      <4> QED
        BY <2>2, <4>1, ExceptSeq
    <3> QED
      BY <3>1, <3>2
  <2>5. invoices' \in [Sales -> Seq({"issued", "failed"})]
    BY <1>9, <2>3, <2>4 DEF InvoiceCommit, TypeOK
  <2> QED
    BY <1>1, <1>9, <2>1, <2>5 DEF InvoiceCommit, books, TypeOK
<1> QED
  BY <1>3, <1>4, <1>5, <1>6, <1>7, <1>8, <1>9 DEF Serve

LEMMA TypeStep == TypeOK /\ StockMovedOnce /\ [Next]_vars => TypeOK'
<1>1. UNCHANGED vars /\ TypeOK => TypeOK'
  BY DEF vars, TypeOK
<1> QED
  BY <1>1, TillType, ServeType DEF Next, TillActions

---------------------------------------------------------------------------
(* The goods of a sale, and what the till takes for stored.                *)

(* The till leaves the server's rows alone.                                *)
LEMMA TillWrites == TillActions => UNCHANGED <<order, taken, refused, invoices, gateway>>
BY DEF TillActions, Login, Finalize, RefundAtTill, StartTick, BackoffEnds, Send,
       CallFails, Crash, books, billing

LEMMA StockStep == TypeOK /\ StockMovedOnce /\ [Next]_vars => StockMovedOnce'
<1> SUFFICES ASSUME TypeOK, StockMovedOnce, [Next]_vars
             PROVE  StockMovedOnce'
  OBVIOUS
<1>1. CASE UNCHANGED <<order, taken>>
  BY <1>1 DEF StockMovedOnce
<1>2. ASSUME NEW q \in Requests, UploadCommit(q) \/ RefundCommit(q)
      PROVE  StockMovedOnce'
  <2> PICK s \in Sales : s = req[q].e.s
    BY <1>2, AtForms DEF UploadCommit, RefundCommit
  <2>1. \/ UNCHANGED <<order, taken>>
        \/ /\ order[s] = "none"
           /\ order' = [order EXCEPT ![s] = "paid"]
           /\ taken' = [taken EXCEPT ![s] = taken[s] + 1]
        \/ /\ order[s] = "paid"
           /\ order' = [order EXCEPT ![s] = "refunded"]
           /\ taken' = [taken EXCEPT ![s] = taken[s] - 1]
    BY <1>2 DEF UploadCommit, RefundCommit, books
  <2> QED
    BY <1>1, <2>1 DEF StockMovedOnce, TypeOK
<1>3. ASSUME NEW q \in Requests, UploadRead(q) \/ RefundRead(q) \/ InvoiceRead(q)
                                 \/ GatewayIssue(q) \/ InvoiceCommit(q)
      PROVE  UNCHANGED <<order, taken>>
  BY <1>3 DEF UploadRead, RefundRead, InvoiceRead, GatewayIssue, InvoiceCommit, books
<1>4. UNCHANGED vars => UNCHANGED <<order, taken>>
  BY DEF vars
<1> QED
  BY <1>1, <1>2, <1>3, <1>4, TillWrites DEF Next, TillActions, Serve

(* Orders and refusals stay.                                               *)
LEMMA OrdersStay ==
  ASSUME TypeOK, [Next]_vars, NEW s \in Sales
  PROVE  (order[s] # "none" => order'[s] # "none") /\ refused \subseteq refused'
<1>1. ASSUME NEW q \in Requests, UploadCommit(q) \/ RefundCommit(q)
      PROVE  (order[s] # "none" => order'[s] # "none") /\ refused \subseteq refused'
  BY <1>1 DEF UploadCommit, RefundCommit, TurnsDown, books, TypeOK
<1>2. ASSUME NEW q \in Requests, UploadRead(q) \/ RefundRead(q) \/ InvoiceRead(q)
                                 \/ GatewayIssue(q) \/ InvoiceCommit(q)
      PROVE  UNCHANGED order /\ refused \subseteq refused'
  BY <1>2 DEF UploadRead, TurnsDown, RefundRead, InvoiceRead, GatewayIssue, InvoiceCommit,
              books
<1>3. UNCHANGED vars => UNCHANGED <<order, refused>>
  BY DEF vars
<1> QED
  BY <1>1, <1>2, <1>3, TillWrites DEF Next, TillActions, Serve

(* What a call's answer, or its failure, does to the sale and to the entry *)
(* of its upload.                                                          *)
LEMMA UploadHeard ==
  ASSUME TypeOK, NEW q \in Requests, req[q] # Free, NEW code \in Codes,
         Hears(req[q].caller, req[q].e, code), NEW s \in Sales
  PROVE  /\ sale'[s].phase = sale[s].phase
         /\ sale'[s].synced =>
              sale[s].synced \/ (req[q].e = Upload(s) /\ code = "ok")
         /\ queue[Upload(s)] \in Queued =>
              \/ queue'[Upload(s)] \in Queued
              \/ req[q].e = Upload(s) /\ code # "error"
<1> PICK e \in Entry : e = req[q].e
  BY RequestType
<1>1. /\ e.s \in Sales /\ Upload(s) \in Entry /\ Upload(s) # Invoice(e.s)
      /\ e.op = "upload" /\ e.s = s => e = Upload(s)
  BY EntryForms
<1>2. sale[e.s] \in Sale /\ sale[s] \in Sale
  BY <1>1 DEF TypeOK
<1>3. ASSUME NEW t \in Ticks, TickHears(t, e, code)
      PROVE  /\ sale'[s].phase = sale[s].phase
             /\ sale'[s].synced => sale[s].synced \/ (e = Upload(s) /\ code = "ok")
             /\ queue[Upload(s)] \in Queued =>
                  queue'[Upload(s)] \in Queued \/ (e = Upload(s) /\ code # "error")
  <2>1. /\ sale'[s].phase = sale[s].phase
        /\ sale'[s].synced => sale[s].synced \/ (e = Upload(s) /\ code = "ok")
    BY <1>1, <1>2, <1>3 DEF TickHears, TypeOK, Sale
  <2>2. queue' = [queue EXCEPT ![e] = IF @ \in Queued THEN Settle(code) ELSE @]
    BY <1>3 DEF TickHears
  <2>3. code = "error" => Settle(code) \in Queued
    BY DEF Settle, Queued
  <2>4. queue[Upload(s)] \in Queued =>
          queue'[Upload(s)] \in Queued \/ (e = Upload(s) /\ code # "error")
    BY <1>1, <2>2, <2>3 DEF TypeOK
  <2> QED
    BY <2>1, <2>4
<1>4. ASSUME CounterHears(e, code)
      PROVE  /\ sale'[s].phase = sale[s].phase /\ (sale'[s].synced => sale[s].synced)
             /\ queue'[Upload(s)] = queue[Upload(s)]
  <2> DEFINE i == IF e.op = "invoice" THEN "issued" ELSE sale[e.s].invoice
  <2>0. UNCHANGED sale \/ sale' = [sale EXCEPT ![e.s] = [sale[e.s] EXCEPT !.invoice = i]]
    BY <1>4 DEF CounterHears
  <2> HIDE DEF i
  <2>1. sale'[s] = sale[s] \/ sale'[s] = [sale[s] EXCEPT !.invoice = i]
    BY <1>1, <2>0 DEF TypeOK
  <2>2. sale'[s].phase = sale[s].phase /\ (sale'[s].synced => sale[s].synced)
    BY <1>2, <2>1 DEF Sale
  <2>3. queue'[Upload(s)] = queue[Upload(s)]
    BY <1>1, <1>4 DEF CounterHears, TypeOK
  <2> QED
    BY <2>2, <2>3
<1>5. CASE req[q].caller \in Ticks /\ TickHears(req[q].caller, req[q].e, code)
  BY <1>3, <1>5
<1>6. CASE CounterHears(req[q].e, code)
  BY <1>4, <1>6
<1>7. CASE UNCHANGED till
  BY <1>7 DEF till
<1> QED
  BY <1>5, <1>6, <1>7 DEF Hears

(* What the server does with a request: it goes on to its next stage, or   *)
(* is answered; an upload with ok when the order is stored, and with a     *)
(* refusal when the sale is turned down.                                   *)
LEMMA Served ==
  ASSUME TypeOK, IssuedAtGateway, NEW q \in Requests, Serve(q)
  PROVE  /\ req[q] # Free
         /\ \/ UNCHANGED till
            \/ \E code \in Codes :
                 /\ Answer(q, code)
                 /\ \A s \in Sales : req[q].e = Upload(s) =>
                      \/ code = "ok" /\ order'[s] # "none"
                      \/ code = "refused" /\ s \in refused'
                      \/ code = "error"
<1>1. ASSUME UploadRead(q) \/ UploadCommit(q)
      PROVE  /\ req[q] # Free
             /\ \/ UNCHANGED till
                \/ \E code \in Codes :
                     /\ Answer(q, code)
                     /\ \/ code = "ok" /\ order'[req[q].e.s] # "none"
                        \/ code = "refused" /\ req[q].e.s \in refused'
                        \/ code = "error"
  <2>1. req[q] # Free /\ req[q].e.s \in Sales
    BY <1>1, AtForms DEF UploadRead, UploadCommit
  <2>2. CASE UploadRead(q)
    BY <2>1, <2>2 DEF UploadRead, TurnsDown, Codes
  <2>3. CASE UploadCommit(q)
    BY <2>1, <2>3 DEF UploadCommit, TurnsDown, TypeOK, Codes
  <2> QED
    BY <1>1, <2>2, <2>3, <2>1
<1>2. ASSUME RefundRead(q) \/ RefundCommit(q) \/ InvoiceRead(q) \/ GatewayIssue(q)
      PROVE  /\ req[q] # Free /\ req[q].e.op # "upload"
             /\ UNCHANGED till \/ \E code \in Codes : Answer(q, code)
  <2>1. req[q] # Free /\ req[q].e.op # "upload"
    BY <1>2, AtForms DEF RefundRead, RefundCommit, InvoiceRead, GatewayIssue
  <2> QED
    BY <1>2, <2>1 DEF RefundRead, RefundCommit, InvoiceRead, GatewayIssue, Codes
<1>3. ASSUME InvoiceCommit(q)
      PROVE  /\ req[q] # Free /\ req[q].e.op # "upload"
             /\ \E code \in Codes : Answer(q, code)
  BY <1>3 DEF InvoiceCommit, IssuedAtGateway, Free, Codes
<1> QED
  BY <1>1, <1>2, <1>3, EntryForms DEF Serve

LEMMA SyncedStep ==
  TypeOK /\ IssuedAtGateway /\ SyncedIsStored /\ [Next]_vars => SyncedIsStored'
<1> SUFFICES ASSUME TypeOK, IssuedAtGateway, SyncedIsStored, [Next]_vars,
                    NEW s \in Sales, sale'[s].synced
             PROVE  order'[s] # "none"
  BY DEF SyncedIsStored
<1>1. CASE sale[s].synced
  BY <1>1, OrdersStay DEF SyncedIsStored
<1>2. ASSUME NEW q \in Requests, CallFails(q)
      PROVE  sale[s].synced
  BY <1>2, UploadHeard DEF CallFails, Codes
<1>3. ASSUME NEW q \in Requests, Serve(q)
      PROVE  sale[s].synced \/ order'[s] # "none"
  <2>1. req[q] # Free
    BY <1>3, Served
  <2>2. CASE UNCHANGED till
    BY <2>2 DEF till
  <2>3. ASSUME NEW code \in Codes, Answer(q, code),
               req[q].e = Upload(s) =>
                 \/ code = "ok" /\ order'[s] # "none"
                 \/ code = "refused" /\ s \in refused'
                 \/ code = "error"
        PROVE  sale[s].synced \/ order'[s] # "none"
    BY <2>1, <2>3, UploadHeard DEF Answer
  <2> QED
    BY <1>3, <2>2, <2>3, Served
<1>4. ASSUME NEW r \in Sales, NEW taxed \in BOOLEAN, Finalize(r, taxed)
      PROVE  sale[s].synced
  <2>1. CASE r = s
    <3>1. sale'[s].synced = FALSE
      BY <1>4, <2>1 DEF Finalize, TypeOK
    <3> QED
      BY <3>1
  <2>2. CASE r # s
    BY <1>4, <2>2 DEF Finalize, TypeOK
  <2> QED
    BY <2>1, <2>2
<1>5. ASSUME NEW r \in Sales, RefundAtTill(r)
      PROVE  sale[s].synced
  <2>1. sale'[s] = sale[s] \/ sale'[s] = [sale[s] EXCEPT !.phase = "refunded"]
    BY <1>5 DEF RefundAtTill, TypeOK
  <2> QED
    BY <2>1 DEF TypeOK, Sale
<1>6. CASE \/ \E u \in Cashiers : Login(u)
           \/ \E t \in Ticks : StartTick(t)
           \/ \E e \in Entry : BackoffEnds(e)
           \/ \E k \in Callers : Send(k)
           \/ Crash
           \/ UNCHANGED vars
  <2>1. UNCHANGED sale
    BY <1>6 DEF Login, StartTick, BackoffEnds, Send, Crash, till, vars
  <2> QED
    BY <1>1, <2>1
<1> QED
  BY <1>1, <1>2, <1>3, <1>4, <1>5, <1>6 DEF Next

(* An entry leaves the queue with an answer: the server has the sale, or   *)
(* has turned it down.                                                     *)
LEMMA LostOnlyIfRefusedStep ==
  TypeOK /\ IssuedAtGateway /\ LostOnlyIfRefused /\ [Next]_vars => LostOnlyIfRefused'
<1> SUFFICES ASSUME TypeOK, IssuedAtGateway, LostOnlyIfRefused, [Next]_vars,
                    NEW s \in Sales, sale'[s].phase # "none", order'[s] = "none",
                    s \notin refused'
             PROVE  queue'[Upload(s)] \in Queued
  BY DEF LostOnlyIfRefused
<1>0. order[s] = "none" /\ s \notin refused /\ Upload(s) \in Entry
  BY OrdersStay, EntryForms DEF TypeOK
<1>1. sale[s].phase # "none" => queue[Upload(s)] \in Queued
  BY <1>0 DEF LostOnlyIfRefused
<1>2. ASSUME NEW q \in Requests, CallFails(q)
      PROVE  queue'[Upload(s)] \in Queued
  BY <1>1, <1>2, UploadHeard DEF CallFails, Codes
<1>3. ASSUME NEW q \in Requests, Serve(q)
      PROVE  queue'[Upload(s)] \in Queued
  <2>1. req[q] # Free
    BY <1>3, Served
  <2>2. CASE UNCHANGED till
    BY <1>1, <2>2 DEF till
  <2>3. ASSUME NEW code \in Codes, Answer(q, code),
               req[q].e = Upload(s) =>
                 \/ code = "ok" /\ order'[s] # "none"
                 \/ code = "refused" /\ s \in refused'
                 \/ code = "error"
        PROVE  queue'[Upload(s)] \in Queued
    <3>1. sale[s].phase # "none"
      BY <2>1, <2>3, UploadHeard DEF Answer
    <3> QED
      BY <1>1, <2>1, <2>3, <3>1, UploadHeard DEF Answer
  <2> QED
    BY <1>3, <2>2, <2>3, Served
<1>4. ASSUME NEW r \in Sales, NEW taxed \in BOOLEAN, Finalize(r, taxed)
      PROVE  queue'[Upload(s)] \in Queued
  <2>1. Upload(r) \in Entry /\ (r # s => Upload(r) # Upload(s))
    BY EntryForms
  <2> QED
    BY <1>0, <1>1, <1>4, <2>1 DEF Finalize, TypeOK, Queued
<1>5. ASSUME NEW r \in Sales, RefundAtTill(r)
      PROVE  queue'[Upload(s)] \in Queued
  <2>1. Upload(s) # Refund(r)
    BY EntryForms
  <2>2. sale[s].phase # "none"
    BY <1>5 DEF RefundAtTill, TypeOK
  <2> QED
    BY <1>0, <1>1, <1>5, <2>1, <2>2 DEF RefundAtTill, TypeOK
<1>6. ASSUME NEW e \in Entry, BackoffEnds(e)
      PROVE  queue'[Upload(s)] \in Queued
  BY <1>0, <1>1, <1>6 DEF BackoffEnds, Queued, TypeOK
<1>7. CASE \/ \E u \in Cashiers : Login(u)
           \/ \E t \in Ticks : StartTick(t)
           \/ \E k \in Callers : Send(k)
           \/ Crash
           \/ UNCHANGED vars
  BY <1>1, <1>7 DEF Login, StartTick, Send, Crash, till, vars
<1> QED
  BY <1>2, <1>3, <1>4, <1>5, <1>6, <1>7 DEF Next

---------------------------------------------------------------------------
(* The invoice that the till holds for issued.                             *)

(* A request goes on and the till does not hear of it.                     *)
LEMMA RequestKeeps ==
  ASSUME TypeOK, InvoiceInv, NEW q \in Requests, req[q] # Free,
         UNCHANGED till, UNCHANGED invoices, gateway \subseteq gateway',
         \A r \in Requests \ {q} : req'[r] = req[r],
         req'[q].e = req[q].e, req'[q].caller = req[q].caller,
         req[q].caller = Counter => req'[q].saw = 0,
         req'[q].stage \in {"issued", "failed"} => req[q].e.op = "invoice",
         req'[q].stage = "issued" => req[q].e.s \in gateway'
  PROVE  InvoiceInv'
<1> USE DEF InvoiceInv, till
<1>1. IssuedAtGateway'
  BY DEF IssuedAtGateway
<1>2. CounterCalls'
  BY DEF CounterCalls
<1>3. CounterSells' /\ CounterAlone'
  BY DEF CounterSells, CounterAlone, Untold
<1>4. FirstInvoice' /\ LocalInvoiceIsReal'
  BY DEF FirstInvoice, Untold, LocalInvoiceIsReal
<1> QED
  BY <1>1, <1>2, <1>3, <1>4

(* A caller hears of its request, or gives it up.                          *)
LEMMA HeardKeeps ==
  ASSUME TypeOK, InvoiceInv, NEW q \in Requests, req[q] # Free,
         NEW code \in Codes, Hears(req[q].caller, req[q].e, code),
         \A r \in Requests \ {q} : req'[r] = req[r],
         \/ req'[q] = Free
         \/ /\ code = "error" /\ req[q].caller # Nobody /\ req'[q].caller = Nobody
            /\ req'[q].e = req[q].e /\ req'[q].stage = req[q].stage,
         UNCHANGED gateway,
         \A s \in Sales : invoices'[s] = invoices[s] \/ req[q].e = Invoice(s),
         code = "ok" /\ req[q].caller = Counter /\ req[q].e.op = "invoice" =>
           invoices'[req[q].e.s] = <<"issued">> /\ req[q].e.s \in gateway
  PROVE  InvoiceInv'
<1> USE DEF InvoiceInv
<1> PICK e \in Entry : e = req[q].e
  BY RequestType
<1>0. /\ e.s \in Sales /\ Invoice(e.s) \in Entry /\ Upload(e.s) \in Entry
      /\ e.op = "invoice" => e = Invoice(e.s)
      /\ \A s : Invoice(s).s = s /\ Invoice(s).op = "invoice"
      /\ Free.stage = "free"
  BY EntryForms DEF Free
<1>1. IssuedAtGateway'
  BY <1>0 DEF IssuedAtGateway
<1>2. CASE req[q].caller \in Ticks
  <2> PICK t \in Ticks : t = req[q].caller
    BY <1>2
  <2>1. TickHears(t, e, code) /\ t # Counter /\ t # Nobody
    BY CallerForms, NobodyCalls DEF Hears, Callers
  <2>2. todo'[Counter] = todo[Counter] /\ \A k \in Ticks : todo'[k] \subseteq todo[k]
    BY <2>1, CallerForms DEF TickHears, TypeOK, Callers
  <2>3. \A s \in Sales : sale'[s].phase = sale[s].phase /\ sale'[s].invoice = sale[s].invoice
    <3>1. \A s \in Sales : sale[s] \in Sale
      BY DEF TypeOK
    <3> DEFINE b == sale[e.s].synced \/ (e.op = "upload" /\ code = "ok")
    <3>2. sale' = [sale EXCEPT ![e.s] = [sale[e.s] EXCEPT !.synced = b]]
      BY <2>1 DEF TickHears
    <3> HIDE DEF b
    <3> QED
      BY <1>0, <3>1, <3>2 DEF TypeOK, Sale
  <2>4. \A s \in Sales : queue[Invoice(s)] = "none" => queue'[Invoice(s)] = "none"
    <3>1. queue' = [queue EXCEPT ![e] = IF queue[e] \in Queued THEN Settle(code) ELSE queue[e]]
      BY <2>1 DEF TickHears
    <3> QED
      BY <3>1, EntryForms DEF TypeOK, Queued
  <2>5. \A s \in Sales : Untold(s)' <=> Untold(s)
    BY <2>2, <2>3 DEF Untold
  <2>6. CounterCalls'
    BY <2>1, <2>2, CallerForms DEF CounterCalls
  <2>7. CounterSells'
    <3>1. \A d \in todo[Counter] : d.s \in Sales
      BY CallerForms, EntryForms DEF TypeOK
    <3> QED
      BY <2>2, <2>3, <3>1 DEF CounterSells
  <2>8. CounterAlone'
    BY <2>1, <2>2, <2>3, <2>4, <2>5, CallerForms DEF CounterAlone
  <2>9. \A s \in Sales : Untold(s) \/ sale[s].invoice = "issued" => invoices'[s] = invoices[s]
    BY <2>1 DEF CounterAlone
  <2>10. FirstInvoice' /\ LocalInvoiceIsReal'
    BY <2>3, <2>5, <2>9 DEF FirstInvoice, LocalInvoiceIsReal
  <2> QED
    BY <1>1, <2>6, <2>7, <2>8, <2>10
<1>3. CASE req[q].caller = Counter
  <2>1. CounterHears(e, code)
    BY <1>3, CallerForms DEF Hears
  <2>2. /\ e \in todo[Counter] /\ e.op # "refund"
        /\ sale[e.s].phase # "none" /\ sale[e.s].invoice = "pending"
        /\ e.op = "invoice" => Upload(e.s) \notin todo[Counter]
        /\ \A r \in Requests \ {q} : req[r] # Free => req[r].caller # Counter
    BY <1>3 DEF CounterCalls, CounterSells
  <2>3. \A r \in Requests : req'[r] # Free => req'[r].caller # Counter
    BY <2>2, CallerForms
  <2>4. CounterCalls'
    BY <2>3 DEF CounterCalls
  <2>5. \A d \in todo[Counter] : d.s = e.s /\ (d = Upload(e.s) \/ d = Invoice(e.s))
    <3>1. \A d \in todo[Counter] : d \in Entry /\ d.op \in {"upload", "invoice"} /\ d.s = e.s
      BY <2>2, CallerForms DEF CounterSells, TypeOK, Entry
    <3> QED
      BY <3>1, EntryForms
  <2>6. todo'[Counter] \subseteq todo[Counter] /\ \A t \in Ticks : todo'[t] = todo[t]
    BY <2>1, CallerForms DEF CounterHears, TypeOK, Callers
  <2>7. CASE code # "ok"
    <3>1. /\ todo'[Counter] = {} /\ UNCHANGED sale
          /\ queue' = [queue EXCEPT ![Invoice(e.s)] = "due"]
      BY <2>1, <2>7, CallerForms DEF CounterHears, TypeOK
    <3>2. \A s \in Sales : Untold(s)' => Untold(s) /\ s # e.s
      BY <2>2, <3>1 DEF Untold
    <3>3. CounterSells'
      BY <3>1 DEF CounterSells
    <3>4. CounterAlone'
      <4>1. ASSUME NEW s \in Sales, Untold(s)' \/ sale'[s].invoice = "issued"
            PROVE  /\ queue'[Invoice(s)] = "none"
                   /\ \A t \in Ticks : Invoice(s) \notin todo'[t]
                   /\ \A r \in Requests : req'[r] # Free => req'[r].e # Invoice(s)
        <5>1. s # e.s /\ (Untold(s) \/ sale[s].invoice = "issued")
          BY <2>2, <3>1, <3>2, <4>1
        <5>2. Invoice(s) # Invoice(e.s) /\ e # Invoice(s)
          BY <1>0, <5>1
        <5>3. queue'[Invoice(s)] = queue[Invoice(s)]
          BY <3>1, <5>2, EntryForms DEF TypeOK
        <5>4. \A r \in Requests \ {q} : req[r] # Free => req[r].e # Invoice(s)
          BY <2>2, <5>1 DEF CounterAlone
        <5>5. req'[q] # Free => req'[q].e # Invoice(s)
          BY <5>2
        <5> QED
          BY <2>6, <5>1, <5>3, <5>4, <5>5 DEF CounterAlone
      <4> QED
        BY <4>1 DEF CounterAlone
    <3>5. \A s \in Sales : s # e.s => invoices'[s] = invoices[s]
      BY <1>0
    <3>6. FirstInvoice' /\ LocalInvoiceIsReal'
      BY <2>2, <3>1, <3>2, <3>5 DEF FirstInvoice, LocalInvoiceIsReal
    <3> QED
      BY <1>1, <2>4, <3>3, <3>4, <3>6
  <2>8. CASE code = "ok" /\ e.op = "invoice"
    <3>1. /\ todo'[Counter] = {} /\ UNCHANGED queue
      BY <1>0, <2>1, <2>2, <2>5, <2>8, CallerForms DEF CounterHears, TypeOK
    <3>2. /\ \A s \in Sales : sale'[s].phase = sale[s].phase
          /\ \A s \in Sales \ {e.s} : sale'[s] = sale[s]
      <4>1. sale' = [sale EXCEPT ![e.s] = [sale[e.s] EXCEPT !.invoice = "issued"]]
        BY <2>1, <2>8 DEF CounterHears
      <4>2. \A s \in Sales : sale[s] \in Sale
        BY DEF TypeOK
      <4> QED
        BY <1>0, <4>1, <4>2 DEF TypeOK, Sale
    <3>3. \A s \in Sales : Untold(s)' => Untold(s) /\ s # e.s
      BY <2>2, <3>1, <3>2 DEF Untold
    <3>4. CounterSells'
      BY <3>1 DEF CounterSells
    <3>5. CounterAlone'
      <4>1. ASSUME NEW s \in Sales, Untold(s)' \/ sale'[s].invoice = "issued"
            PROVE  /\ queue'[Invoice(s)] = "none"
                   /\ \A t \in Ticks : Invoice(s) \notin todo'[t]
                   /\ \A r \in Requests : req'[r] # Free => req'[r].e # Invoice(s)
        <5>1. Untold(s) \/ sale[s].invoice = "issued"
          BY <2>2, <2>8, <1>0, <3>2, <3>3, <4>1 DEF Untold
        <5>2. \A r \in Requests \ {q} : req[r] # Free => req[r].e # Invoice(s)
          BY <2>2, <5>1 DEF CounterAlone
        <5>3. req'[q] = Free
          BY <2>8
        <5> QED
          BY <2>6, <3>1, <5>1, <5>2, <5>3 DEF CounterAlone
      <4> QED
        BY <4>1 DEF CounterAlone
    <3>6. \A s \in Sales : s # e.s => invoices'[s] = invoices[s]
      BY <1>0
    <3>7. FirstInvoice' /\ LocalInvoiceIsReal'
      BY <1>3, <2>8, <3>2, <3>3, <3>6 DEF FirstInvoice, LocalInvoiceIsReal
    <3> QED
      BY <1>1, <2>4, <3>4, <3>5, <3>7
  <2>9. CASE code = "ok" /\ e.op # "invoice"
    <3>1. /\ todo'[Counter] = todo[Counter] \ {e} /\ UNCHANGED queue
      BY <2>1, <2>9, CallerForms DEF CounterHears, TypeOK
    <3>2. \A s \in Sales : sale'[s] = sale[s]
      <4>1. sale' = [sale EXCEPT ![e.s] = [sale[e.s] EXCEPT !.invoice = sale[e.s].invoice]]
        BY <2>1, <2>9 DEF CounterHears
      <4>2. \A s \in Sales : sale[s] \in Sale
        BY DEF TypeOK
      <4> QED
        BY <1>0, <4>1, <4>2 DEF TypeOK, Sale
    <3>3. \A s \in Sales : Untold(s)' <=> Untold(s)
      BY <1>0, <2>9, <3>1, <3>2 DEF Untold
    <3>4. CounterSells'
      <4>1. \A d \in todo[Counter] : d.s \in Sales
        BY CallerForms, EntryForms DEF TypeOK
      <4> QED
        BY <3>1, <3>2, <4>1 DEF CounterSells
    <3>5. CounterAlone'
      BY <2>6, <2>9, <3>1, <3>2, <3>3 DEF CounterAlone
    <3>6. \A s \in Sales : invoices'[s] = invoices[s]
      BY <1>0, <2>9
    <3>7. FirstInvoice' /\ LocalInvoiceIsReal'
      BY <3>2, <3>3, <3>6 DEF FirstInvoice, LocalInvoiceIsReal
    <3> QED
      BY <1>1, <2>4, <3>4, <3>5, <3>7
  <2> QED
    BY <2>7, <2>8, <2>9
<1>4. CASE req[q].caller = Nobody
  <2>1. UNCHANGED till /\ req'[q] = Free
    BY <1>4, CallerForms, NobodyCalls DEF Hears, Callers
  <2>2. CounterCalls' /\ CounterSells' /\ CounterAlone'
    BY <2>1 DEF CounterCalls, CounterSells, CounterAlone, Untold, till
  <2>3. \A s \in Sales : Untold(s) \/ sale[s].invoice = "issued" => invoices'[s] = invoices[s]
    BY <1>4, CallerForms DEF CounterAlone
  <2>4. FirstInvoice' /\ LocalInvoiceIsReal'
    BY <2>1, <2>3 DEF FirstInvoice, LocalInvoiceIsReal, Untold, till
  <2> QED
    BY <1>1, <2>2, <2>4
<1> QED
  BY <1>2, <1>3, <1>4, RequestType DEF Callers

(* The till's own steps.                                                   *)
LEMMA TillKeeps == TypeOK /\ InvoiceInv /\ TillActions => InvoiceInv'
<1> SUFFICES ASSUME TypeOK, InvoiceInv, TillActions
             PROVE  InvoiceInv'
  OBVIOUS
<1> USE DEF InvoiceInv
<1>0. UNCHANGED <<invoices, gateway>>
  BY TillWrites
<1>1. CASE \E u \in Cashiers : Login(u)
  BY <1>0, <1>1 DEF Login, till, IssuedAtGateway, CounterCalls, CounterSells, CounterAlone,
                    FirstInvoice, LocalInvoiceIsReal, Untold
<1>2. ASSUME NEW s \in Sales, NEW taxed \in BOOLEAN, Finalize(s, taxed)
      PROVE  InvoiceInv'
  <2>1. /\ todo[Counter] = {} /\ sale[s].phase = "none" /\ UNCHANGED req
        /\ queue' = [queue EXCEPT ![Upload(s)] = "due"]
        /\ \A t \in Ticks : todo'[t] = todo[t]
        /\ todo'[Counter] = IF taxed THEN {Upload(s), Invoice(s)} ELSE {}
        /\ \A r \in Sales \ {s} : sale'[r] = sale[r]
        /\ sale'[s].phase = "paid"
        /\ sale'[s].invoice = IF taxed THEN "pending" ELSE "none"
    BY <1>2, CallerForms DEF Finalize, TypeOK, Callers
  <2>2. \A q \in Requests : req[q] # Free => req[q].caller # Counter
    BY <2>1 DEF CounterCalls
  <2>3. \A r \in Sales : Untold(r)' => Untold(r)
    BY <2>1, EntryForms DEF Untold
  <2>4. CounterCalls' /\ IssuedAtGateway'
    BY <1>0, <2>1, <2>2 DEF CounterCalls, IssuedAtGateway
  <2>5. CounterSells'
    BY <2>1, EntryForms DEF CounterSells
  <2>6. ASSUME NEW r \in Sales
        PROVE  queue'[Invoice(r)] = queue[Invoice(r)]
    <3>1. Upload(s) # Invoice(r) /\ Invoice(r) \in Entry /\ DOMAIN queue = Entry
      BY EntryForms DEF TypeOK
    <3> QED
      BY <2>1, <3>1
  <2>7. \A r \in Sales : sale'[r].invoice = "issued" => sale[r].invoice = "issued"
    BY <2>1
  <2>8. CounterAlone'
    BY <2>1, <2>3, <2>6, <2>7 DEF CounterAlone
  <2>9. FirstInvoice' /\ LocalInvoiceIsReal'
    BY <1>0, <2>3, <2>7 DEF FirstInvoice, LocalInvoiceIsReal
  <2> QED
    BY <2>4, <2>5, <2>8, <2>9
<1>3. ASSUME NEW s \in Sales, RefundAtTill(s)
      PROVE  InvoiceInv'
  <2>1. /\ UNCHANGED <<todo, req>> /\ sale[s].phase = "paid"
        /\ Upload(s) \notin todo[Counter] /\ Invoice(s) \notin todo[Counter]
        /\ queue' = [queue EXCEPT ![Refund(s)] = "due"]
        /\ sale' = [sale EXCEPT ![s] = [sale[s] EXCEPT !.phase = "refunded"]]
    BY <1>3 DEF RefundAtTill
  <2>2. /\ \A r \in Sales : sale'[r].invoice = sale[r].invoice
        /\ \A r \in Sales : sale'[r].phase = "none" <=> sale[r].phase = "none"
    BY <2>1 DEF TypeOK, Sale
  <2>3. \A r \in Sales : queue'[Invoice(r)] = queue[Invoice(r)]
    BY <2>1, EntryForms DEF TypeOK
  <2>4. \A r \in Sales : Untold(r)' <=> Untold(r)
    BY <2>1, <2>2 DEF Untold
  <2>5. CounterCalls' /\ IssuedAtGateway'
    BY <1>0, <2>1 DEF CounterCalls, IssuedAtGateway
  <2>6. CounterSells'
    <3>1. \A d \in todo[Counter] : d.s \in Sales
      BY CallerForms, EntryForms DEF TypeOK
    <3> QED
      BY <2>1, <2>2, <3>1 DEF CounterSells
  <2>7. CounterAlone'
    BY <2>1, <2>2, <2>3, <2>4 DEF CounterAlone
  <2>8. FirstInvoice' /\ LocalInvoiceIsReal'
    BY <1>0, <2>2, <2>4 DEF FirstInvoice, LocalInvoiceIsReal
  <2> QED
    BY <2>5, <2>6, <2>7, <2>8
<1>4. ASSUME NEW t \in Ticks, StartTick(t)
      PROVE  InvoiceInv'
  <2>1. /\ UNCHANGED <<sale, queue, req>>
        /\ todo' = [todo EXCEPT ![t] = {e \in Entry : queue[e] = "due"}]
    BY <1>4 DEF StartTick
  <2>2. todo'[Counter] = todo[Counter]
    BY <2>1, CallerForms DEF TypeOK
  <2>3. \A s \in Sales, k \in Ticks : Invoice(s) \in todo'[k] =>
          Invoice(s) \in todo[k] \/ queue[Invoice(s)] # "none"
    BY <2>1 DEF TypeOK, Callers
  <2>4. \A s \in Sales : Untold(s)' <=> Untold(s)
    BY <2>1, <2>2 DEF Untold
  <2>5. CounterCalls' /\ CounterSells' /\ IssuedAtGateway'
    BY <1>0, <2>1, <2>2 DEF CounterCalls, CounterSells, IssuedAtGateway
  <2>6. CounterAlone'
    BY <2>1, <2>3, <2>4 DEF CounterAlone
  <2>7. FirstInvoice' /\ LocalInvoiceIsReal'
    BY <1>0, <2>1, <2>4 DEF FirstInvoice, LocalInvoiceIsReal
  <2> QED
    BY <2>5, <2>6, <2>7
<1>5. ASSUME NEW e \in Entry, BackoffEnds(e)
      PROVE  InvoiceInv'
  <2>1. /\ UNCHANGED <<sale, todo, req>> /\ queue[e] = "waiting"
        /\ queue' = [queue EXCEPT ![e] = "due"]
    BY <1>5 DEF BackoffEnds
  <2>2. \A s \in Sales : queue[Invoice(s)] = "none" => queue'[Invoice(s)] = "none"
    BY <2>1, EntryForms DEF TypeOK
  <2> QED
    BY <1>0, <2>1, <2>2 DEF IssuedAtGateway, CounterCalls, CounterSells, CounterAlone,
                            FirstInvoice, LocalInvoiceIsReal, Untold
<1>6. ASSUME NEW k \in Callers, Send(k)
      PROVE  InvoiceInv'
  <2> PICK q \in Requests, e \in todo[k] :
        /\ \A r \in Requests : req[r] # Free => req[r].caller # k
        /\ \A d \in todo[k] : d.s = e.s => Rank(e) <= Rank(d)
        /\ req' = [req EXCEPT ![q] = [stage |-> "sent", e |-> e, by |-> session,
                                      caller |-> k, saw |-> 0]]
    BY <1>6 DEF Send
  <2>1. /\ UNCHANGED <<sale, queue, todo>>
        /\ req'[q].e = e /\ req'[q].caller = k /\ req'[q].saw = 0 /\ req'[q].stage = "sent"
        /\ \A r \in Requests \ {q} : req'[r] = req[r]
    BY <1>6 DEF Send, till, TypeOK
  <2>2. e \in Entry
    BY DEF TypeOK
  <2>3. IssuedAtGateway'
    BY <1>0, <2>1 DEF IssuedAtGateway
  <2>4. k = Counter /\ e.op = "invoice" => Upload(e.s) \notin todo[Counter]
    <3>1. Upload(e.s).s = e.s /\ Rank(Upload(e.s)) = 0
      BY EntryForms DEF Rank
    <3>2. e.op = "invoice" => Rank(e) = 1
      BY DEF Rank
    <3> QED
      BY <3>1, <3>2
  <2>5. CounterCalls'
    BY <2>1, <2>4 DEF CounterCalls
  <2>6. CounterSells' /\ FirstInvoice' /\ LocalInvoiceIsReal'
    BY <1>0, <2>1 DEF CounterSells, FirstInvoice, LocalInvoiceIsReal, Untold
  <2>7. CounterAlone'
    BY <2>1 DEF CounterAlone, Untold, Callers
  <2> QED
    BY <2>3, <2>5, <2>6, <2>7
<1>7. ASSUME NEW q \in Requests, CallFails(q)
      PROVE  InvoiceInv'
  <2>1. /\ req[q] # Free /\ req[q].caller # Nobody
        /\ Hears(req[q].caller, req[q].e, "error") /\ "error" \in Codes
    BY <1>7 DEF CallFails, Codes
  <2>2. \A r \in Requests \ {q} : req'[r] = req[r]
    BY <1>7 DEF CallFails, TypeOK
  <2>3. \/ req'[q] = Free
        \/ req'[q].caller = Nobody /\ req'[q].e = req[q].e /\ req'[q].stage = req[q].stage
    <3>1. req[q] \in Request \ {Free}
      BY <2>1 DEF TypeOK
    <3>2. req'[q] = Free \/ req'[q] = [req[q] EXCEPT !.caller = Nobody]
      BY <1>7 DEF CallFails, TypeOK
    <3> QED
      BY <3>1, <3>2 DEF Request
  <2> HIDE DEF InvoiceInv
  <2> QED
    BY <1>0, <2>1, <2>2, <2>3, HeardKeeps
<1>8. CASE Crash
  <2>1. /\ UNCHANGED <<sale, queue>>
        /\ todo' = [k \in Callers |-> {}]
    BY <1>8 DEF Crash
  <2>2. \A q \in Requests :
          \/ req[q] = Free /\ req'[q] = Free
          \/ /\ req[q] # Free /\ req'[q].caller = Nobody
             /\ req'[q].e = req[q].e /\ req'[q].stage = req[q].stage
    <3>1. ASSUME NEW q \in Requests, req[q] # Free
          PROVE  /\ req'[q].caller = Nobody
                 /\ req'[q].e = req[q].e /\ req'[q].stage = req[q].stage
      <4>1. req[q] \in Request \ {Free}
        BY <3>1 DEF TypeOK
      <4>2. req'[q] = [req[q] EXCEPT !.caller = Nobody]
        BY <1>8, <3>1 DEF Crash
      <4> QED
        BY <4>1, <4>2 DEF Request
    <3> QED
      BY <1>8, <3>1 DEF Crash
  <2>3. IssuedAtGateway'
    BY <1>0, <2>2 DEF IssuedAtGateway
  <2>4. CounterCalls'
    BY <2>2, CallerForms DEF CounterCalls
  <2>5. todo'[Counter] = {} /\ \A t \in Ticks : todo'[t] = {}
    BY <2>1, CallerForms DEF Callers
  <2>6. CounterSells'
    BY <2>5 DEF CounterSells
  <2>7. \A s \in Sales : Untold(s)' => sale[s].phase = "none"
    BY <2>1, <2>5 DEF Untold
  <2>8. ASSUME NEW s \in Sales, sale[s].phase = "none" \/ sale[s].invoice = "issued",
               NEW q \in Requests, req[q] # Free
        PROVE  req[q].e # Invoice(s)
    BY <2>8, EntryForms DEF CounterAlone, CounterCalls, CounterSells, Untold
  <2>9. CounterAlone'
    BY <2>1, <2>2, <2>5, <2>7, <2>8 DEF CounterAlone, Untold
  <2>10. FirstInvoice' /\ LocalInvoiceIsReal'
    BY <1>0, <2>1, <2>7 DEF FirstInvoice, LocalInvoiceIsReal, Untold
  <2> QED
    BY <2>3, <2>4, <2>6, <2>9, <2>10
<1> QED
  BY <1>1, <1>2, <1>3, <1>4, <1>5, <1>6, <1>7, <1>8 DEF TillActions

(* An answer that has nothing to do with an invoice that was issued.       *)
LEMMA AnswerKeeps ==
  ASSUME TypeOK, InvoiceInv, NEW q \in Requests, req[q] # Free,
         NEW code \in Codes, Answer(q, code), UNCHANGED billing,
         code = "ok" /\ req[q].caller = Counter => req[q].e.op # "invoice"
  PROVE  InvoiceInv'
<1>1. req'[q] = Free /\ \A r \in Requests \ {q} : req'[r] = req[r]
  BY DEF Answer, TypeOK
<1>2. Hears(req[q].caller, req[q].e, code)
  BY DEF Answer
<1>3. UNCHANGED gateway /\ \A s \in Sales : invoices'[s] = invoices[s]
  BY DEF billing
<1> QED
  BY <1>1, <1>2, <1>3, HeardKeeps

LEMMA ServeKeeps ==
  ASSUME TypeOK, InvoiceInv, NEW q \in Requests, Serve(q)
  PROVE  InvoiceInv'
<1>0. req[q] # Free
  BY Served DEF InvoiceInv
<1> PICK e \in Entry : e = req[q].e
  BY <1>0, RequestType
<1>1. req[q] \in Request \ {Free} /\ e.s \in Sales /\ (e.op = "invoice" => e = Invoice(e.s))
  BY <1>0, EntryForms DEF TypeOK
(* The checkout asks while the server has no invoice of the sale yet.      *)
<1>2. e.op = "invoice" /\ req[q].caller = Counter => invoices[e.s] = <<>>
  BY <1>0, <1>1 DEF InvoiceInv, CounterCalls, FirstInvoice, Untold
<1>3. ASSUME req' = [req EXCEPT ![q].stage = "busy"], UNCHANGED till, UNCHANGED billing
      PROVE  InvoiceInv'
  <2>1. /\ req'[q].e = req[q].e /\ req'[q].caller = req[q].caller
        /\ req'[q].saw = req[q].saw /\ req'[q].stage = "busy"
        /\ \A r \in Requests \ {q} : req'[r] = req[r]
    BY <1>1, <1>3 DEF TypeOK, Request
  <2>2. req[q].caller = Counter => req[q].saw = 0
    BY <1>0 DEF InvoiceInv, CounterCalls
  <2> QED
    BY <1>0, <1>3, <2>1, <2>2, RequestKeeps DEF billing
<1>4. CASE UploadRead(q) \/ UploadCommit(q) \/ RefundRead(q) \/ RefundCommit(q)
  <2>1. e.op # "invoice" /\ UNCHANGED billing
    BY <1>4, AtForms DEF UploadRead, UploadCommit, RefundRead, RefundCommit
  <2>2. \/ req' = [req EXCEPT ![q].stage = "busy"] /\ UNCHANGED till
        \/ \E code \in Codes : Answer(q, code)
    BY <1>4 DEF UploadRead, UploadCommit, TurnsDown, RefundRead, RefundCommit, Codes
  <2> QED
    BY <1>0, <1>3, <2>1, <2>2, AnswerKeeps
<1>5. CASE InvoiceRead(q)
  <2>1. UNCHANGED billing /\ e.op = "invoice"
    BY <1>5, AtForms DEF InvoiceRead
  <2>2. CASE Answer(q, "refused") \/ Answer(q, "error")
    BY <1>0, <2>1, <2>2, AnswerKeeps DEF Codes
  <2>3. CASE invoices[e.s] = <<"issued">> /\ Answer(q, "ok")
    <3>1. req[q].caller # Counter
      BY <1>2, <2>1, <2>3
    <3> QED
      BY <1>0, <2>1, <2>3, <3>1, AnswerKeeps DEF Codes
  <2>4. CASE /\ req' = [req EXCEPT ![q].stage = "busy", ![q].saw = Len(invoices[e.s])]
             /\ UNCHANGED till
    <3> DEFINE r == [req[q] EXCEPT !.stage = "busy", !.saw = Len(invoices[e.s])]
    <3>1. r.e = req[q].e /\ r.caller = req[q].caller /\ r.stage = "busy"
          /\ r.saw = Len(invoices[e.s])
      BY <1>1 DEF Request
    <3>2. req' = [req EXCEPT ![q] = r]
      BY <2>4 DEF TypeOK
    <3> HIDE DEF r
    <3>3. req'[q] = r /\ \A p \in Requests \ {q} : req'[p] = req[p]
      BY <3>2 DEF TypeOK
    <3>4. req[q].caller = Counter => r.saw = 0
      BY <1>2, <2>1, <3>1
    <3> QED
      BY <1>0, <2>1, <2>4, <3>1, <3>3, <3>4, RequestKeeps DEF billing
  <2> QED
    BY <1>5, <2>2, <2>3, <2>4 DEF InvoiceRead
<1>6. CASE GatewayIssue(q)
  <2>1. e.op = "invoice" /\ UNCHANGED <<till, invoices>>
    BY <1>6, AtForms DEF GatewayIssue
  <2>2. PICK stage \in {"issued", "failed"} :
          /\ req' = [req EXCEPT ![q].stage = stage]
          /\ gateway \subseteq gateway'
          /\ stage = "issued" => e.s \in gateway'
    BY <1>6 DEF GatewayIssue
  <2>3. /\ req'[q].e = req[q].e /\ req'[q].caller = req[q].caller
        /\ req'[q].saw = req[q].saw /\ req'[q].stage = stage
        /\ \A r \in Requests \ {q} : req'[r] = req[r]
    BY <1>1, <2>2 DEF TypeOK, Request
  <2>4. req[q].caller = Counter => req[q].saw = 0
    BY <1>0 DEF InvoiceInv, CounterCalls
  <2> QED
    BY <1>0, <2>1, <2>2, <2>3, <2>4, RequestKeeps
<1>7. CASE InvoiceCommit(q)
  <2>1. /\ req[q].stage \in {"issued", "failed"} /\ e.op = "invoice"
        /\ req[q].stage = "issued" => e.s \in gateway
    BY <1>7 DEF InvoiceCommit, InvoiceInv, IssuedAtGateway
  <2> PICK code \in {"ok", "failed"} :
        code = IF req[q].stage = "issued" THEN "ok" ELSE "failed"
    OBVIOUS
  <2>2. /\ Answer(q, code) /\ UNCHANGED gateway
        /\ invoices' = [invoices EXCEPT ![e.s] =
             IF req[q].saw = 0 THEN Append(@, req[q].stage) ELSE [@ EXCEPT ![1] = req[q].stage]]
    BY <1>7 DEF InvoiceCommit
  <2>3. \A s \in Sales : invoices'[s] = invoices[s] \/ req[q].e = Invoice(s)
    BY <1>1, <2>1, <2>2 DEF TypeOK
  <2>4. code = "ok" /\ req[q].caller = Counter => invoices'[e.s] = <<"issued">>
    <3> SUFFICES ASSUME code = "ok", req[q].caller = Counter
                 PROVE  invoices'[e.s] = <<"issued">>
      OBVIOUS
    <3>1. req[q].saw = 0 /\ req[q].stage = "issued"
      BY <1>0, <2>1 DEF InvoiceInv, CounterCalls
    <3>2. invoices'[e.s] = Append(<<>>, "issued")
      BY <1>1, <1>2, <2>1, <2>2, <3>1 DEF TypeOK
    <3> QED
      BY <3>2
  <2>5. /\ Hears(req[q].caller, req[q].e, code)
        /\ req'[q] = Free /\ \A r \in Requests \ {q} : req'[r] = req[r]
    BY <2>2 DEF Answer, TypeOK
  <2> QED
    BY <1>0, <2>1, <2>2, <2>3, <2>4, <2>5, HeardKeeps DEF Codes
<1> QED
  BY <1>4, <1>5, <1>6, <1>7 DEF Serve

---------------------------------------------------------------------------
(* The theorems.                                                           *)

LEMMA SyncInit == Init => SyncInv
<1> SUFFICES ASSUME Init
             PROVE  SyncInv
  OBVIOUS
<1>1. TypeOK
  <2>1. <<>> \in Seq({"issued", "failed"})
    BY EmptySeq
  <2>2. 0 \in 0..MaxFaults
    BY MaxFaultsType
  <2> QED
    BY <2>1, <2>2 DEF Init, TypeOK, Sale, Request
<1>2. StockMovedOnce /\ SyncedIsStored
  BY DEF Init, StockMovedOnce, SyncedIsStored
<1>3. InvoiceInv
  BY CallerForms, EntryForms
  DEF Init, InvoiceInv, IssuedAtGateway, CounterCalls, CounterSells, CounterAlone,
      FirstInvoice, LocalInvoiceIsReal, Free, Callers
<1> QED
  BY <1>1, <1>2, <1>3 DEF SyncInv

LEMMA SyncStep == SyncInv /\ [Next]_vars => SyncInv'
<1>1. SyncInv /\ UNCHANGED vars => InvoiceInv'
  BY DEF vars, SyncInv, InvoiceInv, IssuedAtGateway, CounterCalls, CounterSells,
         CounterAlone, FirstInvoice, LocalInvoiceIsReal, Untold
<1>2. SyncInv /\ Next => InvoiceInv'
  BY TillKeeps, ServeKeeps DEF Next, TillActions, SyncInv
<1>3. SyncInv /\ [Next]_vars => TypeOK' /\ StockMovedOnce' /\ SyncedIsStored'
  BY TypeStep, StockStep, SyncedStep DEF SyncInv, InvoiceInv
<1> QED
  BY <1>1, <1>2, <1>3 DEF SyncInv

LEMMA SyncAlways == Spec => []SyncInv
<1>1. Init => SyncInv
  BY SyncInit
<1>2. SyncInv /\ [Next]_vars => SyncInv'
  BY SyncStep
<1> QED
  BY <1>1, <1>2, PTL DEF Spec

(* The rows of the till and the server and the requests under way keep     *)
(* their types.                                                            *)
THEOREM PosSyncTypes == Spec => []TypeOK
<1>1. SyncInv => TypeOK
  BY DEF SyncInv
<1> QED
  BY <1>1, SyncAlways, PTL

(* However often an upload or a refund is repeated, lost, answered late or *)
(* handled twice at once, the goods of a sale leave the server's inventory *)
(* once and come back once.                                                *)
THEOREM StockMovedOnceAlways == Spec => []StockMovedOnce
<1>1. SyncInv => StockMovedOnce
  BY DEF SyncInv
<1> QED
  BY <1>1, SyncAlways, PTL

(* A sale that the till marks as synced is stored at the server.           *)
THEOREM SyncedIsStoredAlways == Spec => []SyncedIsStored
<1>1. SyncInv => SyncedIsStored
  BY DEF SyncInv
<1> QED
  BY <1>1, SyncAlways, PTL

(* An invoice that the till holds for issued was issued by the platform    *)
(* and is the server's only row for the order, for the queue asks for an   *)
(* invoice only after the checkout has given up on it.                     *)
THEOREM LocalInvoiceIsRealAlways == Spec => []LocalInvoiceIsReal
<1>1. SyncInv => LocalInvoiceIsReal
  BY DEF SyncInv, InvoiceInv
<1> QED
  BY <1>1, SyncAlways, PTL

(* Whatever is lost or repeated and however often the till stops, a sale   *)
(* that was rung up is at the server or in the queue, unless the server    *)
(* turned it down.                                                         *)
THEOREM LostOnlyIfRefusedAlways == Spec => []LostOnlyIfRefused
<1>1. Init => LostOnlyIfRefused
  BY DEF Init, LostOnlyIfRefused
<1>2. SyncInv /\ LostOnlyIfRefused /\ [Next]_vars => LostOnlyIfRefused'
  BY LostOnlyIfRefusedStep DEF SyncInv, InvoiceInv
<1> QED
  BY <1>1, <1>2, SyncAlways, PTL DEF Spec

---------------------------------------------------------------------------
(* The till and the server implement SaleOnce.                             *)

(* What is queued, still to be sent or under way was rung up: an upload    *)
(* after the sale, a refund after the till took the sale back.             *)
Asked(e) ==
  /\ e.op = "upload" => sale[e.s].phase # "none"
  /\ e.op = "refund" => sale[e.s].phase = "refunded"

(* The server acts on nothing else.                                        *)
RungFirst ==
  /\ \A e \in Entry : queue[e] \in Queued => Asked(e)
  /\ \A k \in Callers : \A e \in todo[k] : Asked(e)
  /\ \A q \in Requests : req[q] # Free => Asked(req[q].e)
  /\ \A s \in Sales : order[s] # "none" => sale[s].phase # "none"

(* What a call's answer, or its failure, does to the rows of the till.     *)
LEMMA SaleHeard ==
  ASSUME TypeOK, NEW q \in Requests, req[q] # Free, NEW code \in Codes,
         Hears(req[q].caller, req[q].e, code)
  PROVE  LET e == req[q].e IN
         /\ Rung' = Rung
         /\ \A k \in Callers : todo'[k] \subseteq todo[k]
         /\ \A d \in Entry : queue'[d] \in Queued =>
              queue[d] \in Queued \/ d.op = "invoice"
         /\ \/ Owed' = Owed /\ Known' = Known
            \/ /\ e.op = "upload" /\ code = "ok"
               /\ Owed' = Owed \ {e.s} /\ Known' = Known \cup {e.s}
            \/ /\ e.op = "upload" /\ code \notin {"ok", "error"}
               /\ Owed' = Owed \ {e.s} /\ Known' = Known
<1> PICK e \in Entry : e = req[q].e
  BY RequestType
<1>1. /\ e.s \in Sales
      /\ e.op = "upload" => e = Upload(e.s)
      /\ \A s \in Sales : Upload(s) \in Entry /\ Upload(s) # Invoice(e.s)
      /\ \A s \in Sales : Upload(s) = e => s = e.s /\ e.op = "upload"
      /\ Invoice(e.s).op = "invoice"
  BY EntryForms
<1>2. \A s \in Sales : sale[s] \in Sale
  BY DEF TypeOK
<1>3. ASSUME NEW t \in Ticks, TickHears(t, e, code)
      PROVE  /\ Rung' = Rung
             /\ \A k \in Callers : todo'[k] \subseteq todo[k]
             /\ \A d \in Entry : queue'[d] \in Queued => queue[d] \in Queued
             /\ \/ Owed' = Owed /\ Known' = Known
                \/ /\ e.op = "upload" /\ code = "ok"
                   /\ Owed' = Owed \ {e.s} /\ Known' = Known \cup {e.s}
                \/ /\ e.op = "upload" /\ code \notin {"ok", "error"}
                   /\ Owed' = Owed \ {e.s} /\ Known' = Known
  <2> DEFINE heard == sale[e.s].synced \/ (e.op = "upload" /\ code = "ok")
  <2>0. sale' = [sale EXCEPT ![e.s] = [sale[e.s] EXCEPT !.synced = heard]]
    BY <1>3 DEF TickHears
  <2> HIDE DEF heard
  <2>1. \A s \in Sales : /\ sale'[s].phase = sale[s].phase
                         /\ s # e.s => sale'[s] = sale[s]
    BY <1>1, <1>2, <2>0 DEF TypeOK, Sale
  <2>2. sale'[e.s].synced = heard
    BY <1>1, <1>2, <2>0 DEF TypeOK, Sale
  <2>3. Rung' = Rung
    BY <2>1 DEF Rung
  <2>4. \A k \in Callers : todo'[k] \subseteq todo[k]
    BY <1>3 DEF TickHears, TypeOK, Callers
  <2>5. \A d \in Entry : queue'[d] =
          IF d = e /\ queue[e] \in Queued THEN Settle(code) ELSE queue[d]
    BY <1>3 DEF TickHears, TypeOK
  <2>6. Settle(code) \in Queued <=> code = "error"
    BY DEF Settle, Queued
  <2>7. CASE e.op = "upload" /\ code # "error"
    <3>1. Owed' = Owed \ {e.s}
      BY <1>1, <2>5, <2>6, <2>7 DEF Owed
    <3>2. Known' = IF code = "ok" THEN Known \cup {e.s} ELSE Known
      <4>1. \A s \in Sales : sale'[s].synced <=>
              sale[s].synced \/ (s = e.s /\ code = "ok")
        BY <2>1, <2>2, <2>7 DEF heard
      <4> QED
        BY <1>1, <4>1 DEF Known
    <3> QED
      BY <2>3, <2>4, <2>5, <2>6, <2>7, <3>1, <3>2
  <2>8. CASE e.op # "upload" \/ code = "error"
    <3>1. Owed' = Owed
      BY <1>1, <2>5, <2>6, <2>8 DEF Owed
    <3>2. Known' = Known
      <4>1. \A s \in Sales : sale'[s].synced <=> sale[s].synced
        BY <2>1, <2>2, <2>8 DEF heard
      <4> QED
        BY <4>1 DEF Known
    <3> QED
      BY <2>3, <2>4, <2>5, <2>6, <3>1, <3>2
  <2> QED
    BY <2>7, <2>8
<1>4. ASSUME CounterHears(e, code)
      PROVE  /\ Rung' = Rung /\ Owed' = Owed /\ Known' = Known
             /\ \A k \in Callers : todo'[k] \subseteq todo[k]
             /\ \A d \in Entry : queue'[d] \in Queued =>
                  queue[d] \in Queued \/ d.op = "invoice"
  <2> DEFINE i == IF e.op = "invoice" THEN "issued" ELSE sale[e.s].invoice
  <2>0. UNCHANGED sale \/ sale' = [sale EXCEPT ![e.s] = [sale[e.s] EXCEPT !.invoice = i]]
    BY <1>4 DEF CounterHears
  <2> HIDE DEF i
  <2>1. \A s \in Sales : /\ sale'[s].phase = sale[s].phase
                         /\ sale'[s].synced <=> sale[s].synced
    <3> SUFFICES ASSUME NEW s \in Sales
                 PROVE  /\ sale'[s].phase = sale[s].phase
                        /\ sale'[s].synced <=> sale[s].synced
      OBVIOUS
    <3>1. sale'[s] = sale[s] \/ sale'[s] = [sale[s] EXCEPT !.invoice = i]
      <4>1. e.s \in Sales /\ sale \in [Sales -> Sale]
        BY <1>1 DEF TypeOK
      <4> QED
        BY <2>0, <4>1
    <3>2. sale[s] \in Sale
      BY <1>2
    <3>3. CASE sale'[s] = [sale[s] EXCEPT !.invoice = i]
      BY <3>2, <3>3 DEF Sale
    <3> QED
      BY <3>1, <3>3
  <2>2. Rung' = Rung /\ Known' = Known
    BY <2>1 DEF Rung, Known
  <2>3. \/ UNCHANGED queue
        \/ queue' = [queue EXCEPT ![Invoice(e.s)] = "due"]
    BY <1>4 DEF CounterHears
  <2>4. \A d \in Entry : queue'[d] = queue[d] \/ d = Invoice(e.s)
    BY <2>3 DEF TypeOK
  <2>5. Owed' = Owed
    BY <1>1, <2>4 DEF Owed
  <2>6. \A k \in Callers : todo'[k] \subseteq todo[k]
    <3>1. \/ todo' = [todo EXCEPT ![Counter] = todo[Counter] \ {e}]
          \/ todo' = [todo EXCEPT ![Counter] = {}]
      BY <1>4 DEF CounterHears
    <3> QED
      BY <3>1 DEF TypeOK
  <2> QED
    BY <1>1, <2>2, <2>4, <2>5, <2>6
<1>5. CASE req[q].caller \in Ticks /\ TickHears(req[q].caller, req[q].e, code)
  BY <1>3, <1>5
<1>6. CASE CounterHears(req[q].e, code)
  BY <1>4, <1>6
<1>7. CASE UNCHANGED till
  BY <1>7 DEF till, Rung, Owed, Known
<1> QED
  BY <1>5, <1>6, <1>7 DEF Hears

(* Steps that the server and the till keep to themselves.                  *)
LEMMA OnceFrame ==
  ASSUME Rung' = Rung, Owed' = Owed, Known' = Known, UNCHANGED books
  PROVE  UNCHANGED Once!vars
BY DEF Once!vars, books

(* What was asked for stays rung up.                                       *)
LEMMA AskedStays ==
  ASSUME TypeOK, [Next]_vars
  PROVE  /\ \A s \in Sales : sale[s].phase # "none" => sale'[s].phase # "none"
         /\ \A e \in Entry : Asked(e) => Asked(e)'
<1> DEFINE Stays(s) ==
      /\ sale[s].phase # "none" => sale'[s].phase # "none"
      /\ sale[s].phase = "refunded" => sale'[s].phase = "refunded"
<1>1. ASSUME NEW q \in Requests, req[q] # Free, NEW code \in Codes,
             Hears(req[q].caller, req[q].e, code), NEW s \in Sales
      PROVE  Stays(s)
  BY <1>1, UploadHeard
<1>2. ASSUME NEW q \in Requests, CallFails(q), NEW s \in Sales
      PROVE  Stays(s)
  BY <1>1, <1>2 DEF CallFails, Codes
<1>3. ASSUME NEW q \in Requests, Serve(q), NEW s \in Sales
      PROVE  Stays(s)
  <2>1. \/ UNCHANGED till
        \/ req[q] # Free /\ \E code \in Codes : Hears(req[q].caller, req[q].e, code)
    <3>1. CASE UploadRead(q) \/ UploadCommit(q) \/ RefundRead(q) \/ RefundCommit(q)
               \/ InvoiceRead(q) \/ GatewayIssue(q)
      BY <3>1, AtForms DEF UploadRead, UploadCommit, TurnsDown, RefundRead, RefundCommit,
                           InvoiceRead, GatewayIssue, Answer, Codes
    <3>2. CASE InvoiceCommit(q)
      BY <3>2 DEF InvoiceCommit, Answer, Codes, Free
    <3> QED
      BY <1>3, <3>1, <3>2 DEF Serve
  <2> QED
    BY <1>1, <2>1 DEF till
<1>4. ASSUME NEW r \in Sales, NEW taxed \in BOOLEAN, Finalize(r, taxed), NEW s \in Sales
      PROVE  Stays(s)
  BY <1>4 DEF Finalize, TypeOK
<1>5. ASSUME NEW r \in Sales, RefundAtTill(r), NEW s \in Sales
      PROVE  Stays(s)
  <2>1. sale[s] \in Sale
    BY DEF TypeOK
  <2>2. sale'[s] = sale[s] \/ sale'[s] = [sale[s] EXCEPT !.phase = "refunded"]
    BY <1>5 DEF RefundAtTill, TypeOK
  <2> QED
    BY <2>1, <2>2 DEF Sale
<1>6. ASSUME \/ \E u \in Cashiers : Login(u)
             \/ \E t \in Ticks : StartTick(t)
             \/ \E e \in Entry : BackoffEnds(e)
             \/ \E k \in Callers : Send(k)
             \/ Crash
             \/ UNCHANGED vars
      PROVE  UNCHANGED sale
  BY <1>6 DEF Login, StartTick, BackoffEnds, Send, Crash, till, vars
<1>7. ASSUME NEW s \in Sales
      PROVE  Stays(s)
  <2>1. UNCHANGED sale => Stays(s)
    OBVIOUS
  <2> HIDE DEF Stays
  <2> QED
    BY <1>2, <1>3, <1>4, <1>5, <1>6, <2>1 DEF Next
<1> QED
  BY <1>7, EntryForms DEF Asked

(* A step of the server answers a request, or lets it go on.               *)
LEMMA ServedRequest ==
  ASSUME TypeOK, IssuedAtGateway, NEW q \in Requests, Serve(q)
  PROVE  /\ req[q] # Free
         /\ \A r \in Requests \ {q} : req'[r] = req[r]
         /\ \/ UNCHANGED till /\ req'[q].e = req[q].e
            \/ /\ req'[q] = Free
               /\ \E code \in Codes : Hears(req[q].caller, req[q].e, code)
<1>1. req[q] # Free
  BY Served
<1>2. CASE \E code \in Codes : Answer(q, code)
  BY <1>1, <1>2 DEF Answer, TypeOK
<1>3. ASSUME UNCHANGED till, NEW r, req' = [req EXCEPT ![q] = r], r.e = req[q].e
      PROVE  (\A d \in Requests \ {q} : req'[d] = req[d]) /\ req'[q].e = req[q].e
  BY <1>3 DEF TypeOK
<1>4. /\ [req[q] EXCEPT !.stage = "busy"].e = req[q].e
      /\ [req[q] EXCEPT !.stage = "issued"].e = req[q].e
      /\ [req[q] EXCEPT !.stage = "failed"].e = req[q].e
      /\ \A n : [req[q] EXCEPT !.stage = "busy", !.saw = n].e = req[q].e
  BY <1>1 DEF TypeOK, Request
<1>5. CASE UploadRead(q) \/ RefundRead(q)
  BY <1>1, <1>2, <1>3, <1>4, <1>5 DEF UploadRead, TurnsDown, RefundRead, Codes
<1>6. CASE UploadCommit(q) \/ RefundCommit(q) \/ InvoiceCommit(q)
  BY <1>1, <1>2, <1>6 DEF UploadCommit, TurnsDown, RefundCommit, InvoiceCommit, Codes
<1>7. CASE InvoiceRead(q)
  BY <1>1, <1>2, <1>3, <1>4, <1>7 DEF InvoiceRead, Codes
<1>8. CASE GatewayIssue(q)
  BY <1>1, <1>3, <1>4, <1>8 DEF GatewayIssue
<1> QED
  BY <1>5, <1>6, <1>7, <1>8 DEF Serve

(* A step of the till keeps what it asks for to what was rung up.          *)
LEMMA TillAsks ==
  ASSUME TypeOK, RungFirst, TillActions,
         \A s \in Sales : sale[s].phase # "none" => sale'[s].phase # "none",
         \A e \in Entry : Asked(e) => Asked(e)'
  PROVE  RungFirst'
<1>0. \A s \in Sales : order'[s] # "none" => sale'[s].phase # "none"
  BY TillWrites DEF RungFirst
<1>1. ASSUME NEW s \in Sales, NEW taxed \in BOOLEAN, Finalize(s, taxed)
      PROVE  RungFirst'
  <2>1. sale'[s].phase = "paid"
    BY <1>1 DEF Finalize, TypeOK
  <2>2. Asked(Upload(s))' /\ Asked(Invoice(s))'
    BY <2>1, EntryForms DEF Asked
  <2>3. \A e \in Entry : queue'[e] \in Queued => queue[e] \in Queued \/ e = Upload(s)
    BY <1>1 DEF Finalize, TypeOK
  <2>4. \A k \in Callers : \A e \in todo'[k] :
          e \in todo[k] \/ e \in {Upload(s), Invoice(s)}
    <3>1. \/ todo' = [todo EXCEPT ![Counter] = {Upload(s), Invoice(s)}]
          \/ todo' = [todo EXCEPT ![Counter] = {}]
      BY <1>1 DEF Finalize
    <3> QED
      BY <3>1 DEF TypeOK
  <2>5. UNCHANGED req
    BY <1>1 DEF Finalize
  <2> QED
    BY <1>0, <2>2, <2>3, <2>4, <2>5, RequestType DEF RungFirst, TypeOK
<1>2. ASSUME NEW s \in Sales, RefundAtTill(s)
      PROVE  RungFirst'
  <2>1. sale'[s].phase = "refunded"
    <3>1. sale[s] \in Sale
      BY DEF TypeOK
    <3> QED
      BY <1>2, <3>1 DEF RefundAtTill, TypeOK, Sale
  <2>2. Asked(Refund(s))'
    BY <2>1, EntryForms DEF Asked
  <2>3. \A e \in Entry : queue'[e] \in Queued => queue[e] \in Queued \/ e = Refund(s)
    BY <1>2 DEF RefundAtTill, TypeOK
  <2>4. UNCHANGED <<todo, req>>
    BY <1>2 DEF RefundAtTill
  <2> QED
    BY <1>0, <2>2, <2>3, <2>4, RequestType DEF RungFirst, TypeOK
<1>3. ASSUME NEW t \in Ticks, StartTick(t)
      PROVE  RungFirst'
  <2>1. \A k \in Callers : \A e \in todo'[k] : e \in Entry /\ Asked(e)
    <3>1. \A e \in Entry : queue[e] = "due" => Asked(e)
      BY DEF RungFirst, Queued
    <3>2. todo' = [todo EXCEPT ![t] = {e \in Entry : queue[e] = "due"}]
      BY <1>3 DEF StartTick
    <3> QED
      BY <3>1, <3>2 DEF RungFirst, TypeOK
  <2>2. UNCHANGED <<sale, queue, req>>
    BY <1>3 DEF StartTick
  <2> QED
    BY <1>0, <2>1, <2>2, RequestType DEF RungFirst
<1>4. ASSUME NEW e \in Entry, BackoffEnds(e)
      PROVE  RungFirst'
  <2>1. \A d \in Entry : queue'[d] \in Queued => queue[d] \in Queued
    BY <1>4 DEF BackoffEnds, Queued, TypeOK
  <2>2. UNCHANGED <<todo, req>>
    BY <1>4 DEF BackoffEnds
  <2> QED
    BY <1>0, <2>1, <2>2, RequestType DEF RungFirst, TypeOK
<1>5. ASSUME NEW k \in Callers, Send(k)
      PROVE  RungFirst'
  <2>1. PICK q \in Requests, e \in todo[k] :
          req' = [req EXCEPT ![q] = [stage |-> "sent", e |-> e, by |-> session,
                                     caller |-> k, saw |-> 0]]
    BY <1>5 DEF Send
  <2>2. req'[q].e = e /\ \A r \in Requests \ {q} : req'[r] = req[r]
    BY <2>1 DEF TypeOK
  <2>3. e \in Entry /\ Asked(e)
    BY DEF RungFirst, TypeOK
  <2>4. UNCHANGED <<queue, todo>>
    BY <1>5 DEF Send, till
  <2> QED
    BY <1>0, <2>2, <2>3, <2>4, RequestType DEF RungFirst, TypeOK
<1>6. ASSUME NEW q \in Requests, CallFails(q)
      PROVE  RungFirst'
  <2>1. /\ req[q] # Free
        /\ \A k \in Callers : todo'[k] \subseteq todo[k]
        /\ \A d \in Entry : queue'[d] \in Queued => queue[d] \in Queued \/ d.op = "invoice"
    BY <1>6, SaleHeard DEF CallFails, Codes
  <2>2. /\ \A r \in Requests \ {q} : req'[r] = req[r]
        /\ req'[q] = Free \/ req'[q].e = req[q].e
    <3>1. [req[q] EXCEPT !.caller = Nobody].e = req[q].e
      BY <2>1 DEF TypeOK, Request
    <3>2. \/ req' = [req EXCEPT ![q] = Free]
          \/ req' = [req EXCEPT ![q] = [req[q] EXCEPT !.caller = Nobody]]
      BY <1>6 DEF CallFails
    <3> QED
      BY <3>1, <3>2 DEF TypeOK
  <2>3. \A d \in Entry : d.op = "invoice" => Asked(d)'
    BY DEF Asked
  <2> QED
    BY <1>0, <2>1, <2>2, <2>3, RequestType DEF RungFirst, TypeOK
<1>7. ASSUME Crash
      PROVE  RungFirst'
  <2>1. \A q \in Requests : req[q] # Free => [req[q] EXCEPT !.caller = Nobody].e = req[q].e
    BY DEF TypeOK, Request
  <2>2. \A q \in Requests : req'[q] # Free => req[q] # Free /\ req'[q].e = req[q].e
    BY <1>7, <2>1 DEF Crash
  <2>3. UNCHANGED <<sale, queue>> /\ \A k \in Callers : todo'[k] = {}
    BY <1>7 DEF Crash
  <2> QED
    BY <1>0, <2>2, <2>3, RequestType DEF RungFirst
<1>8. ASSUME NEW u \in Cashiers, Login(u)
      PROVE  RungFirst'
  BY <1>8 DEF Login, till, books, RungFirst, Asked
<1> QED
  BY <1>1, <1>2, <1>3, <1>4, <1>5, <1>6, <1>7, <1>8 DEF TillActions

(* So does a step of the server, which stores an order only for an upload. *)
LEMMA ServerAsks ==
  ASSUME TypeOK, IssuedAtGateway, RungFirst, NEW q \in Requests, Serve(q),
         \A s \in Sales : sale[s].phase # "none" => sale'[s].phase # "none",
         \A e \in Entry : Asked(e) => Asked(e)'
  PROVE  RungFirst'
<1>1. /\ req[q] # Free /\ \A r \in Requests \ {q} : req'[r] = req[r]
      /\ req'[q] = Free \/ req'[q].e = req[q].e
      /\ \A k \in Callers : todo'[k] \subseteq todo[k]
      /\ \A d \in Entry : queue'[d] \in Queued => queue[d] \in Queued \/ d.op = "invoice"
  BY ServedRequest, SaleHeard DEF till
<1>2. \A s \in Sales : order'[s] # "none" => order[s] # "none" \/ req[q].e = Upload(s)
  <2>1. CASE UploadCommit(q) \/ RefundCommit(q)
    <3> PICK s \in Sales : s = req[q].e.s
      BY <2>1, AtForms DEF UploadCommit, RefundCommit
    <3>1. \/ UNCHANGED order
          \/ req[q].e = Upload(s) /\ order' = [order EXCEPT ![s] = "paid"]
          \/ order[s] = "paid" /\ order' = [order EXCEPT ![s] = "refunded"]
      BY <2>1, <1>1, RequestType, EntryForms DEF UploadCommit, RefundCommit, books, At
    <3> QED
      BY <3>1 DEF TypeOK
  <2>2. CASE UploadRead(q) \/ RefundRead(q) \/ InvoiceRead(q) \/ GatewayIssue(q)
             \/ InvoiceCommit(q)
    BY <2>2 DEF UploadRead, RefundRead, InvoiceRead, GatewayIssue, InvoiceCommit, books
  <2> QED
    BY <2>1, <2>2 DEF Serve
<1>3. \A s \in Sales : req[q].e = Upload(s) => sale[s].phase # "none"
  BY <1>1, EntryForms DEF RungFirst, Asked
<1>4. \A d \in Entry : d.op = "invoice" => Asked(d)'
  BY DEF Asked
<1> QED
  BY <1>1, <1>2, <1>3, <1>4, RequestType DEF RungFirst, TypeOK

LEMMA RungFirstStep ==
  TypeOK /\ IssuedAtGateway /\ RungFirst /\ [Next]_vars => RungFirst'
<1>1. RungFirst /\ UNCHANGED vars => RungFirst'
  BY DEF vars, RungFirst, Asked
<1> QED
  BY <1>1, AskedStays, TillAsks, ServerAsks DEF Next, TillActions

LEMMA OnceInit == Init => Once!Init
BY EntryForms DEF Init, Once!Init, Rung, Owed, Known, Queued

(* A sale is rung up, or taken back, at the till; nothing else the till    *)
(* does shows in SaleOnce.                                                 *)
LEMMA OnceTill ==
  ASSUME TypeOK, RungFirst, SyncedIsStored, TillActions
  PROVE  [Once!Next]_(Once!vars)
<1>0. UNCHANGED books
  BY TillWrites DEF books
<1>1. ASSUME NEW s \in Sales, NEW taxed \in BOOLEAN, Finalize(s, taxed)
      PROVE  Once!RingUp(s)
  <2>1. /\ Rung[s] = "none" /\ ~sale[s].synced
        /\ sale'[s].phase = "paid" /\ ~sale'[s].synced
        /\ \A r \in Sales \ {s} : sale'[r] = sale[r]
    <3>1. sale[s].phase = "none"
      BY <1>1 DEF Finalize
    <3>2. ~sale[s].synced
      BY <3>1 DEF RungFirst, SyncedIsStored
    <3> QED
      BY <1>1, <3>1, <3>2 DEF Finalize, Rung, TypeOK
  <2>2. Rung' = [Rung EXCEPT ![s] = "paid"] /\ Known' = Known
    BY <2>1 DEF Rung, Known
  <2>3. Owed' = Owed \cup {s}
    <3>1. \A r \in Sales : Upload(r) \in Entry /\ (Upload(r) = Upload(s) => r = s)
      BY EntryForms
    <3>2. queue' = [queue EXCEPT ![Upload(s)] = "due"]
      BY <1>1 DEF Finalize
    <3> QED
      BY <3>1, <3>2 DEF Owed, Queued, TypeOK
  <2> QED
    BY <1>0, <2>1, <2>2, <2>3 DEF Once!RingUp, books
<1>2. ASSUME NEW s \in Sales, RefundAtTill(s)
      PROVE  Once!TakeBack(s)
  <2>1. \A r \in Sales : sale[r] \in Sale
    BY DEF TypeOK
  <2>2. sale' = [sale EXCEPT ![s] = [sale[s] EXCEPT !.phase = "refunded"]]
    BY <1>2 DEF RefundAtTill
  <2>3. /\ Rung[s] = "paid" /\ sale'[s].phase = "refunded"
        /\ \A r \in Sales \ {s} : sale'[r] = sale[r]
    BY <1>2, <2>1, <2>2 DEF RefundAtTill, Rung, TypeOK, Sale
  <2>4. sale'[s].synced <=> sale[s].synced
    <3>1. sale'[s] = [sale[s] EXCEPT !.phase = "refunded"]
      BY <2>2 DEF TypeOK
    <3> QED
      BY <2>1, <3>1 DEF Sale
  <2>5. Rung' = [Rung EXCEPT ![s] = "refunded"]
    BY <2>3 DEF Rung
  <2>6. Known' = Known
    BY <2>3, <2>4 DEF Known
  <2>7. Owed' = Owed
    <3>1. \A r \in Sales : Upload(r) \in Entry /\ Upload(r) # Refund(s)
      BY EntryForms
    <3> QED
      BY <1>2, <3>1 DEF RefundAtTill, Owed, TypeOK
  <2> QED
    BY <1>0, <2>3, <2>5, <2>6, <2>7 DEF Once!TakeBack, books
<1>3. ASSUME NEW q \in Requests, CallFails(q)
      PROVE  UNCHANGED Once!vars
  <2>1. req[q] # Free /\ Hears(req[q].caller, req[q].e, "error")
    BY <1>3 DEF CallFails
  <2>2. Rung' = Rung /\ Owed' = Owed /\ Known' = Known
    BY <2>1, SaleHeard DEF Codes
  <2> QED
    BY <1>0, <2>2, OnceFrame
<1>4. ASSUME NEW e \in Entry, BackoffEnds(e)
      PROVE  UNCHANGED Once!vars
  <2>1. Owed' = Owed
    <3>1. \A d \in Entry : queue'[d] \in Queued <=> queue[d] \in Queued
      BY <1>4 DEF BackoffEnds, Queued, TypeOK
    <3> QED
      BY <3>1, EntryForms DEF Owed
  <2>2. Rung' = Rung /\ Known' = Known
    BY <1>4 DEF BackoffEnds, Rung, Known
  <2> QED
    BY <1>0, <2>1, <2>2, OnceFrame
<1>5. ASSUME \/ \E u \in Cashiers : Login(u)
             \/ \E t \in Ticks : StartTick(t)
             \/ \E k \in Callers : Send(k)
             \/ Crash
      PROVE  UNCHANGED Once!vars
  <2>1. UNCHANGED <<sale, queue>>
    BY <1>5 DEF Login, StartTick, Send, Crash, till
  <2>2. Rung' = Rung /\ Owed' = Owed /\ Known' = Known
    BY <2>1 DEF Rung, Owed, Known
  <2> QED
    BY <1>0, <2>2, OnceFrame
<1> QED
  BY <1>1, <1>2, <1>3, <1>4, <1>5 DEF TillActions, Once!Next

(* The first upload that commits books the sale, the first refund takes it *)
(* back; an upload answered otherwise is one the server has, or turned     *)
(* down.                                                                   *)
LEMMA OnceServe ==
  ASSUME TypeOK, IssuedAtGateway, RungFirst, NEW q \in Requests, Serve(q)
  PROVE  [Once!Next]_(Once!vars)
<1>0. /\ req[q] # Free /\ req[q].e.s \in Sales /\ req[q].e \in Entry
      /\ req[q].by \in Cashiers
  BY Served, RequestType
<1> PICK s \in Sales : s = req[q].e.s
  BY <1>0
<1>1. ASSUME UNCHANGED till, UNCHANGED books
      PROVE  UNCHANGED Once!vars
  BY <1>1, OnceFrame DEF till, Rung, Owed, Known
<1>2. ASSUME NEW code \in Codes, Answer(q, code), UNCHANGED books,
             req[q].e.op = "upload" => code = "error"
      PROVE  UNCHANGED Once!vars
  <2>1. Rung' = Rung /\ Owed' = Owed /\ Known' = Known
    BY <1>0, <1>2, SaleHeard DEF Answer
  <2> QED
    BY <1>2, <2>1, OnceFrame
(* An upload is for a sale that was rung up, which may be turned down.     *)
<1>a. req[q].e.op = "upload" => Rung[s] # "none"
  BY <1>0 DEF RungFirst, Asked, Rung
<1>b. ASSUME TurnsDown(q), UNCHANGED <<order, taken>>, Rung[s] # "none"
      PROVE  Once!TurnDown(s)
  <2>1. Rung' = Rung /\ (Owed' = Owed \/ Owed' = Owed \ {s})
    BY <1>0, <1>b, SaleHeard DEF TurnsDown, Answer, Codes
  <2>2. Known' = Known
    BY <1>0, <1>b, SaleHeard DEF TurnsDown, Answer, Codes
  <2> QED
    BY <1>b, <2>1, <2>2 DEF TurnsDown, Once!TurnDown
<1>3. CASE UploadRead(q)
  <2>0. UNCHANGED <<order, taken>> /\ Rung[s] # "none"
    BY <1>3, <1>a, AtForms DEF UploadRead
  <2>1. CASE order[s] # "none" /\ Answer(q, "ok") /\ UNCHANGED refused
    <3>1. Rung' = Rung
      BY <1>0, <2>1, SaleHeard DEF Answer, Codes
    <3>2. \/ Owed' = Owed /\ Known' = Known
          \/ Owed' = Owed \ {s} /\ Known' = Known \cup {s}
      BY <1>0, <2>1, SaleHeard DEF Answer, Codes
    <3>3. CASE Owed' = Owed /\ Known' = Known
      BY <2>0, <2>1, <3>1, <3>3, OnceFrame DEF books
    <3>4. CASE Owed' = Owed \ {s} /\ Known' = Known \cup {s}
      <4>1. Once!Learn(s)
        BY <2>0, <2>1, <3>1, <3>4 DEF Once!Learn, Once!Acknowledged
      <4> QED
        BY <4>1 DEF Once!Next
    <3> QED
      BY <3>2, <3>3, <3>4
  <2>2. CASE TurnsDown(q)
    BY <1>b, <2>0, <2>2 DEF Once!Next
  <2>3. CASE UNCHANGED <<till, refused>>
    BY <1>1, <2>0, <2>3 DEF books
  <2> QED
    BY <1>3, <2>1, <2>2, <2>3 DEF UploadRead
<1>4. CASE UploadCommit(q)
  <2>0. Rung[s] # "none"
    BY <1>4, <1>a, AtForms DEF UploadCommit
  <2>1. CASE Answer(q, "error") /\ UNCHANGED books
    BY <1>2, <2>1 DEF Codes
  <2>2. CASE /\ order[s] = "none"
             /\ order' = [order EXCEPT ![s] = "paid"]
             /\ taken' = [taken EXCEPT ![s] = taken[s] + 1]
             /\ Answer(q, "ok") /\ UNCHANGED refused
    <3>1. Rung' = Rung
      BY <1>0, <2>2, SaleHeard DEF Answer, Codes
    <3>2. \/ Owed' = Owed /\ Known' = Known
          \/ Owed' = Owed \ {s} /\ Known' = Known \cup {s}
      BY <1>0, <2>2, SaleHeard DEF Answer, Codes
    <3>3. Once!Book(s)
      BY <2>0, <2>2, <3>1, <3>2 DEF Once!Book, Once!Acknowledged
    <3> QED
      BY <3>3 DEF Once!Next
  <2>3. CASE TurnsDown(q) /\ UNCHANGED <<order, taken>>
    BY <1>b, <2>0, <2>3 DEF Once!Next
  <2> QED
    BY <1>4, <2>1, <2>2, <2>3 DEF UploadCommit
<1>5. CASE RefundCommit(q)
  <2>0. req[q].e.op = "refund"
    BY <1>5, AtForms DEF RefundCommit
  <2>1. CASE order[s] = "refunded" /\ Answer(q, "error") /\ UNCHANGED books
    BY <1>2, <2>1 DEF Codes
  <2>2. CASE /\ order[s] = "paid"
             /\ order' = [order EXCEPT ![s] = "refunded"]
             /\ taken' = [taken EXCEPT ![s] = taken[s] - 1]
             /\ Answer(q, "ok") /\ UNCHANGED refused
    <3>1. Rung' = Rung /\ Owed' = Owed /\ Known' = Known
      BY <1>0, <2>0, <2>2, SaleHeard DEF Answer, Codes
    <3>2. Rung[s] = "refunded"
      BY <1>0, <2>0 DEF RungFirst, Asked, Rung
    <3>3. Once!Unbook(s)
      BY <2>2, <3>1, <3>2 DEF Once!Unbook
    <3> QED
      BY <3>3 DEF Once!Next
  <2> QED
    BY <1>5, <2>1, <2>2 DEF RefundCommit
<1>6. CASE RefundRead(q) \/ InvoiceRead(q) \/ GatewayIssue(q) \/ InvoiceCommit(q)
  <2>1. req[q].e.op # "upload" /\ UNCHANGED books
    BY <1>6, AtForms
    DEF RefundRead, InvoiceRead, GatewayIssue, InvoiceCommit, IssuedAtGateway
  <2>2. UNCHANGED till \/ \E code \in Codes : Answer(q, code)
    BY <1>6 DEF RefundRead, InvoiceRead, GatewayIssue, InvoiceCommit, Codes
  <2> QED
    BY <1>1, <1>2, <2>1, <2>2
<1> QED
  BY <1>3, <1>4, <1>5, <1>6 DEF Serve

(* However uploads and refunds are sent twice, lost, refused or answered   *)
(* late, a sale that was rung up is booked once, taken back once and after *)
(* the till took it back, held for stored only when it is, and owed until  *)
(* then unless the server turned it down: the till and the server          *)
(* implement SaleOnce.                                                     *)
THEOREM SalePromiseKept == Spec => KeepsSalePromise
<1>1. Init => RungFirst /\ Once!Init
  <2>1. Init => RungFirst
    BY DEF Init, RungFirst, Queued
  <2> QED
    BY <2>1, OnceInit
<1>2. SyncInv /\ RungFirst /\ [Next]_vars => RungFirst'
  BY RungFirstStep DEF SyncInv, InvoiceInv
<1>3. SyncInv /\ RungFirst /\ [Next]_vars => [Once!Next]_(Once!vars)
  <2>1. UNCHANGED vars => UNCHANGED Once!vars
    BY DEF vars, Once!vars, Rung, Owed, Known
  <2>2. SyncInv /\ RungFirst /\ Next => [Once!Next]_(Once!vars)
    BY OnceTill, OnceServe DEF Next, TillActions, SyncInv, InvoiceInv
  <2> QED
    BY <2>1, <2>2
<1> QED
  BY <1>1, <1>2, <1>3, SyncAlways, PTL DEF Spec, KeepsSalePromise, Once!Spec

=============================================================================
