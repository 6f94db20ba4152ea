---------------------- MODULE BookstoreCheckoutProofs ----------------------
(***************************************************************************)
(* What BookstoreCheckout guarantees for any number of checkouts, books,   *)
(* customers and concurrent requests.                                      *)
(***************************************************************************)
EXTENDS BookstoreCheckout, FiniteSetTheorems, TLAPS

---------------------------------------------------------------------------
(* Counting copies.                                                        *)

(* The copies a set of checkouts asks for are finitely many.               *)
LEMMA DemandType ==
  ASSUME NEW S \in SUBSET Checkouts, NEW p \in Products
  PROVE  IsFiniteSet(Units(S, p)) /\ Demand(S, p) \in Nat
<1>1. IsFiniteSet(S)
  BY CheckoutsFinite, FS_Subset
<1>2. IsFiniteSet(1..MaxQty)
  BY MaxQtyType, FS_Interval
<1>3. IsFiniteSet(S \X (1..MaxQty))
  BY <1>1, <1>2, FS_Product
<1>4. Units(S, p) \in SUBSET (S \X (1..MaxQty))
  BY DEF Units
<1>5. IsFiniteSet(Units(S, p))
  BY <1>3, <1>4, FS_Subset
<1> QED
  BY <1>5, FS_CardinalityType DEF Demand

(* No checkout, no copies.                                                 *)
LEMMA DemandEmpty ==
  ASSUME NEW p \in Products
  PROVE  Demand({}, p) = 0
<1>1. Units({}, p) = {}
  BY DEF Units
<1> QED
  BY <1>1, FS_EmptySet DEF Demand

(* Disjoint sets of checkouts ask for the sum of their copies.             *)
LEMMA DemandUnion ==
  ASSUME NEW S \in SUBSET Checkouts, NEW T \in SUBSET Checkouts,
         S \cap T = {}, NEW p \in Products
  PROVE  Demand(S \cup T, p) = Demand(S, p) + Demand(T, p)
<1>1. Units(S \cup T, p) = Units(S, p) \cup Units(T, p)
  BY DEF Units
<1>2. Units(S, p) \cap Units(T, p) = {}
  BY DEF Units
<1>3. Cardinality(Units(S, p) \cup Units(T, p)) =
        Demand(S, p) + Demand(T, p) - Cardinality({})
  BY <1>2, DemandType, FS_Union DEF Demand
<1>4. Demand(S \cup T, p) = Cardinality(Units(S, p) \cup Units(T, p))
  BY <1>1 DEF Demand
<1>5. Demand(S, p) \in Nat /\ Demand(T, p) \in Nat
  BY DemandType
<1>6. Cardinality({}) = 0
  BY FS_EmptySet
<1> QED
  BY <1>3, <1>4, <1>5, <1>6

(* Leaving out some checkouts leaves out their copies.                     *)
LEMMA DemandMinus ==
  ASSUME NEW T \in SUBSET Checkouts, NEW S \in SUBSET T, NEW p \in Products
  PROVE  Demand(T \ S, p) = Demand(T, p) - Demand(S, p)
<1>1. T = (T \ S) \cup S /\ (T \ S) \cap S = {}
  OBVIOUS
<1>2. Demand((T \ S) \cup S, p) = Demand(T \ S, p) + Demand(S, p)
  BY <1>1, DemandUnion
<1> QED
  BY <1>1, <1>2, DemandType

(* One checkout asks for the quantities of its lines.                      *)
LEMMA DemandOne ==
  ASSUME NEW c \in Checkouts, NEW p \in Products
  PROVE  Demand({c}, p) = Qty[c][p]
<1>1. Qty[c][p] \in 0..MaxQty
  BY QtyType
<1>2. Units({c}, p) = {c} \X (1..Qty[c][p])
  BY <1>1, MaxQtyType DEF Units
<1>3. IsFiniteSet({c}) /\ Cardinality({c}) = 1
  BY FS_Singleton
<1>4. /\ IsFiniteSet(1..Qty[c][p])
      /\ Cardinality(1..Qty[c][p]) = Qty[c][p]
  <2> DEFINE n == Qty[c][p]
  <2>1. n \in Int /\ n >= 0
    BY <1>1, MaxQtyType
  <2> HIDE DEF n
  <2>2. Cardinality(1..n) = IF 1 > n THEN 0 ELSE n - 1 + 1
    BY <2>1, FS_Interval
  <2>3. IsFiniteSet(1..n)
    BY <2>1, FS_Interval
  <2>4. Cardinality(1..n) = n
    BY <2>1, <2>2
  <2> QED
    BY <2>3, <2>4 DEF n
<1>5. Cardinality({c} \X (1..Qty[c][p])) = Qty[c][p]
  <2> DEFINE A == {c}
             B == 1..Qty[c][p]
  <2>1. IsFiniteSet(A) /\ IsFiniteSet(B)
    BY <1>3, <1>4
  <2>2. Cardinality(A) = 1 /\ Cardinality(B) = Qty[c][p]
    BY <1>3, <1>4
  <2>3. Qty[c][p] \in Nat
    BY <1>1, MaxQtyType
  <2> HIDE DEF A, B
  <2>4. Cardinality(A \X B) = Cardinality(A) * Cardinality(B)
    BY <2>1, FS_Product
  <2>5. Cardinality(A \X B) = Qty[c][p]
    BY <2>2, <2>3, <2>4
  <2> QED
    BY <2>5 DEF A, B
<1>6. Demand({c}, p) = Cardinality({c} \X (1..Qty[c][p]))
  BY <1>2 DEF Demand
<1> QED
  BY <1>1, <1>5, <1>6

---------------------------------------------------------------------------
(* The type invariant.                                                     *)

LEMMA NewRowType ==
  ASSUME NEW s \in Statuses
  PROVE  NewRow(s) \in Row
BY LimitsType DEF NewRow, Row, Totals

LEMMA FloorType ==
  ASSUME NEW n \in Int
  PROVE  Floor0(n) \in Nat
BY DEF Floor0

LEMMA UnreserveType ==
  ASSUME TypeOK, NEW S \in SUBSET Checkouts, Unreserve(S)
  PROVE  reserved' \in [Products -> Nat]
<1>1. \A p \in Products : reserved[p] - Demand(S, p) \in Int
  BY DemandType DEF TypeOK
<1> QED
  BY <1>1, FloorType DEF Unreserve

LEMMA ClosePendingType ==
  ASSUME TypeOK, NEW S \in SUBSET Checkouts, NEW s \in Statuses,
         ClosePending(S, s)
  PROVE  row' \in [Checkouts -> Row] /\ reserved' \in [Products -> Nat]
<1> DEFINE closed == {c \in S : row[c].status = "pending" /\ row[c].active}
<1>1. \A c \in Checkouts : [row[c] EXCEPT !.status = s, !.active = FALSE] \in Row
  BY DEF TypeOK, Row
<1>2. row' \in [Checkouts -> Row]
  BY <1>1 DEF ClosePending, TypeOK
<1>3. closed \in SUBSET Checkouts /\ Unreserve(closed)
  BY DEF ClosePending
<1>4. reserved' \in [Products -> Nat]
  BY <1>3, UnreserveType
<1> QED
  BY <1>2, <1>4

LEMMA MarkPaidType ==
  ASSUME TypeOK, NEW c \in Checkouts, NEW from,
         NEW gate \in {"cash", "ecpay"}, NEW ref \in 0..MaxAttempts,
         MarkPaid(c, from, gate, ref)
  PROVE  TypeOK'
<1>1. row' \in [Checkouts -> Row]
  <2>1. row[c] \in Row
    BY DEF TypeOK
  <2>2. [row[c] EXCEPT !.status = "paid",
                       !.active = FALSE,
                       !.late = ~row[c].active,
                       !.gate = gate,
                       !.ref = ref,
                       !.pass = IF gate = "cash" THEN @ ELSE "live",
                       !.verified = IF gate = "cash" THEN TRUE ELSE @] \in Row
    BY <2>1 DEF Row, Statuses
  <2> QED
    BY <2>2 DEF MarkPaid, TypeOK
<1>2. orders' \in [Checkouts -> Nat]
  BY DEF MarkPaid, TypeOK
<1>3. reserved' \in [Products -> Nat]
  BY UnreserveType DEF MarkPaid
<1>4. onHand' \in [Products -> Int]
  BY DemandType DEF MarkPaid, TypeOK
<1> QED
  BY <1>1, <1>2, <1>3, <1>4 DEF MarkPaid, TypeOK, gateway

(* A job in progress names a checkout, and a page job an attempt that is   *)
(* still allowed.                                                          *)
LEMMA JobType ==
  ASSUME TypeOK, NEW w \in Workers, job[w].op # "idle"
  PROVE  /\ job[w].c \in Checkouts
         /\ job[w].op = "page" => /\ job[w].attempts + 1 \in 1..MaxAttempts
                                 /\ job[w].total \in Totals
<1>1. job[w] \in Job
  BY DEF TypeOK
<1>2. job[w] # Idle
  BY DEF Idle
<1> QED
  BY <1>1, <1>2, LimitsType DEF Job

LEMMA TypeInit == Init => TypeOK
<1> SUFFICES ASSUME Init PROVE TypeOK
  OBVIOUS
<1>1. NewRow("none") \in Row
  BY NewRowType DEF Statuses
<1>2. onHand \in [Products -> Int]
  BY StockType DEF Init
<1> QED
  BY <1>1, <1>2 DEF Init, TypeOK, Job

LEMMA TypeStep == TypeOK /\ [Next]_vars => TypeOK'
<1> SUFFICES ASSUME TypeOK, [Next]_vars PROVE TypeOK'
  OBVIOUS
<1>1. CASE UNCHANGED vars
  BY <1>1 DEF TypeOK, vars
<1>2. ASSUME NEW w \in Workers, NEW c \in Checkouts, CreateRead(w, c)
      PROVE  TypeOK'
  <2>1. row' \in [Checkouts -> Row] /\ reserved' \in [Products -> Nat]
    BY <1>2, ClosePendingType DEF CreateRead, Lapsed, With, Statuses
  <2>2. job' \in [Workers -> Job]
    BY <1>2 DEF CreateRead, TypeOK, Job
  <2> QED
    BY <1>2, <2>1, <2>2 DEF CreateRead, TypeOK, gateway
<1>3. ASSUME NEW w \in Workers, CreateCommit(w)
      PROVE  TypeOK'
  <2> DEFINE c == job[w].c
  <2>1. c \in Checkouts
    BY <1>3, JobType DEF CreateCommit
  <2>2. NewRow("pending") \in Row
    BY NewRowType DEF Statuses
  <2>3. reserved' \in [Products -> Nat]
    BY <1>3, <2>1, DemandType DEF CreateCommit, TypeOK
  <2> QED
    BY <1>3, <2>1, <2>2, <2>3 DEF CreateCommit, TypeOK, gateway, Job
<1>4. ASSUME NEW w \in Workers, CreateFail(w)
      PROVE  TypeOK'
  BY <1>4 DEF CreateFail, TypeOK, stock, gateway, Job
<1>5. ASSUME NEW w \in Workers, PageCommit(w)
      PROVE  TypeOK'
  <2> DEFINE c == job[w].c
             n == job[w].attempts + 1
  <2>1. c \in Checkouts /\ n \in 1..MaxAttempts /\ job[w].total \in Totals
    BY <1>5, JobType DEF PageCommit
  <2>2. row' \in [Checkouts -> Row]
    <3>1. \A d \in Checkouts, m \in 0..MaxAttempts :
            [row[d] EXCEPT !.attempts = m] \in Row
      BY DEF TypeOK, Row
    <3>2. n \in 0..MaxAttempts
      BY <2>1, LimitsType
    <3> QED
      BY <1>5, <2>1, <3>1, <3>2 DEF PageCommit, TypeOK
  <2>3. [c |-> c, no |-> n, amount |-> job[w].total] \in Form
    BY <2>1 DEF Form
  <2>4. forms' \subseteq Form
    BY <1>5, <2>3 DEF PageCommit, TypeOK
  <2> QED
    BY <1>5, <2>2, <2>4 DEF PageCommit, TypeOK, stock, Job
<1>6. ASSUME NEW w \in Workers, ExitCommit(w)
      PROVE  TypeOK'
  <2> DEFINE c == job[w].c
  <2>1. c \in Checkouts
    BY <1>6, JobType DEF ExitCommit
  <2>2. \A d \in Checkouts : [row[d] EXCEPT !.verified = TRUE] \in Row
    BY DEF TypeOK, Row
  <2> QED
    BY <1>6, <2>1, <2>2 DEF ExitCommit, TypeOK, stock, gateway, Job
<1>7. ASSUME NEW w \in Workers, NEW c \in Checkouts, PageRead(w, c)
      PROVE  TypeOK'
  <2>1. row[c].attempts \in 0..(MaxAttempts - 1) /\ row[c].total \in Totals
    <3>1. row[c] \in Row
      BY DEF TypeOK
    <3> QED
      BY <1>7, <3>1, LimitsType DEF PageRead, Row
  <2> QED
    BY <1>7, <2>1 DEF PageRead, TypeOK, stock, gateway, Job
<1>8. ASSUME NEW w \in Workers, NEW c \in Checkouts, ExitRead(w, c)
      PROVE  TypeOK'
  BY <1>8 DEF ExitRead, TypeOK, stock, gateway, Job
<1>9. ASSUME NEW c \in Checkouts, Cancel(c)
      PROVE  TypeOK'
  <2>1. row' \in [Checkouts -> Row] /\ reserved' \in [Products -> Nat]
    BY <1>9, ClosePendingType DEF Cancel, Statuses
  <2> QED
    BY <1>9, <2>1 DEF Cancel, TypeOK, gateway
<1>10. ASSUME NEW c \in Checkouts,
              \/ Lapse(c) \/ SelectCash(c) \/ PassLapse(c) \/ RotateExitPass(c)
       PROVE  TypeOK'
  <2>1. row[c] \in Row
    BY DEF TypeOK
  <2>2. /\ [row[c] EXCEPT !.lapsed = TRUE] \in Row
        /\ [row[c] EXCEPT !.cash = TRUE, !.total = CashTotal] \in Row
        /\ [row[c] EXCEPT !.pass = "lapsed"] \in Row
        /\ [row[c] EXCEPT !.pass = "live"] \in Row
    BY <2>1 DEF Row, Totals
  <2>3. row' \in [Checkouts -> Row]
    BY <1>10, <2>2
    DEF Lapse, SelectCash, PassLapse, RotateExitPass, TypeOK
  <2> QED
    BY <1>10, <2>3
    DEF Lapse, SelectCash, PassLapse, RotateExitPass, TypeOK, stock, gateway
<1>11. ASSUME NEW c \in Checkouts, ConfirmCash(c)
       PROVE  TypeOK'
  BY <1>11, MarkPaidType, LimitsType DEF ConfirmCash
<1>12. ASSUME NEW c \in Checkouts, Refund(c)
       PROVE  TypeOK'
  <2>1. [row[c] EXCEPT !.status = "refunded"] \in Row
    BY DEF TypeOK, Row, Statuses
  <2>2. onHand' \in [Products -> Int]
    BY <1>12, DemandType DEF Refund, TypeOK
  <2> QED
    BY <1>12, <2>1, <2>2 DEF Refund, TypeOK, gateway
<1>13. ASSUME NEW f \in forms, Capture(f)
       PROVE  TypeOK'
  BY <1>13 DEF Capture, TypeOK, stock
<1>14. ASSUME NEW f \in captured, Notify(f)
       PROVE  TypeOK'
  <2>1. f.c \in Checkouts /\ f.no \in 0..MaxAttempts
    BY LimitsType DEF TypeOK, Form
  <2> QED
    BY <1>14, <2>1, MarkPaidType DEF Notify
<1> QED
  BY <1>1, <1>2, <1>3, <1>4, <1>5, <1>6, <1>7, <1>8, <1>9, <1>10, <1>11,
     <1>12, <1>13, <1>14
  DEF Next, Step

(* Every reachable state is well typed: in particular reserved never goes  *)
(* below zero and no trade number passes MAX_PAYMENT_ATTEMPTS.             *)
THEOREM TypeCorrect == Spec => []TypeOK
BY TypeInit, TypeStep, PTL DEF Spec

---------------------------------------------------------------------------
(* The books: reservations, stock and orders agree with the checkouts.     *)
(* The strengthening ties the columns of a row to its status.              *)

ActiveIsPending ==
  \A c \in Checkouts : row[c].active <=> row[c].status = "pending"

SettledHasGate ==
  \A c \in Checkouts :
    row[c].gate # "none" <=> row[c].status \in {"paid", "refunded"}

LateIsSettled ==
  \A c \in Checkouts : row[c].late => row[c].status \in {"paid", "refunded"}

RowsAgree == ActiveIsPending /\ SettledHasGate /\ LateIsSettled

Books ==
  /\ RowsAgree
  /\ ReservedMatchesHolds
  /\ StockLedger
  /\ OversoldOnlyByLatePayment
  /\ OneOrderPerSettledCheckout

(* The columns the books depend on, and nothing else, decide them.         *)
LEMMA BooksFrame ==
  ASSUME TypeOK, TypeOK', Books, UNCHANGED <<orders, stock>>,
         \A c \in Checkouts : /\ row'[c].status = row[c].status
                              /\ row'[c].active = row[c].active
                              /\ row'[c].late = row[c].late
                              /\ row'[c].gate = row[c].gate
  PROVE  Books'
<1>1. /\ Holding' = Holding
      /\ With("paid")' = With("paid")
      /\ LatePaid' = LatePaid
  BY DEF Holding, With, LatePaid
<1>2. RowsAgree'
  BY DEF Books, RowsAgree, ActiveIsPending, SettledHasGate, LateIsSettled
<1>3. ReservedMatchesHolds'
  BY <1>1 DEF Books, ReservedMatchesHolds, stock
<1>4. StockLedger'
  BY <1>1 DEF Books, StockLedger, stock
<1>5. OversoldOnlyByLatePayment'
  BY <1>1 DEF Books, OversoldOnlyByLatePayment, stock
<1>6. OneOrderPerSettledCheckout'
  BY DEF Books, OneOrderPerSettledCheckout
<1> QED
  BY <1>2, <1>3, <1>4, <1>5, <1>6 DEF Books

(* A release never meets the floor at zero: what is released was reserved. *)
LEMMA UnreserveHeld ==
  ASSUME TypeOK, ReservedMatchesHolds, NEW S \in SUBSET Holding, Unreserve(S)
  PROVE  \A p \in Products : /\ reserved'[p] = reserved[p] - Demand(S, p)
                             /\ reserved'[p] = Demand(Holding \ S, p)
<1> SUFFICES ASSUME NEW p \in Products
             PROVE  /\ reserved'[p] = reserved[p] - Demand(S, p)
                    /\ reserved'[p] = Demand(Holding \ S, p)
  OBVIOUS
<1>1. Holding \in SUBSET Checkouts
  BY DEF Holding
<1>2. Demand(Holding \ S, p) = reserved[p] - Demand(S, p)
  BY <1>1, DemandMinus DEF ReservedMatchesHolds
<1>3. Demand(Holding \ S, p) \in Nat
  BY <1>1, DemandType
<1>4. reserved'[p] = Floor0(reserved[p] - Demand(S, p))
  BY DEF Unreserve
<1> QED
  BY <1>2, <1>3, <1>4 DEF Floor0

LEMMA ClosePendingBooks ==
  ASSUME TypeOK, TypeOK', Books, NEW S \in SUBSET Checkouts,
         NEW s \in {"expired", "cancelled"}, ClosePending(S, s),
         UNCHANGED <<orders, onHand>>
  PROVE  Books'
<1> DEFINE closed == {c \in S : row[c].status = "pending" /\ row[c].active}
<1>1. /\ closed \in SUBSET Holding
      /\ Unreserve(closed)
  BY DEF ClosePending, Holding
<1>2. \A c \in Checkouts :
        /\ row'[c].status = IF c \in closed THEN s ELSE row[c].status
        /\ row'[c].active = IF c \in closed THEN FALSE ELSE row[c].active
        /\ row'[c].late = row[c].late
        /\ row'[c].gate = row[c].gate
  BY DEF ClosePending, TypeOK, Row
<1>3. Holding' = Holding \ closed
  BY <1>2 DEF Holding
<1>4. With("paid")' = With("paid") /\ LatePaid' = LatePaid
  BY <1>2 DEF With, LatePaid
<1>5. \A p \in Products :
        /\ reserved'[p] = reserved[p] - Demand(closed, p)
        /\ reserved'[p] = Demand(Holding \ closed, p)
        /\ Demand(closed, p) \in Nat
  BY <1>1, UnreserveHeld, DemandType DEF Books, Holding
<1> HIDE DEF closed
<1>6. RowsAgree'
  <2>1. \A c \in Checkouts : c \in closed => row[c].status = "pending"
    BY DEF closed
  <2>2. ActiveIsPending'
    BY <1>2, <2>1 DEF Books, RowsAgree, ActiveIsPending
  <2>3. SettledHasGate'
    BY <1>2, <2>1 DEF Books, RowsAgree, SettledHasGate
  <2>4. LateIsSettled'
    BY <1>2, <2>1 DEF Books, RowsAgree, LateIsSettled
  <2> QED
    BY <2>2, <2>3, <2>4 DEF RowsAgree
<1>7. ReservedMatchesHolds'
  BY <1>3, <1>5 DEF ReservedMatchesHolds
<1>8. StockLedger'
  BY <1>4 DEF Books, StockLedger
<1>9. OversoldOnlyByLatePayment'
  <2> SUFFICES ASSUME NEW p \in Products
               PROVE  onHand[p] - reserved'[p] + Demand(LatePaid, p) >= 0
    BY <1>4 DEF OversoldOnlyByLatePayment
  <2>1. onHand[p] - reserved[p] + Demand(LatePaid, p) >= 0
    BY DEF Books, OversoldOnlyByLatePayment
  <2>2. onHand[p] \in Int /\ reserved[p] \in Int /\ Demand(LatePaid, p) \in Nat
    BY DemandType DEF TypeOK, LatePaid, With
  <2> QED
    BY <1>5, <2>1, <2>2
<1>10. OneOrderPerSettledCheckout'
  <2>1. \A c \in Checkouts : c \in closed => row[c].status = "pending"
    BY DEF closed
  <2> QED
    BY <1>2, <2>1 DEF Books, OneOrderPerSettledCheckout
<1> QED
  BY <1>6, <1>7, <1>8, <1>9, <1>10 DEF Books

LEMMA CreateBooks ==
  ASSUME TypeOK, TypeOK', Books, NEW w \in Workers, CreateCommit(w)
  PROVE  Books'
<1> DEFINE c == job[w].c
<1>1. c \in Checkouts
  BY JobType DEF CreateCommit
<1>2. /\ \A d \in Checkouts \ {c} : row'[d] = row[d]
      /\ row'[c].status = "pending"
      /\ row'[c].active
      /\ ~row'[c].late
      /\ row'[c].gate = "none"
  BY <1>1 DEF CreateCommit, TypeOK, NewRow
<1>3. row[c].status = "none" /\ onHand' = onHand /\ orders' = orders
  BY DEF CreateCommit
<1>4. \A p \in Products : /\ onHand[p] - reserved[p] >= Demand({c}, p)
                          /\ reserved'[p] = reserved[p] + Demand({c}, p)
  BY DEF CreateCommit
<1> HIDE DEF c
<1>5. ~row[c].active /\ ~row[c].late /\ row[c].gate = "none"
  BY <1>1, <1>3
  DEF Books, RowsAgree, ActiveIsPending, SettledHasGate, LateIsSettled
<1>6. Holding' = Holding \cup {c} /\ Holding \cap {c} = {}
  BY <1>1, <1>2, <1>5 DEF Holding
<1>7. With("paid")' = With("paid") /\ LatePaid' = LatePaid
  BY <1>1, <1>2, <1>3 DEF With, LatePaid
<1>8. RowsAgree'
  <2>1. ActiveIsPending'
    BY <1>1, <1>2 DEF Books, RowsAgree, ActiveIsPending
  <2>2. SettledHasGate'
    BY <1>2 DEF Books, RowsAgree, SettledHasGate
  <2>3. LateIsSettled'
    BY <1>2 DEF Books, RowsAgree, LateIsSettled
  <2> QED
    BY <2>1, <2>2, <2>3 DEF RowsAgree
<1>9. ReservedMatchesHolds'
  <2> SUFFICES ASSUME NEW p \in Products
               PROVE  reserved'[p] = Demand(Holding \cup {c}, p)
    BY <1>6 DEF ReservedMatchesHolds
  <2>1. Demand(Holding \cup {c}, p) = Demand(Holding, p) + Demand({c}, p)
    BY <1>1, <1>6, DemandUnion DEF Holding
  <2> QED
    BY <1>4, <2>1 DEF Books, ReservedMatchesHolds
<1>10. StockLedger'
  BY <1>3, <1>7 DEF Books, StockLedger
<1>11. OversoldOnlyByLatePayment'
  <2> SUFFICES ASSUME NEW p \in Products
               PROVE  onHand[p] - reserved'[p] + Demand(LatePaid, p) >= 0
    BY <1>3, <1>7 DEF OversoldOnlyByLatePayment
  <2>1. onHand[p] \in Int /\ reserved[p] \in Int
    BY DEF TypeOK
  <2>2. Demand(LatePaid, p) \in Nat /\ Demand({c}, p) \in Nat
    BY <1>1, DemandType DEF LatePaid, With
  <2> QED
    BY <1>4, <2>1, <2>2
<1>12. OneOrderPerSettledCheckout'
  BY <1>2, <1>3 DEF Books, OneOrderPerSettledCheckout
<1> QED
  BY <1>8, <1>9, <1>10, <1>11, <1>12 DEF Books

LEMMA MarkPaidBooks ==
  ASSUME TypeOK, TypeOK', Books, NEW c \in Checkouts,
         NEW from \in SUBSET {"pending", "expired", "cancelled"},
         NEW gate \in {"cash", "ecpay"}, NEW ref,
         MarkPaid(c, from, gate, ref)
  PROVE  Books'
<1> DEFINE held == IF row[c].active THEN {c} ELSE {}
<1>1. \A d \in Checkouts :
        /\ row'[d].status = IF d = c THEN "paid" ELSE row[d].status
        /\ row'[d].active = IF d = c THEN FALSE ELSE row[d].active
        /\ row'[d].late = IF d = c THEN ~row[c].active ELSE row[d].late
        /\ row'[d].gate = IF d = c THEN gate ELSE row[d].gate
  <2>1. row[c] \in Row /\ row'[c] \in Row
    BY DEF TypeOK
  <2>2. row'[c] = [row[c] EXCEPT !.status = "paid",
                     !.active = FALSE,
                     !.late = ~row[c].active,
                     !.gate = gate,
                     !.ref = ref,
                     !.pass = IF gate = "cash" THEN @ ELSE "live",
                     !.verified = IF gate = "cash" THEN TRUE ELSE @]
    BY DEF MarkPaid, TypeOK
  <2>3. /\ row'[c].status = "paid"
        /\ row'[c].active = FALSE
        /\ row'[c].late = ~row[c].active
        /\ row'[c].gate = gate
    BY <2>1, <2>2 DEF Row
  <2>4. \A d \in Checkouts \ {c} : row'[d] = row[d]
    BY DEF MarkPaid, TypeOK
  <2> QED
    BY <2>3, <2>4
<1>2. /\ row[c].status \in {"pending", "expired", "cancelled"}
      /\ Unreserve(held)
  BY DEF MarkPaid, TypeOK
<1>o. /\ \A d \in Checkouts \ {c} : orders'[d] = orders[d]
      /\ orders'[c] = orders[c] + 1
  BY DEF MarkPaid, TypeOK
<1>h. \A p \in Products : onHand'[p] = onHand[p] - Demand({c}, p)
  BY DEF MarkPaid
<1>3. held \in SUBSET Holding
  BY DEF Holding
<1>4. Holding' = Holding \ held
  BY <1>1 DEF Holding
<1>5. /\ With("paid")' = With("paid") \cup {c}
      /\ With("paid") \cap {c} = {}
  BY <1>1, <1>2 DEF With
<1>6. /\ row[c].active => LatePaid' = LatePaid
      /\ ~row[c].active => LatePaid' = LatePaid \cup {c}
      /\ LatePaid \cap {c} = {}
  BY <1>1, <1>2 DEF With, LatePaid
<1>7. \A p \in Products :
        /\ reserved'[p] = reserved[p] - Demand(held, p)
        /\ reserved'[p] = Demand(Holding \ held, p)
  BY <1>2, <1>3, UnreserveHeld DEF Books
<1> HIDE DEF held
<1>8. RowsAgree'
  <2>1. ActiveIsPending'
    BY <1>1 DEF Books, RowsAgree, ActiveIsPending
  <2>2. SettledHasGate'
    BY <1>1 DEF Books, RowsAgree, SettledHasGate
  <2>3. LateIsSettled'
    BY <1>1 DEF Books, RowsAgree, LateIsSettled
  <2> QED
    BY <2>1, <2>2, <2>3 DEF RowsAgree
<1>9. ReservedMatchesHolds'
  BY <1>4, <1>7 DEF ReservedMatchesHolds
<1>10. StockLedger'
  <2> SUFFICES ASSUME NEW p \in Products
               PROVE  onHand'[p] = Stock[p] - Demand(With("paid") \cup {c}, p)
    BY <1>5 DEF StockLedger
  <2>1. Demand(With("paid") \cup {c}, p) = Demand(With("paid"), p) + Demand({c}, p)
    BY <1>5, DemandUnion DEF With
  <2>2. Demand(With("paid"), p) \in Nat /\ Demand({c}, p) \in Nat
    BY DemandType DEF With
  <2>3. Stock[p] \in Nat
    BY StockType
  <2> QED
    BY <1>h, <2>1, <2>2, <2>3 DEF Books, StockLedger
<1>11. OversoldOnlyByLatePayment'
  <2> SUFFICES ASSUME NEW p \in Products
               PROVE  onHand'[p] - reserved'[p] + Demand(LatePaid', p) >= 0
    BY DEF OversoldOnlyByLatePayment, Demand, Units
  <2>1. onHand[p] - reserved[p] + Demand(LatePaid, p) >= 0
    BY DEF Books, OversoldOnlyByLatePayment
  <2>2. onHand[p] \in Int /\ reserved[p] \in Int
    BY DEF TypeOK
  <2>3. Demand(LatePaid, p) \in Nat /\ Demand({c}, p) \in Nat
    BY DemandType DEF LatePaid, With
  <2>4. CASE row[c].active
    <3>1. reserved'[p] = reserved[p] - Demand({c}, p)
      BY <1>7, <2>4 DEF held
    <3>2. Demand(LatePaid', p) = Demand(LatePaid, p)
      BY <1>6, <2>4
    <3>3. onHand'[p] = onHand[p] - Demand({c}, p)
      BY <1>h
    <3> QED
      BY <2>1, <2>2, <2>3, <3>1, <3>2, <3>3
  <2>5. CASE ~row[c].active
    <3>1. reserved'[p] = reserved[p] - 0
      BY <1>7, <2>5, DemandEmpty DEF held
    <3>2. Demand(LatePaid \cup {c}, p) = Demand(LatePaid, p) + Demand({c}, p)
      BY <1>6, DemandUnion DEF LatePaid, With
    <3>3. Demand(LatePaid', p) = Demand(LatePaid, p) + Demand({c}, p)
      BY <1>6, <2>5, <3>2
    <3>4. onHand'[p] = onHand[p] - Demand({c}, p)
      BY <1>h
    <3> QED
      BY <2>1, <2>2, <2>3, <3>1, <3>3, <3>4
  <2> QED
    BY <2>4, <2>5
<1>12. OneOrderPerSettledCheckout'
  <2>1. \A d \in Checkouts \ {c} : row'[d].status = row[d].status
    BY <1>1
  <2>2. row'[c].status = "paid" /\ row[c].status \notin {"paid", "refunded"}
    BY <1>1, <1>2
  <2>3. orders'[c] = 1
    BY <1>o, <2>2 DEF Books, OneOrderPerSettledCheckout
  <2> QED
    BY <1>o, <2>1, <2>2, <2>3 DEF Books, OneOrderPerSettledCheckout
<1> QED
  BY <1>8, <1>9, <1>10, <1>11, <1>12 DEF Books

LEMMA RefundBooks ==
  ASSUME TypeOK, TypeOK', Books, NEW c \in Checkouts, Refund(c)
  PROVE  Books'
<1>1. \A d \in Checkouts :
        /\ row'[d].status = IF d = c THEN "refunded" ELSE row[d].status
        /\ row'[d].active = row[d].active
        /\ row'[d].late = row[d].late
        /\ row'[d].gate = row[d].gate
  BY DEF Refund, TypeOK, Row
<1>2. /\ row[c].status = "paid"
      /\ reserved' = reserved
      /\ orders' = orders
      /\ \A p \in Products : onHand'[p] = onHand[p] + Demand({c}, p)
  BY DEF Refund
<1>3. Holding' = Holding
  BY <1>1 DEF Holding
<1>4. /\ With("paid")' = With("paid") \ {c}
      /\ {c} \in SUBSET With("paid")
  BY <1>1, <1>2 DEF With
<1>5. RowsAgree'
  <2>1. ActiveIsPending'
    BY <1>1, <1>2 DEF Books, RowsAgree, ActiveIsPending
  <2>2. SettledHasGate'
    BY <1>1, <1>2 DEF Books, RowsAgree, SettledHasGate
  <2>3. LateIsSettled'
    BY <1>1, <1>2 DEF Books, RowsAgree, LateIsSettled
  <2> QED
    BY <2>1, <2>2, <2>3 DEF RowsAgree
<1>6. ReservedMatchesHolds'
  BY <1>2, <1>3 DEF Books, ReservedMatchesHolds
<1>7. StockLedger'
  <2> SUFFICES ASSUME NEW p \in Products
               PROVE  onHand'[p] = Stock[p] - Demand(With("paid") \ {c}, p)
    BY <1>4 DEF StockLedger
  <2>1. Demand(With("paid") \ {c}, p) = Demand(With("paid"), p) - Demand({c}, p)
    BY <1>4, DemandMinus DEF With
  <2>2. Demand(With("paid"), p) \in Nat /\ Demand({c}, p) \in Nat
    BY DemandType DEF With
  <2>3. Stock[p] \in Nat
    BY StockType
  <2> QED
    BY <1>2, <2>1, <2>2, <2>3 DEF Books, StockLedger
<1>8. OversoldOnlyByLatePayment'
  <2> SUFFICES ASSUME NEW p \in Products
               PROVE  onHand'[p] - reserved[p] + Demand(LatePaid', p) >= 0
    BY <1>2 DEF OversoldOnlyByLatePayment, Demand, Units
  <2>1. onHand[p] - reserved[p] + Demand(LatePaid, p) >= 0
    BY DEF Books, OversoldOnlyByLatePayment
  <2>2. onHand[p] \in Int /\ reserved[p] \in Int
    BY DEF TypeOK
  <2>3. Demand(LatePaid, p) \in Nat /\ Demand({c}, p) \in Nat
    BY DemandType DEF LatePaid, With
  <2>4. CASE row[c].late
    <3>1. LatePaid' = LatePaid \ {c} /\ {c} \in SUBSET LatePaid
      BY <1>1, <1>2, <2>4 DEF LatePaid, With
    <3>2. Demand(LatePaid \ {c}, p) = Demand(LatePaid, p) - Demand({c}, p)
      BY <3>1, DemandMinus DEF LatePaid, With
    <3>3. Demand(LatePaid', p) = Demand(LatePaid, p) - Demand({c}, p)
      BY <3>1, <3>2
    <3>4. onHand'[p] = onHand[p] + Demand({c}, p)
      BY <1>2
    <3> QED
      BY <2>1, <2>2, <2>3, <3>3, <3>4
  <2>5. CASE ~row[c].late
    <3>1. LatePaid' = LatePaid
      BY <1>1, <2>5 DEF LatePaid, With
    <3>2. Demand(LatePaid', p) = Demand(LatePaid, p)
      BY <3>1
    <3> QED
      BY <1>2, <2>1, <2>2, <2>3, <3>2
  <2> QED
    BY <2>4, <2>5
<1>9. OneOrderPerSettledCheckout'
  BY <1>1, <1>2 DEF Books, OneOrderPerSettledCheckout
<1> QED
  BY <1>5, <1>6, <1>7, <1>8, <1>9 DEF Books

LEMMA BooksInit == Init => Books
<1> SUFFICES ASSUME Init PROVE Books
  OBVIOUS
<1>1. \A c \in Checkouts : /\ row[c].status = "none"
                           /\ ~row[c].active
                           /\ ~row[c].late
                           /\ row[c].gate = "none"
  BY DEF Init, NewRow
<1>2. Holding = {} /\ With("paid") = {} /\ LatePaid = {}
  BY <1>1 DEF Holding, With, LatePaid
<1>3. RowsAgree
  BY <1>1 DEF RowsAgree, ActiveIsPending, SettledHasGate, LateIsSettled
<1>4. \A p \in Products : /\ reserved[p] = 0
                          /\ onHand[p] = Stock[p]
                          /\ Stock[p] \in Nat
  BY StockType DEF Init
<1>5. ReservedMatchesHolds
  BY <1>2, <1>4, DemandEmpty DEF ReservedMatchesHolds
<1>6. StockLedger
  BY <1>2, <1>4, DemandEmpty DEF StockLedger
<1>7. OversoldOnlyByLatePayment
  BY <1>2, <1>4, DemandEmpty DEF OversoldOnlyByLatePayment
<1>8. OneOrderPerSettledCheckout
  BY <1>1 DEF Init, OneOrderPerSettledCheckout
<1> QED
  BY <1>3, <1>5, <1>6, <1>7, <1>8 DEF Books

LEMMA BooksStep == TypeOK /\ TypeOK' /\ Books /\ [Next]_vars => Books'
<1> SUFFICES ASSUME TypeOK, TypeOK', Books, [Next]_vars PROVE Books'
  OBVIOUS
<1>1. CASE UNCHANGED vars
  BY <1>1, BooksFrame DEF vars, stock
<1>2. ASSUME NEW w \in Workers, NEW c \in Checkouts, CreateRead(w, c)
      PROVE  Books'
  BY <1>2, ClosePendingBooks DEF CreateRead, Lapsed, With
<1>3. ASSUME NEW w \in Workers, CreateCommit(w)
      PROVE  Books'
  BY <1>3, CreateBooks
<1>4. ASSUME NEW w \in Workers, CreateFail(w)
      PROVE  Books'
  BY <1>4, BooksFrame DEF CreateFail, stock
<1>5. ASSUME NEW w \in Workers, PageCommit(w)
      PROVE  Books'
  BY <1>5, JobType, BooksFrame DEF PageCommit, stock, TypeOK, Row
<1>6. ASSUME NEW w \in Workers, ExitCommit(w)
      PROVE  Books'
  BY <1>6, JobType, BooksFrame DEF ExitCommit, stock, TypeOK, Row
<1>7. ASSUME NEW w \in Workers, NEW c \in Checkouts,
             PageRead(w, c) \/ ExitRead(w, c)
      PROVE  Books'
  BY <1>7, BooksFrame DEF PageRead, ExitRead, stock
<1>8. ASSUME NEW c \in Checkouts, Cancel(c)
      PROVE  Books'
  BY <1>8, ClosePendingBooks DEF Cancel
<1>9. ASSUME NEW c \in Checkouts,
             \/ Lapse(c) \/ SelectCash(c) \/ PassLapse(c) \/ RotateExitPass(c)
      PROVE  Books'
  BY <1>9, BooksFrame
  DEF Lapse, SelectCash, PassLapse, RotateExitPass, stock, TypeOK, Row
<1>10. ASSUME NEW c \in Checkouts, ConfirmCash(c)
       PROVE  Books'
  BY <1>10, MarkPaidBooks DEF ConfirmCash
<1>11. ASSUME NEW c \in Checkouts, Refund(c)
       PROVE  Books'
  BY <1>11, RefundBooks
<1>12. ASSUME NEW f \in forms, Capture(f)
       PROVE  Books'
  BY <1>12, BooksFrame DEF Capture, stock
<1>13. ASSUME NEW f \in captured, Notify(f)
       PROVE  Books'
  <2>1. f.c \in Checkouts
    BY DEF TypeOK, Form
  <2> QED
    BY <1>13, <2>1, MarkPaidBooks DEF Notify
<1> QED
  BY <1>1, <1>2, <1>3, <1>4, <1>5, <1>6, <1>7, <1>8, <1>9, <1>10, <1>11,
     <1>12, <1>13
  DEF Next, Step

(* The books always balance.                                               *)
THEOREM BooksBalance == Spec => []Books
BY TypeInit, TypeStep, BooksInit, BooksStep, PTL DEF Spec

(* Whatever races a cancel, a sweep and a payment run, the reserved column *)
(* is exactly the copies of the checkouts that still hold a reservation.   *)
THEOREM ReservationsExact == Spec => []ReservedMatchesHolds
<1>1. Books => ReservedMatchesHolds
  BY DEF Books
<1> QED
  BY <1>1, BooksBalance, PTL

(* Replayed notifications, two tills or repeated refunds never take or     *)
(* give back stock twice.                                                  *)
THEOREM StockExact == Spec => []StockLedger
<1>1. Books => StockLedger
  BY DEF Books
<1> QED
  BY <1>1, BooksBalance, PTL

(* Two buyers never both take the last copy: only a payment that arrives   *)
(* after its hold was released can oversell.                               *)
THEOREM NoOversell == Spec => []OversoldOnlyByLatePayment
<1>1. Books => OversoldOnlyByLatePayment
  BY DEF Books
<1> QED
  BY <1>1, BooksBalance, PTL

(* A checkout is turned into an order exactly once.                        *)
THEOREM SettlesOnce == Spec => []OneOrderPerSettledCheckout
<1>1. Books => OneOrderPerSettledCheckout
  BY DEF Books
<1> QED
  BY <1>1, BooksBalance, PTL

---------------------------------------------------------------------------
(* Money and the door.                                                     *)

(* Cash at the counter is handed over there, an online sale has a          *)
(* captured form, and a request at the door read a settled checkout.       *)
CashIsHandedOver == \A c \in Checkouts : row[c].gate = "cash" => row[c].verified

DoorReadSettled ==
  \A w \in Workers : job[w].op = "exit" => row[job[w].c].gate # "none"

AdmittedOnce ==
  \A c \in Checkouts :
    admitted[c] <= IF row[c].verified /\ row[c].gate = "ecpay" THEN 1 ELSE 0

Sales ==
  /\ OnlineOrderIsCaptured
  /\ CashIsHandedOver
  /\ DoorReadSettled
  /\ AdmittedOnce

(* A step that leaves the gate, the total and the verification of a        *)
(* settled row alone, takes no capture back and admits nobody.             *)
LEMMA SalesFrame ==
  ASSUME TypeOK, TypeOK', RowsAgree, Sales, UNCHANGED admitted,
         captured \subseteq captured',
         \A w \in Workers : job'[w].op = "exit" => job'[w] = job[w],
         \A c \in Checkouts : /\ row'[c].gate = row[c].gate
                              /\ row'[c].verified = row[c].verified
                              /\ row[c].gate # "none" =>
                                   /\ row'[c].ref = row[c].ref
                                   /\ row'[c].total = row[c].total
  PROVE  Sales'
<1>1. OnlineOrderIsCaptured'
  BY DEF Sales, OnlineOrderIsCaptured
<1>2. CashIsHandedOver'
  BY DEF Sales, CashIsHandedOver
<1>3. DoorReadSettled'
  BY JobType DEF Sales, DoorReadSettled
<1>4. AdmittedOnce'
  BY DEF Sales, AdmittedOnce
<1> QED
  BY <1>1, <1>2, <1>3, <1>4 DEF Sales

LEMMA MarkPaidSales ==
  ASSUME TypeOK, TypeOK', RowsAgree, Sales, NEW c \in Checkouts,
         NEW from \in SUBSET {"pending", "expired", "cancelled"},
         NEW gate \in {"cash", "ecpay"}, NEW ref,
         MarkPaid(c, from, gate, ref),
         gate = "ecpay" => [c |-> c, no |-> ref, amount |-> row[c].total] \in captured
  PROVE  Sales'
<1>1. /\ row'[c].gate = gate
      /\ row'[c].ref = ref
      /\ row'[c].total = row[c].total
      /\ row'[c].verified = IF gate = "cash" THEN TRUE ELSE row[c].verified
  <2>1. row[c] \in Row
    BY DEF TypeOK
  <2>2. row'[c] = [row[c] EXCEPT !.status = "paid",
                     !.active = FALSE,
                     !.late = ~row[c].active,
                     !.gate = gate,
                     !.ref = ref,
                     !.pass = IF gate = "cash" THEN @ ELSE "live",
                     !.verified = IF gate = "cash" THEN TRUE ELSE @]
    BY DEF MarkPaid, TypeOK
  <2> QED
    BY <2>1, <2>2 DEF Row
<1>2. /\ \A d \in Checkouts \ {c} : row'[d] = row[d]
      /\ UNCHANGED <<job, captured, admitted>>
  BY DEF MarkPaid, TypeOK, gateway
<1>3. row[c].gate = "none"
  BY DEF MarkPaid, RowsAgree, SettledHasGate
<1>4. OnlineOrderIsCaptured'
  BY <1>1, <1>2 DEF Sales, OnlineOrderIsCaptured
<1>5. CashIsHandedOver'
  BY <1>1, <1>2 DEF Sales, CashIsHandedOver
<1>6. DoorReadSettled'
  <2> SUFFICES ASSUME NEW w \in Workers, job[w].op = "exit"
               PROVE  row'[job[w].c].gate # "none"
    BY <1>2 DEF DoorReadSettled
  <2>1. job[w].c \in Checkouts /\ row[job[w].c].gate # "none"
    BY JobType DEF Sales, DoorReadSettled
  <2> QED
    BY <1>2, <1>3, <2>1
<1>7. AdmittedOnce'
  <2>1. admitted[c] <= 0
    BY <1>3 DEF Sales, AdmittedOnce
  <2>2. admitted'[c] <= IF row'[c].verified /\ row'[c].gate = "ecpay" THEN 1 ELSE 0
    BY <1>2, <2>1 DEF TypeOK
  <2> QED
    BY <1>2, <2>2 DEF Sales, AdmittedOnce
<1> QED
  BY <1>4, <1>5, <1>6, <1>7 DEF Sales

LEMMA ExitCommitSales ==
  ASSUME TypeOK, TypeOK', RowsAgree, Sales, NEW w \in Workers, ExitCommit(w)
  PROVE  Sales'
<1> DEFINE c == job[w].c
<1>1. c \in Checkouts /\ row[c].gate # "none"
  BY JobType DEF ExitCommit, Sales, DoorReadSettled
<1>2. /\ \A d \in Checkouts \ {c} : row'[d] = row[d]
      /\ row'[c] = [row[c] EXCEPT !.verified = TRUE]
      /\ \A d \in Checkouts \ {c} : admitted'[d] = admitted[d]
      /\ admitted'[c] = IF ~row[c].verified THEN admitted[c] + 1 ELSE admitted[c]
      /\ captured' = captured
      /\ job' = [job EXCEPT ![w] = Idle]
  BY <1>1 DEF ExitCommit, TypeOK, gateway
<1> HIDE DEF c
<1>3. /\ row'[c].verified
      /\ row'[c].gate = row[c].gate
      /\ row'[c].ref = row[c].ref
      /\ row'[c].total = row[c].total
  BY <1>1, <1>2 DEF TypeOK, Row
<1>4. OnlineOrderIsCaptured'
  BY <1>2, <1>3 DEF Sales, OnlineOrderIsCaptured
<1>5. CashIsHandedOver'
  BY <1>2, <1>3 DEF Sales, CashIsHandedOver
<1>6. DoorReadSettled'
  <2> SUFFICES ASSUME NEW v \in Workers, job'[v].op = "exit"
               PROVE  row'[job'[v].c].gate # "none"
    BY DEF DoorReadSettled
  <2>1. job'[v] = job[v]
    BY <1>2 DEF TypeOK, Idle
  <2>2. job[v].c \in Checkouts /\ row[job[v].c].gate # "none"
    BY <2>1, JobType DEF Sales, DoorReadSettled
  <2>3. row'[job[v].c].gate # "none"
    BY <1>1, <1>2, <1>3, <2>2
  <2> QED
    BY <2>1, <2>3
<1>7. AdmittedOnce'
  <2>1. admitted'[c] <= IF row'[c].verified /\ row'[c].gate = "ecpay" THEN 1 ELSE 0
    <3>1. admitted[c] \in Nat /\ row[c].gate \in {"cash", "ecpay"}
      BY <1>1 DEF TypeOK, Row
    <3>2. admitted[c] <= IF row[c].verified /\ row[c].gate = "ecpay" THEN 1 ELSE 0
      BY <1>1 DEF Sales, AdmittedOnce
    <3>3. row[c].gate = "cash" => row[c].verified
      BY <1>1 DEF Sales, CashIsHandedOver
    <3> QED
      BY <1>2, <1>3, <3>1, <3>2, <3>3
  <2> QED
    BY <1>2, <2>1 DEF Sales, AdmittedOnce
<1> QED
  BY <1>4, <1>5, <1>6, <1>7 DEF Sales

(* Closing a pending checkout touches its status and its reservation only. *)
LEMMA ClosePendingKeeps ==
  ASSUME TypeOK, NEW S, NEW s, ClosePending(S, s), NEW d \in Checkouts
  PROVE  /\ row'[d].gate = row[d].gate
         /\ row'[d].verified = row[d].verified
         /\ row'[d].ref = row[d].ref
         /\ row'[d].total = row[d].total
         /\ row'[d].late = row[d].late
<1>1. row[d] \in Row
  BY DEF TypeOK
<1>2. row'[d] \in {row[d], [row[d] EXCEPT !.status = s, !.active = FALSE]}
  BY DEF ClosePending
<1> QED
  BY <1>1, <1>2 DEF Row

LEMMA SalesInit == Init => Sales
BY DEF Init, NewRow, Idle, Sales, OnlineOrderIsCaptured, CashIsHandedOver,
       DoorReadSettled, AdmittedOnce

LEMMA SalesStep ==
  TypeOK /\ TypeOK' /\ RowsAgree /\ Sales /\ [Next]_vars => Sales'
<1> SUFFICES ASSUME TypeOK, TypeOK', RowsAgree, Sales, [Next]_vars
             PROVE  Sales'
  OBVIOUS
<1>1. CASE UNCHANGED vars
  BY <1>1, SalesFrame DEF vars
<1>2. ASSUME NEW w \in Workers, NEW c \in Checkouts, CreateRead(w, c)
      PROVE  Sales'
  <2>1. \A d \in Checkouts : /\ row'[d].gate = row[d].gate
                             /\ row'[d].verified = row[d].verified
                             /\ row'[d].ref = row[d].ref
                             /\ row'[d].total = row[d].total
    BY <1>2, ClosePendingKeeps DEF CreateRead
  <2>2. \A v \in Workers : job'[v].op = "exit" => job'[v] = job[v]
    BY <1>2 DEF CreateRead, TypeOK
  <2> QED
    BY <1>2, <2>1, <2>2, SalesFrame DEF CreateRead, gateway
<1>3. ASSUME NEW w \in Workers, CreateCommit(w)
      PROVE  Sales'
  <2> DEFINE c == job[w].c
  <2>1. c \in Checkouts /\ row[c].status = "none"
    BY <1>3, JobType DEF CreateCommit
  <2>2. row[c].gate = "none" /\ admitted[c] = 0
    BY <2>1 DEF RowsAgree, SettledHasGate, Sales, AdmittedOnce, TypeOK
  <2>3. /\ \A d \in Checkouts \ {c} : row'[d] = row[d]
        /\ row'[c].gate = "none" /\ ~row'[c].verified
        /\ UNCHANGED <<captured, admitted>>
        /\ \A v \in Workers : job'[v].op = "exit" => job'[v] = job[v]
    BY <1>3, <2>1 DEF CreateCommit, NewRow, TypeOK, gateway, Idle
  <2> HIDE DEF c
  <2>4. OnlineOrderIsCaptured'
    BY <2>3 DEF Sales, OnlineOrderIsCaptured
  <2>5. CashIsHandedOver'
    BY <2>3 DEF Sales, CashIsHandedOver
  <2>6. DoorReadSettled'
    BY <2>2, <2>3, JobType DEF Sales, DoorReadSettled
  <2>7. AdmittedOnce'
    BY <2>2, <2>3 DEF Sales, AdmittedOnce
  <2> QED
    BY <2>4, <2>5, <2>6, <2>7 DEF Sales
<1>4. ASSUME NEW w \in Workers, CreateFail(w)
      PROVE  Sales'
  <2>1. \A v \in Workers : job'[v].op = "exit" => job'[v] = job[v]
    BY <1>4 DEF CreateFail, TypeOK, Idle
  <2> QED
    BY <1>4, <2>1, SalesFrame DEF CreateFail, gateway
<1>5. ASSUME NEW w \in Workers, PageCommit(w)
      PROVE  Sales'
  <2>1. \A d \in Checkouts : /\ row'[d].gate = row[d].gate
                             /\ row'[d].verified = row[d].verified
                             /\ row'[d].ref = row[d].ref
                             /\ row'[d].total = row[d].total
    BY <1>5 DEF PageCommit, TypeOK, Row
  <2>2. \A v \in Workers : job'[v].op = "exit" => job'[v] = job[v]
    BY <1>5 DEF PageCommit, TypeOK, Idle
  <2> QED
    BY <1>5, <2>1, <2>2, SalesFrame DEF PageCommit
<1>6. ASSUME NEW w \in Workers, ExitCommit(w)
      PROVE  Sales'
  BY <1>6, ExitCommitSales
<1>7. ASSUME NEW w \in Workers, NEW c \in Checkouts, PageRead(w, c)
      PROVE  Sales'
  <2>1. \A v \in Workers : job'[v].op = "exit" => job'[v] = job[v]
    BY <1>7 DEF PageRead, TypeOK
  <2> QED
    BY <1>7, <2>1, SalesFrame DEF PageRead, gateway
<1>8. ASSUME NEW w \in Workers, NEW c \in Checkouts, ExitRead(w, c)
      PROVE  Sales'
  <2>1. row[c].gate # "none"
    BY <1>8 DEF ExitRead, RowsAgree, SettledHasGate
  <2>2. DoorReadSettled'
    BY <1>8, <2>1 DEF ExitRead, Sales, DoorReadSettled, TypeOK
  <2>3. UNCHANGED <<row, captured, admitted>>
    BY <1>8 DEF ExitRead, gateway
  <2> QED
    BY <2>2, <2>3
    DEF Sales, OnlineOrderIsCaptured, CashIsHandedOver, AdmittedOnce
<1>9. ASSUME NEW c \in Checkouts, Cancel(c) \/ Lapse(c) \/ PassLapse(c)
                                    \/ RotateExitPass(c) \/ Refund(c)
      PROVE  Sales'
  <2>1. \A d \in Checkouts : /\ row'[d].gate = row[d].gate
                             /\ row'[d].verified = row[d].verified
                             /\ row'[d].ref = row[d].ref
                             /\ row'[d].total = row[d].total
    BY <1>9, ClosePendingKeeps
    DEF Cancel, Lapse, PassLapse, RotateExitPass, Refund, TypeOK, Row
  <2>2. UNCHANGED <<job, captured, admitted>>
    BY <1>9 DEF Cancel, Lapse, PassLapse, RotateExitPass, Refund, gateway
  <2> QED
    BY <2>1, <2>2, SalesFrame
<1>10. ASSUME NEW c \in Checkouts, SelectCash(c)
       PROVE  Sales'
  <2>1. row[c].gate = "none"
    BY <1>10 DEF SelectCash, RowsAgree, SettledHasGate
  <2>2. \A d \in Checkouts : /\ row'[d].gate = row[d].gate
                             /\ row'[d].verified = row[d].verified
                             /\ row[d].gate # "none" => row'[d] = row[d]
    BY <1>10, <2>1 DEF SelectCash, TypeOK, Row
  <2>3. UNCHANGED <<job, captured, admitted>>
    BY <1>10 DEF SelectCash, gateway
  <2> QED
    BY <2>2, <2>3, SalesFrame
<1>11. ASSUME NEW c \in Checkouts, ConfirmCash(c)
       PROVE  Sales'
  BY <1>11, MarkPaidSales DEF ConfirmCash
<1>12. ASSUME NEW f \in forms, Capture(f)
       PROVE  Sales'
  BY <1>12, SalesFrame DEF Capture
<1>13. ASSUME NEW f \in captured, Notify(f)
       PROVE  Sales'
  <2>1. f.c \in Checkouts /\ f = [c |-> f.c, no |-> f.no, amount |-> f.amount]
    BY DEF TypeOK, Form
  <2> QED
    BY <1>13, <2>1, MarkPaidSales DEF Notify
<1> QED
  BY <1>1, <1>2, <1>3, <1>4, <1>5, <1>6, <1>7, <1>8, <1>9, <1>10, <1>11,
     <1>12, <1>13
  DEF Next, Step

LEMMA SalesHold == Spec => []Sales
<1>1. Books => RowsAgree
  BY DEF Books
<1> QED
  BY <1>1, SalesInit, SalesStep, TypeCorrect, BooksBalance, PTL DEF Spec

(* The order of an online sale is for money the gateway really took.       *)
THEOREM OnlineSalesCaptured == Spec => []OnlineOrderIsCaptured
<1>1. Sales => OnlineOrderIsCaptured
  BY DEF Sales
<1> QED
  BY <1>1, SalesHold, PTL

(* An exit pass lets one customer out, once, however many guards scan it.  *)
THEOREM OneExitPerSale == Spec => []DoorAdmitsOnce
<1>1. TypeOK /\ Sales => DoorAdmitsOnce
  BY DEF TypeOK, Sales, AdmittedOnce, DoorAdmitsOnce
<1> QED
  BY <1>1, TypeCorrect, SalesHold, PTL

---------------------------------------------------------------------------
(* No second payment replaces the one that settled a checkout.             *)
LEMMA FinalStep ==
  TypeOK /\ RowsAgree /\ [Next]_vars =>
    [\A c \in Checkouts : row[c].gate # "none" =>
       row'[c].gate = row[c].gate /\ row'[c].ref = row[c].ref]_vars
<1> SUFFICES ASSUME TypeOK, RowsAgree, Next, NEW d \in Checkouts,
                    row[d].gate # "none"
             PROVE  row'[d].gate = row[d].gate /\ row'[d].ref = row[d].ref
  OBVIOUS
<1>1. row[d].status \in {"paid", "refunded"} /\ row[d] \in Row
  BY DEF RowsAgree, SettledHasGate, TypeOK
<1>2. ASSUME NEW w \in Workers, NEW c \in Checkouts, CreateRead(w, c)
      PROVE  row'[d].gate = row[d].gate /\ row'[d].ref = row[d].ref
  BY <1>2, ClosePendingKeeps DEF CreateRead
<1>3. ASSUME NEW w \in Workers, CreateCommit(w)
      PROVE  row'[d] = row[d]
  BY <1>1, <1>3 DEF CreateCommit, TypeOK
<1>4. ASSUME NEW w \in Workers, PageCommit(w) \/ ExitCommit(w) \/ CreateFail(w)
      PROVE  row'[d].gate = row[d].gate /\ row'[d].ref = row[d].ref
  BY <1>1, <1>4, JobType DEF PageCommit, ExitCommit, CreateFail, TypeOK, Row
<1>5. ASSUME NEW c \in Checkouts, Cancel(c)
      PROVE  row'[d].gate = row[d].gate /\ row'[d].ref = row[d].ref
  BY <1>5, ClosePendingKeeps DEF Cancel
<1>6. ASSUME NEW c \in Checkouts, \/ Lapse(c) \/ SelectCash(c) \/ PassLapse(c)
                                   \/ RotateExitPass(c) \/ Refund(c)
      PROVE  row'[d].gate = row[d].gate /\ row'[d].ref = row[d].ref
  BY <1>1, <1>6
  DEF Lapse, SelectCash, PassLapse, RotateExitPass, Refund, TypeOK, Row
<1>7. ASSUME NEW c \in Checkouts, NEW gate, NEW ref,
             NEW from \in SUBSET {"pending", "expired", "cancelled"},
             MarkPaid(c, from, gate, ref)
      PROVE  row'[d] = row[d]
  <2>1. c # d
    BY <1>1, <1>7 DEF MarkPaid
  <2> QED
    BY <1>7, <2>1 DEF MarkPaid, TypeOK
<1>8. ASSUME NEW c \in Checkouts, ConfirmCash(c)
      PROVE  row'[d] = row[d]
  BY <1>7, <1>8 DEF ConfirmCash
<1>9. ASSUME NEW f \in captured, Notify(f)
      PROVE  row'[d] = row[d]
  <2>1. f.c \in Checkouts
    BY DEF TypeOK, Form
  <2> QED
    BY <1>7, <1>9, <2>1 DEF Notify
<1> QED
  BY <1>2, <1>3, <1>4, <1>5, <1>6, <1>8, <1>9
  DEF Next, Step, PageRead, ExitRead, Capture

(* mark_paid settles a checkout once and for all: whatever is notified,     *)
(* confirmed or refunded later, the gateway and the trade number that       *)
(* settled it stay.                                                         *)
THEOREM SettlementFinal == Spec => SettlementIsFinal
<1>1. Books => RowsAgree
  BY DEF Books
<1> QED
  BY <1>1, FinalStep, TypeCorrect, BooksBalance, PTL DEF Spec, SettlementIsFinal

---------------------------------------------------------------------------
(* The handlers implement StockHold.                                       *)

LEMMA HoldInit == Init => Hold!Init
<1> SUFFICES ASSUME Init PROVE Hold!Init
  OBVIOUS
<1>1. \A c \in Checkouts : row[c].status = "none" /\ ~row[c].late
  BY DEF Init, NewRow
<1>2. Free = Stock
  <2>1. \A p \in Products : onHand[p] - reserved[p] = Stock[p]
    BY StockType DEF Init
  <2> QED
    BY <2>1, StockType DEF Free
<1>3. Fate = [c \in Checkouts |-> "none"]
  BY <1>1 DEF Fate, FateOf
<1>4. Late = {}
  BY <1>1 DEF Late
<1> QED
  BY <1>2, <1>3, <1>4 DEF Hold!Init

(* Steps that move no copies are stutters of StockHold.                    *)
LEMMA HoldFrame ==
  ASSUME UNCHANGED stock,
         \A c \in Checkouts : /\ row'[c].status = row[c].status
                              /\ row'[c].late = row[c].late
  PROVE  UNCHANGED Hold!vars
<1>1. Free' = Free
  BY DEF Free, stock
<1>2. Fate' = Fate /\ Late' = Late
  BY DEF Fate, Late
<1> QED
  BY <1>1, <1>2 DEF Hold!vars

LEMMA HoldClose ==
  ASSUME TypeOK, Books, NEW S \in SUBSET Checkouts,
         NEW s \in {"expired", "cancelled"}, ClosePending(S, s),
         UNCHANGED onHand
  PROVE  [Hold!Next]_(Hold!vars)
<1> DEFINE closed == {c \in S : row[c].status = "pending" /\ row[c].active}
<1>1. closed \in SUBSET Holding /\ closed \in SUBSET Checkouts /\ Unreserve(closed)
  BY DEF ClosePending, Holding
<1>2. \A c \in Checkouts :
        /\ row'[c].status = IF c \in closed THEN s ELSE row[c].status
        /\ row'[c].late = row[c].late
  BY DEF ClosePending, TypeOK, Row
<1>3. \A c \in closed : row[c].status = "pending"
  OBVIOUS
<1>4. \A p \in Products : reserved'[p] = reserved[p] - Demand(closed, p)
  BY <1>1, UnreserveHeld DEF Books
<1> HIDE DEF closed
<1>5. Free' = [p \in Products |-> Free[p] + Demand(closed, p)]
  <2> SUFFICES ASSUME NEW p \in Products
               PROVE  onHand'[p] - reserved'[p]
                        = onHand[p] - reserved[p] + Demand(closed, p)
    BY DEF Free
  <2>1. /\ onHand[p] \in Int /\ reserved[p] \in Int
        /\ Demand(closed, p) \in Nat
    BY <1>1, DemandType DEF TypeOK
  <2> QED
    BY <1>4, <2>1
<1>6. Fate' = [c \in Checkouts |-> IF c \in closed THEN "released" ELSE Fate[c]]
  BY <1>2 DEF Fate, FateOf
<1>7. Late' = Late
  BY <1>2 DEF Late
<1>8. CASE closed = {}
  <2>1. Free' = Free
    <3>1. \A p \in Products : reserved'[p] = reserved[p]
      BY <1>4, <1>8, DemandEmpty DEF TypeOK
    <3> QED
      BY <3>1 DEF Free
  <2>2. Fate' = Fate
    BY <1>6, <1>8 DEF Fate
  <2> QED
    BY <1>7, <2>1, <2>2 DEF Hold!vars
<1>9. CASE closed # {}
  <2>1. closed \subseteq Hold!With("held")
    BY <1>1, <1>3 DEF Hold!With, Fate, FateOf
  <2>2. Hold!Release(closed)
    BY <1>5, <1>6, <1>7, <1>9, <2>1 DEF Hold!Release
  <2> QED
    BY <1>1, <2>2 DEF Hold!Next
<1> QED
  BY <1>8, <1>9

LEMMA HoldCreate ==
  ASSUME TypeOK, Books, NEW w \in Workers, CreateCommit(w)
  PROVE  Hold!Next
<1> DEFINE c == job[w].c
<1>1. c \in Checkouts
  BY JobType DEF CreateCommit
<1>2. /\ row' = [row EXCEPT ![c] = NewRow("pending")]
      /\ row[c].status = "none"
      /\ onHand' = onHand
      /\ \A p \in Products : /\ onHand[p] - reserved[p] >= Demand({c}, p)
                             /\ reserved'[p] = reserved[p] + Demand({c}, p)
  BY DEF CreateCommit
<1> HIDE DEF c
<1>3. /\ row'[c].status = "pending" /\ ~row'[c].late
      /\ \A d \in Checkouts \ {c} : row'[d] = row[d]
  BY <1>1, <1>2 DEF TypeOK, NewRow
<1>4. ~row[c].late
  BY <1>1, <1>2 DEF Books, RowsAgree, LateIsSettled
<1>5. \A p \in Products : Free[p] >= Demand({c}, p)
  BY <1>2 DEF Free
<1>6. Free' = [p \in Products |-> Free[p] - Demand({c}, p)]
  <2> SUFFICES ASSUME NEW p \in Products
               PROVE  onHand'[p] - reserved'[p]
                        = onHand[p] - reserved[p] - Demand({c}, p)
    BY DEF Free
  <2>1. /\ onHand[p] \in Int /\ reserved[p] \in Int
        /\ Demand({c}, p) \in Nat
    BY <1>1, DemandType DEF TypeOK
  <2>2. onHand'[p] = onHand[p]
    BY <1>2
  <2>3. reserved'[p] = reserved[p] + Demand({c}, p)
    BY <1>2
  <2> QED
    BY <2>1, <2>2, <2>3
<1>7. Fate' = [Fate EXCEPT ![c] = "held"] /\ Fate[c] = "none"
  BY <1>1, <1>2, <1>3 DEF Fate, FateOf
<1>8. Late' = Late
  BY <1>3, <1>4 DEF Late
<1>9. Hold!Hold(c)
  BY <1>5, <1>6, <1>7, <1>8 DEF Hold!Hold
<1> QED
  BY <1>1, <1>9 DEF Hold!Next

LEMMA HoldMarkPaid ==
  ASSUME TypeOK, Books, NEW c \in Checkouts,
         NEW from \in SUBSET {"pending", "expired", "cancelled"},
         NEW gate, NEW ref, MarkPaid(c, from, gate, ref)
  PROVE  Hold!Next
<1>1. /\ row'[c].status = "paid"
      /\ row'[c].late <=> ~row[c].active
      /\ \A d \in Checkouts \ {c} : row'[d] = row[d]
  BY DEF MarkPaid, TypeOK, Row
<1>2. row[c].status \in {"pending", "expired", "cancelled"}
  BY DEF MarkPaid
<1>3. ~row[c].late /\ (row[c].active <=> row[c].status = "pending")
  BY <1>2 DEF Books, RowsAgree, LateIsSettled, ActiveIsPending, TypeOK, Row
<1>4. Fate' = [Fate EXCEPT ![c] = "sold"]
  BY <1>1 DEF Fate, FateOf
<1>5. \A p \in Products : onHand'[p] = onHand[p] - Demand({c}, p)
  BY DEF MarkPaid
<1>6. CASE row[c].active
  <2>1. \A p \in Products : reserved'[p] = reserved[p] - Demand({c}, p)
    <3>1. {c} \in SUBSET Holding /\ Unreserve({c})
      BY <1>6 DEF Holding, MarkPaid
    <3> QED
      BY <3>1, UnreserveHeld DEF Books
  <2>2. Free' = Free
    <3> SUFFICES ASSUME NEW p \in Products
                 PROVE  onHand'[p] - reserved'[p] = onHand[p] - reserved[p]
      BY DEF Free
    <3>1. /\ onHand[p] \in Int /\ reserved[p] \in Int
          /\ Demand({c}, p) \in Nat
      BY DemandType DEF TypeOK
    <3>2. /\ onHand'[p] = onHand[p] - Demand({c}, p)
          /\ reserved'[p] = reserved[p] - Demand({c}, p)
      BY <1>5, <2>1
    <3> QED
      BY <3>1, <3>2
  <2>3. Late' = Late
    BY <1>1, <1>3, <1>6 DEF Late
  <2>4. Fate[c] = "held"
    BY <1>3, <1>6 DEF Fate, FateOf
  <2>5. Hold!Sell(c)
    BY <1>4, <2>2, <2>3, <2>4 DEF Hold!Sell
  <2> QED
    BY <2>5 DEF Hold!Next
<1>7. CASE ~row[c].active
  <2>1. \A p \in Products : reserved'[p] = reserved[p]
    <3>1. Unreserve({})
      BY <1>7 DEF MarkPaid
    <3>2. {} \in SUBSET Holding
      OBVIOUS
    <3>3. \A p \in Products : reserved'[p] = reserved[p] - Demand({}, p)
      BY <3>1, <3>2, UnreserveHeld DEF Books
    <3> QED
      BY <3>3, DemandEmpty DEF TypeOK
  <2>2. Free' = [p \in Products |-> Free[p] - Demand({c}, p)]
    <3> SUFFICES ASSUME NEW p \in Products
                 PROVE  onHand'[p] - reserved'[p]
                          = onHand[p] - reserved[p] - Demand({c}, p)
      BY DEF Free
    <3>1. /\ onHand[p] \in Int /\ reserved[p] \in Int
          /\ Demand({c}, p) \in Nat
      BY DemandType DEF TypeOK
    <3>2. onHand'[p] = onHand[p] - Demand({c}, p) /\ reserved'[p] = reserved[p]
      BY <1>5, <2>1
    <3> QED
      BY <3>1, <3>2
  <2>3. Late' = Late \cup {c}
    BY <1>1, <1>7 DEF Late
  <2>4. Fate[c] = "released"
    BY <1>2, <1>3, <1>7 DEF Fate, FateOf
  <2>5. Hold!SellLate(c)
    BY <1>4, <2>2, <2>3, <2>4 DEF Hold!SellLate
  <2> QED
    BY <2>5 DEF Hold!Next
<1> QED
  BY <1>6, <1>7

LEMMA HoldRefund ==
  ASSUME TypeOK, NEW c \in Checkouts, Refund(c)
  PROVE  Hold!Next
<1>1. /\ row[c].status = "paid" /\ row'[c].status = "refunded"
      /\ \A d \in Checkouts : row'[d].late <=> row[d].late
      /\ \A d \in Checkouts \ {c} : row'[d] = row[d]
  BY DEF Refund, TypeOK, Row
<1>2. Fate' = [Fate EXCEPT ![c] = "returned"] /\ Fate[c] = "sold"
  BY <1>1 DEF Fate, FateOf
<1>3. Late' = Late
  BY <1>1 DEF Late
<1>4. Free' = [p \in Products |-> Free[p] + Demand({c}, p)]
  <2> SUFFICES ASSUME NEW p \in Products
               PROVE  onHand'[p] - reserved'[p]
                        = onHand[p] - reserved[p] + Demand({c}, p)
    BY DEF Free
  <2>1. /\ onHand[p] \in Int /\ reserved[p] \in Int
        /\ Demand({c}, p) \in Nat
    BY DemandType DEF TypeOK
  <2>2. onHand'[p] = onHand[p] + Demand({c}, p) /\ reserved'[p] = reserved[p]
    BY DEF Refund
  <2> QED
    BY <2>1, <2>2
<1>5. Hold!Return(c)
  BY <1>2, <1>3, <1>4 DEF Hold!Return
<1> QED
  BY <1>5 DEF Hold!Next

(* Every step of a handler is a step of StockHold or moves no copy.        *)
LEMMA HoldStep ==
  TypeOK /\ Books /\ [Next]_vars => [Hold!Next]_(Hold!vars)
<1> SUFFICES ASSUME TypeOK, Books, [Next]_vars
             PROVE  [Hold!Next]_(Hold!vars)
  OBVIOUS
<1>1. ASSUME NEW w \in Workers, NEW c \in Checkouts, CreateRead(w, c)
      PROVE  [Hold!Next]_(Hold!vars)
  <2>1. Lapsed \in SUBSET Checkouts
    BY DEF Lapsed, With
  <2> QED
    BY <1>1, <2>1, HoldClose DEF CreateRead
<1>2. ASSUME NEW w \in Workers, CreateCommit(w)
      PROVE  Hold!Next
  BY <1>2, HoldCreate
<1>3. ASSUME NEW w \in Workers, PageCommit(w) \/ ExitCommit(w) \/ CreateFail(w)
      PROVE  UNCHANGED Hold!vars
  <2>1. UNCHANGED stock
    BY <1>3 DEF PageCommit, ExitCommit, CreateFail
  <2>2. \A c \in Checkouts : /\ row'[c].status = row[c].status
                            /\ row'[c].late = row[c].late
    BY <1>3, JobType DEF PageCommit, ExitCommit, CreateFail, TypeOK, Row
  <2> QED
    BY <2>1, <2>2, HoldFrame
<1>4. ASSUME NEW c \in Checkouts, Cancel(c)
      PROVE  [Hold!Next]_(Hold!vars)
  BY <1>4, HoldClose DEF Cancel
<1>5. ASSUME NEW c \in Checkouts, \/ Lapse(c) \/ SelectCash(c) \/ PassLapse(c)
                                   \/ RotateExitPass(c)
      PROVE  UNCHANGED Hold!vars
  <2>1. UNCHANGED stock
    BY <1>5 DEF Lapse, SelectCash, PassLapse, RotateExitPass
  <2>2. \A d \in Checkouts : /\ row'[d].status = row[d].status
                            /\ row'[d].late = row[d].late
    BY <1>5 DEF Lapse, SelectCash, PassLapse, RotateExitPass, TypeOK, Row
  <2> QED
    BY <2>1, <2>2, HoldFrame
<1>6. ASSUME NEW c \in Checkouts, ConfirmCash(c)
      PROVE  Hold!Next
  BY <1>6, HoldMarkPaid DEF ConfirmCash
<1>7. ASSUME NEW c \in Checkouts, Refund(c)
      PROVE  Hold!Next
  BY <1>7, HoldRefund
<1>8. ASSUME NEW f \in captured, Notify(f)
      PROVE  Hold!Next
  <2>1. f.c \in Checkouts
    BY DEF TypeOK, Form
  <2> QED
    BY <1>8, <2>1, HoldMarkPaid DEF Notify
<1>9. ASSUME UNCHANGED <<row, stock>>
      PROVE  UNCHANGED Hold!vars
  BY <1>9, HoldFrame
<1> QED
  BY <1>1, <1>2, <1>3, <1>4, <1>5, <1>6, <1>7, <1>8, <1>9
  DEF Next, Step, PageRead, ExitRead, Capture, vars, stock

(* The checkout handlers, for any number of requests, checkouts and books,  *)
(* implement the promise of StockHold: a checkout takes all its copies or   *)
(* none and only while they are free, and gives them back at most once.     *)
THEOREM StockPromiseKept == Spec => KeepsStockPromise
<1>1. Init => Hold!Init
  BY HoldInit
<1>2. TypeOK /\ Books /\ [Next]_vars => [Hold!Next]_(Hold!vars)
  BY HoldStep
<1> QED
  BY <1>1, <1>2, TypeCorrect, BooksBalance, PTL
  DEF Spec, KeepsStockPromise, Hold!Spec

=============================================================================
