------------------------------- MODULE Shifts -------------------------------
(***************************************************************************)
(* A cashier's shifts and the cash of the tills: shift open and close with *)
(* the totals for the Z report (api/v1/shifts.py, models/shift.py), the    *)
(* shift an upload is booked on (upload_order in api/v1/orders.py) and the *)
(* cash that a refund pays out (api/v1/refunds.py).                        *)
(*                                                                         *)
(* A till rings sales up with or without the server and uploads them later *)
(* (PosSync); it opens and closes shifts online, one request at a time.    *)
(* The clock is the count of requests.                                     *)
(***************************************************************************)
EXTENDS Integers, Sequences, FiniteSets, FiniteSetsExt

CONSTANTS
  Orders, Tills, Workers,
  TotalOf,      \* TotalOf[o]: total_cents of order o
  InCash,       \* the orders paid in cash
  Floats,       \* the opening amounts
  MaxRequests,  \* bound on the requests
  None

VARIABLES
  shift,     \* the rows of the shifts, in order of opened_at
  rung,      \* rung[o]: the till that rang o up, or None
  sale,      \* sale[o]: the row of order o at the server, or None
  drawer,    \* drawer[c]: the cash in the drawer of till c
  request,   \* request[w]: what worker w is at
  requests

shiftVars == <<shift, rung, sale, drawer, request, requests>>

---------------------------------------------------------------------------
Shift ==
  [till : Tills, status : {"open", "closed"}, opened : Nat, closed : Nat,
   opening : Nat, expected : Int, diff : Int, sales : Nat]

SaleRow == [till : Tills, shift : Nat, created : Nat, refunded : BOOLEAN]

Idle == [op |-> "none"]

ShiftsTypeOK ==
  /\ shift \in Seq(Shift)
  /\ rung \in [Orders -> Tills \cup {None}]
  /\ sale \in [Orders -> SaleRow \cup {None}]
  /\ drawer \in [Tills -> Nat]
  /\ requests \in 0..MaxRequests

Init ==
  /\ shift = <<>>
  /\ rung = [o \in Orders |-> None]
  /\ sale = [o \in Orders |-> None]
  /\ drawer = [c \in Tills |-> 0]
  /\ request = [w \in Workers |-> Idle]
  /\ requests = 0

---------------------------------------------------------------------------
Begin(w, r) ==
  /\ request[w] = Idle
  /\ requests < MaxRequests
  /\ requests' = requests + 1
  /\ request' = [request EXCEPT ![w] = r]

Done(w) == request' = [request EXCEPT ![w] = Idle] /\ UNCHANGED requests

Doing(w, op) == request[w].op = op

(* The cashier is at the shift page of till c, waiting for the server.     *)
Busy(c) == \E w \in Workers :
  (Doing(w, "open") \/ Doing(w, "close")) /\ request[w].till = c

Newest(shifts) == IF shifts = {} THEN 0 ELSE Max(shifts)

(* _current_open_shift                                                     *)
CurrentOpenShift(c) ==
  Newest({n \in DOMAIN shift : shift[n].status = "open" /\ shift[n].till = c})

InHand(o) == IF o \in InCash THEN TotalOf[o] ELSE 0

---------------------------------------------------------------------------
Ring(c, o) ==
  /\ rung[o] = None /\ ~Busy(c)
  /\ rung' = [rung EXCEPT ![o] = c]
  /\ drawer' = [drawer EXCEPT ![c] = @ + InHand(o)]
  /\ UNCHANGED <<shift, sale, request, requests>>

(* created_at is the time the transaction began.                           *)
Upload(w, o) ==
  /\ rung[o] # None /\ sale[o] = None
  /\ \A v \in Workers : ~(Doing(v, "upload") /\ request[v].of = o)
  /\ Begin(w, [op |-> "upload", of |-> o,
               row |-> [till |-> rung[o], shift |-> CurrentOpenShift(rung[o]),
                        created |-> requests + 1, refunded |-> FALSE]])
  /\ UNCHANGED <<shift, rung, sale, drawer>>

CommitUpload(w) ==
  LET r == request[w]
  IN /\ Doing(w, "upload")
     /\ sale' = [sale EXCEPT ![r.of] = r.row]
     /\ Done(w)
     /\ UNCHANGED <<shift, rung, drawer>>

(* A refund of all of o, in the money it was paid with.                    *)
Refund(w, c, o) ==
  /\ sale[o] # None /\ ~sale[o].refunded /\ ~Busy(c)
  /\ drawer[c] >= InHand(o)
  /\ Begin(w, Idle)
  /\ sale' = [sale EXCEPT ![o].refunded = TRUE]
  /\ drawer' = [drawer EXCEPT ![c] = @ - InHand(o)]
  /\ UNCHANGED <<shift, rung>>

---------------------------------------------------------------------------
(* The drawer starts with the amount the cashier states; a shift that is   *)
(* open already is kept as it is.                                          *)
OpenShift(w, c, cash) ==
  /\ ~Busy(c)
  /\ Begin(w, [op |-> "open", till |-> c, cash |-> cash, read |-> CurrentOpenShift(c)])
  /\ drawer' = IF CurrentOpenShift(c) = 0 THEN [drawer EXCEPT ![c] = cash] ELSE drawer
  /\ UNCHANGED <<shift, rung, sale>>

CommitOpen(w) ==
  LET r == request[w]
  IN /\ Doing(w, "open")
     /\ Done(w)
     /\ shift' = IF r.read # 0 THEN shift
                 ELSE Append(shift,
                        [till |-> r.till, status |-> "open", opened |-> requests,
                         closed |-> 0, opening |-> r.cash, expected |-> 0,
                         diff |-> 0, sales |-> 0])
     /\ UNCHANGED <<rung, sale, drawer>>

(* _compute_summary: the orders booked on the shift, and those booked on   *)
(* none that the till uploaded in its time.                                *)
OrdersOf(n, upper) == {o \in Orders :
  /\ sale[o] # None
  /\ \/ sale[o].shift = n
     \/ /\ sale[o].shift = 0 /\ sale[o].till = shift[n].till
        /\ sale[o].created \in shift[n].opened..upper}

ExpectedCash(n, upper) ==
  shift[n].opening
  + MapThenSumSet(LAMBDA o : IF sale[o].refunded THEN 0 ELSE InHand(o), OrdersOf(n, upper))

(* The cashier has counted the drawer, and counted right.                  *)
CloseShift(w, c) ==
  /\ ~Busy(c) /\ CurrentOpenShift(c) # 0
  /\ Begin(w, [op |-> "close", till |-> c, of |-> CurrentOpenShift(c), counted |-> drawer[c]])
  /\ UNCHANGED <<shift, rung, sale, drawer>>

CommitClose(w) ==
  LET r == request[w]
      n == r.of
      expected == ExpectedCash(n, requests)
  IN /\ Doing(w, "close")
     /\ shift' = [shift EXCEPT ![n] =
          [@ EXCEPT !.status = "closed", !.closed = requests, !.expected = expected,
                    !.diff = r.counted - expected,
                    !.sales = MapThenSumSet(LAMBDA o : TotalOf[o], OrdersOf(n, requests))]]
     /\ Done(w)
     /\ UNCHANGED <<rung, sale, drawer>>

---------------------------------------------------------------------------
Next ==
  \/ \E c \in Tills, o \in Orders : Ring(c, o)
  \/ \E w \in Workers :
       \/ \E o \in Orders : Upload(w, o) \/ \E c \in Tills : Refund(w, c, o)
       \/ \E c \in Tills : CloseShift(w, c) \/ \E cash \in Floats : OpenShift(w, c, cash)
       \/ CommitUpload(w) \/ CommitOpen(w) \/ CommitClose(w)

Spec == Init /\ [][Next]_shiftVars

---------------------------------------------------------------------------
(* models/shift.py:13-15: the expected drawer is computed "from            *)
(* sales/refunds during the shift" and compared to the counted cash.  So a *)
(* drawer that was counted right shows no difference.                      *)
CountedRightShowsNoDifference ==
  \A n \in DOMAIN shift : shift[n].status = "closed" => shift[n].diff = 0

=============================================================================
