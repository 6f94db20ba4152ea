------------------------------- MODULE Events -------------------------------
(***************************************************************************)
(* An event of a tenant, its tickets and its door: api/v1/events.py and    *)
(* models/event.py.                                                        *)
(*                                                                         *)
(* A request reads the rows it decides by, and commits in a second step.   *)
(* One event stands for all: no request is about two.                      *)
(***************************************************************************)
EXTENDS Integers, FiniteSetsExt

CONSTANTS
  Tickets,      \* the registrations there may be
  Workers,
  Capacities,   \* what the capacity may be set to; 0 is no limit
  Qtys,         \* the places of one registration
  MaxRequests,  \* bound on the requests
  None

VARIABLES
  event,     \* the row of the event
  ticket,    \* ticket[t]: the row of registration t
  request,   \* request[w]: what worker w is at
  admitted,  \* admitted[t]: how often the door has let the guests of t in
  excuses,   \* what there has been that may fill the hall beyond its capacity
  requests

eventVars == <<event, ticket, request, admitted, excuses, requests>>

---------------------------------------------------------------------------
Event == [capacity : Capacities, gone : BOOLEAN]

Ticket == [qty : Qtys, status : {"registered", "cancelled", "checked_in"}]

Idle == [op |-> "none"]

(* register asks for one place at least.                                   *)
EventsParameters ==
  /\ IsFiniteSet(Tickets)
  /\ Qtys \subseteq Nat \ {0} /\ Capacities \subseteq Int
  /\ None \notin Ticket

EventsTypeOK ==
  /\ event \in Event
  /\ ticket \in [Tickets -> Ticket \cup {None}]
  /\ admitted \in [Tickets -> Nat]
  /\ excuses \subseteq {"changed", "overlap", "cancelled inside"}
  /\ requests \in 0..MaxRequests

Init ==
  /\ event \in [capacity : Capacities, gone : {FALSE}]
  /\ ticket = [t \in Tickets |-> None]
  /\ request = [w \in Workers |-> Idle]
  /\ admitted = [t \in Tickets |-> 0]
  /\ excuses = {}
  /\ requests = 0

Begin(w, r) ==
  /\ request[w] = Idle
  /\ requests < MaxRequests
  /\ requests' = requests + 1
  /\ request' = [request EXCEPT ![w] = r]

Done(w) == request' = [request EXCEPT ![w] = Idle]

(* update_event of the capacity, and delete_event.                         *)
UpdateEvent(w, capacity) ==
  /\ ~event.gone
  /\ Begin(w, Idle)
  /\ event' = [event EXCEPT !.capacity = capacity]
  /\ excuses' = excuses \cup IF capacity # event.capacity THEN {"changed"} ELSE {}
  /\ UNCHANGED <<ticket, admitted>>

DeleteEvent(w) ==
  /\ ~event.gone
  /\ Begin(w, Idle)
  /\ event' = [event EXCEPT !.gone = TRUE]
  /\ UNCHANGED <<ticket, admitted, excuses>>

---------------------------------------------------------------------------
Places(statuses) ==
  LET qty(t) == ticket[t].qty
  IN MapThenSumSet(qty, {t \in Tickets : ticket[t] # None /\ ticket[t].status \in statuses})

(* Mistaken: whose guests are inside already is not counted any more.      *)
RegisteredQtyOutside == Places({"registered"})

(* _registered_qty                                                         *)
RegisteredQty == Places({"registered", "checked_in"})

Fits(qty) == event.capacity > 0 => RegisteredQty + qty <= event.capacity

Register(w, t, qty) ==
  /\ ~event.gone
  /\ ticket[t] = None
  /\ Fits(qty)
  /\ Begin(w, [op |-> "register", of |-> t, qty |-> qty])
  /\ UNCHANGED <<event, ticket, admitted, excuses>>

CommitRegister(w) ==
  LET r == request[w] IN
  /\ r.op = "register"
  /\ ticket[r.of] = None
  /\ ticket' = [ticket EXCEPT ![r.of] = [qty |-> r.qty, status |-> "registered"]]
  /\ excuses' = excuses \cup IF Fits(r.qty) THEN {} ELSE {"overlap"}
  /\ Done(w)
  /\ UNCHANGED <<event, admitted, requests>>

Admits(t) == ticket[t].status = "registered"

(* check_in, which does not look at the event.                             *)
CheckIn(w, t) ==
  /\ ticket[t] # None /\ Admits(t)
  /\ Begin(w, [op |-> "check_in", of |-> t, read |-> ticket[t].status])
  /\ UNCHANGED <<event, ticket, admitted, excuses>>

CommitCheckIn(w) ==
  LET r == request[w] IN
  /\ r.op = "check_in"
  /\ ticket' = [ticket EXCEPT ![r.of].status = "checked_in"]
  /\ admitted' = [admitted EXCEPT ![r.of] = @ + 1]
  /\ excuses' = excuses \cup IF ticket[r.of].status = r.read THEN {} ELSE {"overlap"}
  /\ Done(w)
  /\ UNCHANGED <<event, requests>>

(* cancel_registration, of any status.                                     *)
Cancel(w, t) ==
  /\ ticket[t] # None
  /\ Begin(w, [op |-> "cancel", of |-> t, read |-> ticket[t].status])
  /\ UNCHANGED <<event, ticket, admitted, excuses>>

CommitCancel(w) ==
  LET r == request[w] IN
  /\ r.op = "cancel"
  /\ ticket' = [ticket EXCEPT ![r.of].status = IF r.read = "cancelled" THEN @ ELSE "cancelled"]
  /\ excuses' = excuses \cup IF admitted[r.of] > 0 THEN {"cancelled inside"} ELSE {}
  /\ Done(w)
  /\ UNCHANGED <<event, admitted, requests>>

Abort(w) ==
  /\ request[w] # Idle
  /\ Done(w)
  /\ UNCHANGED <<event, ticket, admitted, excuses, requests>>

Next ==
  \E w \in Workers :
    \/ \E capacity \in Capacities : UpdateEvent(w, capacity)
    \/ DeleteEvent(w)
    \/ \E t \in Tickets, qty \in Qtys : Register(w, t, qty)
    \/ \E t \in Tickets : CheckIn(w, t) \/ Cancel(w, t)
    \/ CommitRegister(w) \/ CommitCheckIn(w) \/ CommitCancel(w) \/ Abort(w)

Spec == Init /\ [][Next]_eventVars

---------------------------------------------------------------------------
Guests ==
  LET inside(t) == IF ticket[t] = None THEN 0 ELSE admitted[t] * ticket[t].qty
  IN MapThenSumSet(inside, Tickets)

(* The hall holds no more guests, and no more tickets are out, than there  *)
(* are places, however tickets are sold, cancelled and scanned; but for    *)
(* three causes: two requests about the same places or ticket overlapped,  *)
(* the capacity was changed after tickets were sold, or a ticket was       *)
(* cancelled whose guests were inside.                                     *)
FullForCause ==
  /\ excuses = {} => Guests <= Places({"checked_in"})
  /\ event.capacity > 0 /\ excuses = {} =>
       Places({"registered", "checked_in"}) <= event.capacity

=============================================================================
