----------------------------- MODULE SaleOnce ------------------------------
(***************************************************************************)
(* What a till that works offline promises about a sale, whatever is sent  *)
(* twice, late or never: the server books only what was rung up, and once; *)
(* it takes back only what was taken back at the till, and once; the till  *)
(* owes the server a sale until the server has it or has turned it down,   *)
(* and holds it for stored only if the server has it.  PosSync implements  *)
(* this specification.                                                     *)
(***************************************************************************)
EXTENDS Integers

CONSTANT Sales

VARIABLES
  rung,    \* rung[s]: what was rung up at the till
  booked,  \* booked[s]: what the server has of it
  gone,    \* gone[s]: copies that left the server's inventory for s
  denied,  \* sales the server has turned down
  owed,    \* sales the till still has to upload
  known    \* sales the till holds for stored

vars == <<rung, booked, gone, denied, owed, known>>

States == {"none", "paid", "refunded"}

TypeOK ==
  /\ rung \in [Sales -> States]
  /\ booked \in [Sales -> States]
  /\ gone \in [Sales -> Int]
  /\ denied \subseteq Sales
  /\ owed \subseteq Sales
  /\ known \subseteq Sales

Init ==
  /\ rung = [s \in Sales |-> "none"]
  /\ booked = [s \in Sales |-> "none"]
  /\ gone = [s \in Sales |-> 0]
  /\ denied = {}
  /\ owed = {}
  /\ known = {}

(* A sale is owed from the moment it is rung up.                           *)
RingUp(s) ==
  /\ rung[s] = "none"
  /\ rung' = [rung EXCEPT ![s] = "paid"]
  /\ owed' = owed \cup {s}
  /\ UNCHANGED <<booked, gone, denied, known>>

TakeBack(s) ==
  /\ rung[s] = "paid"
  /\ rung' = [rung EXCEPT ![s] = "refunded"]
  /\ UNCHANGED <<booked, gone, denied, owed, known>>

(* The till hears that the server has the sale.                            *)
Acknowledged(s) ==
  /\ owed' = owed \ {s}
  /\ known' = known \cup {s}

(* The answer may come with the booking, later, or never.                  *)
Book(s) ==
  /\ rung[s] # "none"
  /\ booked[s] = "none"
  /\ booked' = [booked EXCEPT ![s] = "paid"]
  /\ gone' = [gone EXCEPT ![s] = @ + 1]
  /\ Acknowledged(s) \/ UNCHANGED <<owed, known>>
  /\ UNCHANGED <<rung, denied>>

Learn(s) ==
  /\ booked[s] # "none"
  /\ Acknowledged(s)
  /\ UNCHANGED <<rung, booked, gone, denied>>

Unbook(s) ==
  /\ rung[s] = "refunded"
  /\ booked[s] = "paid"
  /\ booked' = [booked EXCEPT ![s] = "refunded"]
  /\ gone' = [gone EXCEPT ![s] = @ - 1]
  /\ UNCHANGED <<rung, denied, owed, known>>

(* Only a sale that is turned down may be given up; the answer may be      *)
(* lost, and the same sale may still be booked by another try.             *)
TurnDown(s) ==
  /\ rung[s] # "none"
  /\ denied' = denied \cup {s}
  /\ owed' \in {owed, owed \ {s}}
  /\ UNCHANGED <<rung, booked, gone, known>>

Next ==
  \E s \in Sales :
    RingUp(s) \/ TakeBack(s) \/ Book(s) \/ Learn(s) \/ Unbook(s) \/ TurnDown(s)

Spec == Init /\ [][Next]_vars

=============================================================================
