---------------------------- MODULE MCGuestOrders ----------------------------
(* Instances of GuestOrders for TLC.                                       *)
EXTENDS GuestOrders, TLC

(* At the table, from the shopping pages, and on the market place to be    *)
(* paid there and delivered.                                               *)
AtTable == [channel |-> "table_qr", online |-> FALSE, delivery |-> FALSE]
Online == [channel |-> "marketplace", online |-> TRUE, delivery |-> TRUE]

Shopping == [channel |-> "shopping", online |-> FALSE, delivery |-> FALSE]

OnlineKinds == {Online, AtTable, Shopping}

(* One that staff has accepted, and that was promised the same points as   *)
(* the others.                                                             *)
Accepted == {[Placed(Online, 1) EXCEPT !.status = "accepted"]}

=============================================================================
