------------------------------ MODULE MCShifts ------------------------------
(* Instances of Shifts for TLC.                                            *)
EXTENDS Shifts, TLC

CONSTANTS o1, o2, c1, c2

(* Order o1 is of one in cash, o2 of two by card.                          *)
MCTotal == (o1 :> 1) @@ (o2 :> 2)

=============================================================================
