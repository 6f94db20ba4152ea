------------------------ MODULE MCBookstoreCheckout ------------------------
(* Instances of BookstoreCheckout for TLC.                                 *)
EXTENDS BookstoreCheckout, TLC

CONSTANTS c1, c2, p1, p2, u1, u2, w1, w2

(* Both checkouts want the last copy of p1; c2 also wants two of p2.       *)
MCQty == c1 :> (p1 :> 1 @@ p2 :> 0) @@ c2 :> (p1 :> 1 @@ p2 :> 2)
MCStock == p1 :> 1 @@ p2 :> 3

(* Two customers after the same copy, each on a device of their own.       *)
TwoCustomers == c1 :> u1 @@ c2 :> u2

(* A single checkout, for the interleavings of its own payments.           *)
LoneQty == c1 :> (p1 :> 1)
LoneStock == p1 :> 1
LoneOwner == c1 :> u1

Symmetry == Permutations(Workers)

=============================================================================
