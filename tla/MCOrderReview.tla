---------------------------- MODULE MCOrderReview ----------------------------
(* Instances of OrderReview for TLC.                                       *)
EXTENDS OrderReview, TLC

CONSTANTS o1, o2, r1, r2, w1, w2

(* Order o1 is of two pieces; r1 is a refund of all of it, r2 of one.      *)
MCTotal(o) == IF o = o1 THEN 2 ELSE 1
MCOrderOf(r) == o1
MCAmount(r) == IF r = r1 THEN 2 ELSE 1

Symmetry == Permutations(Workers)

=============================================================================
