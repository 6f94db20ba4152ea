----------------------------- MODULE StockHold -----------------------------
(***************************************************************************)
(* What the bookstore promises about the copies on its shelves, whatever   *)
(* the order in which requests reach the server: a checkout takes all its  *)
(* copies or none, only while they are free; a hold ends in a release or   *)
(* in a sale; a sale can be returned once; nothing else moves a copy.      *)
(* BookstoreCheckout implements this specification.                        *)
(***************************************************************************)
EXTENDS Integers

CONSTANTS
  Checkouts,
  Products,
  Stock,         \* Stock[p]: copies of p on the shelf at the start
  Demand(_, _)   \* Demand(S, p): copies of p the checkouts in S ask for

VARIABLES
  free,  \* free[p]: copies of p a new checkout could still take
  fate,  \* fate[c]: what became of the copies of checkout c
  late   \* checkouts sold after their hold had been released

vars == <<free, fate, late>>

Fates == {"none", "held", "released", "sold", "returned"}

TypeOK ==
  /\ free \in [Products -> Int]
  /\ fate \in [Checkouts -> Fates]
  /\ late \in SUBSET Checkouts

With(f) == {c \in Checkouts : fate[c] = f}

Init ==
  /\ free = Stock
  /\ fate = [c \in Checkouts |-> "none"]
  /\ late = {}

(* All the lines are held, or none is.                                     *)
Hold(c) ==
  /\ fate[c] = "none"
  /\ \A p \in Products : free[p] >= Demand({c}, p)
  /\ free' = [p \in Products |-> free[p] - Demand({c}, p)]
  /\ fate' = [fate EXCEPT ![c] = "held"]
  /\ UNCHANGED late

(* A sweep may release several holds at once.                              *)
Release(S) ==
  /\ S # {}
  /\ S \subseteq With("held")
  /\ free' = [p \in Products |-> free[p] + Demand(S, p)]
  /\ fate' = [c \in Checkouts |-> IF c \in S THEN "released" ELSE fate[c]]
  /\ UNCHANGED late

Sell(c) ==
  /\ fate[c] = "held"
  /\ fate' = [fate EXCEPT ![c] = "sold"]
  /\ UNCHANGED <<free, late>>

(* A payment that arrives after the release is honoured: the copies are    *)
(* taken even if another buyer holds them by now.                          *)
SellLate(c) ==
  /\ fate[c] = "released"
  /\ free' = [p \in Products |-> free[p] - Demand({c}, p)]
  /\ fate' = [fate EXCEPT ![c] = "sold"]
  /\ late' = late \cup {c}

Return(c) ==
  /\ fate[c] = "sold"
  /\ free' = [p \in Products |-> free[p] + Demand({c}, p)]
  /\ fate' = [fate EXCEPT ![c] = "returned"]
  /\ UNCHANGED late

Next ==
  \/ \E c \in Checkouts : Hold(c) \/ Sell(c) \/ SellLate(c) \/ Return(c)
  \/ \E S \in SUBSET Checkouts : Release(S)

Spec == Init /\ [][Next]_vars

=============================================================================
