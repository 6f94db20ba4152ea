------------------------------ MODULE Baskets ------------------------------
(***************************************************************************)
(* The lines of the checkouts and the shelf they draw on.  A line asks for *)
(* a number of copies of one product; how many copies a set of checkouts   *)
(* asks for is the cardinality of the set of the copies they ask for.      *)
(***************************************************************************)
EXTENDS Integers, FiniteSets

CONSTANTS
  Checkouts,  \* scan-and-go checkouts, one per (customer, client_request_id)
  Products,   \* books on sale in the store
  MaxQty,     \* most copies of a product in a checkout (BOOKSTORE_MAX_QTY_PER_LINE)
  Qty,        \* Qty[c][p]: copies of p in the lines of checkout c, 0 if none
  Stock       \* Stock[p]: copies of p on the shelf at the start

ASSUME CheckoutsFinite == IsFiniteSet(Checkouts)
ASSUME MaxQtyType == MaxQty \in Nat
ASSUME QtyType == Qty \in [Checkouts -> [Products -> 0..MaxQty]]
ASSUME StockType == Stock \in [Products -> Nat]

Units(S, p) == {u \in S \X (1..MaxQty) : u[2] <= Qty[u[1]][p]}

Demand(S, p) == Cardinality(Units(S, p))

=============================================================================
