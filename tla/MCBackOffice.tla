---------------------------- MODULE MCBackOffice ----------------------------
(* The back office on instances for TLC.                                   *)
EXTENDS BackOffice, TLC

CONSTANTS w1, w2

---------------------------------------------------------------------------
(* Order o1 is of two pieces; refund r1 is of all of it, r2 of one.        *)
MCTotal(o) == IF o = "o1" THEN 2 ELSE 1
MCOrderOf(r) == "o1"
MCAmount(r) == IF r = "r1" THEN 2 ELSE 1
MCSaleTime(o) == IF o = "o1" THEN 95 ELSE 101
MCStoreOf(o) == IF o = "o1" THEN "s1" ELSE "s2"
MCMethodOf(o) == IF o = "o1" THEN "cash" ELSE "card"
MCProductOf(o) == o
MCCategoryOf(p) == IF p = "o1" THEN "drinks" ELSE "none"
MCDiscount(o) == IF o = "o1" THEN 1 ELSE 0
MCRanges == {<<95, 98>>, <<96, 101>>, <<98, 101>>}

(* An order of two pieces of p, whose stock is kept, and one of u.         *)
Two == "p" :> 2 @@ "u" :> 1
One == "p" :> 1 @@ "u" :> 0
MCWritten == {One, Two}
MCAdjustments == {-1, 2}
OneTransfer == {[status |-> "draft", from |-> "s1", to |-> "s2", qty |-> Two, came |-> One]}
OneCount == {[store |-> "s1", expected |-> One, actual |-> Two]}
MCOrderedAt(o) == "s1"
MCMoveOf(m) == [store |-> "s1", product |-> "p", qty |-> IF m = "m1" THEN -1 ELSE -2]

(* Category d below c, and e to come; choices x and y of one group.        *)
Row(parent) == [parent |-> parent, hidden |-> FALSE, gone |-> FALSE]
Tree == "c" :> Row(None) @@ "d" :> Row("c") @@ "e" :> None
MCTrees == {Tree}
Bare == "p" :> None
Stocked == {Bare, "p" :> [category |-> "d", hidden |-> FALSE, active |-> TRUE,
                          gone |-> FALSE, link |-> "inherit"]}
Choosing(type, required, min, max) ==
  [type |-> type, required |-> required, min |-> min, max |-> max, gone |-> FALSE]
FirstGroup == Choosing("single", TRUE, 0, None)
MCGroups ==
  {FirstGroup, Choosing("multi", TRUE, 0, 1), Choosing("multi", FALSE, 2, None)}
Prices == "x" :> 0 @@ "y" :> 2
MCOverrides == {[hidden |-> TRUE, price |-> None], [hidden |-> FALSE, price |-> 1]}
Ways == {"pickup", "delivery"}
Online(supports, pays) == [on |-> TRUE, supports |-> supports, pays |-> pays]
MCPatches ==
  {Online({}, {}), Online({"delivery"}, {"online"}), Online(Ways, {"counter"}), None}
Aliases == "c" :> "k2" @@ "d" :> "k3" @@ "e" :> None

(* Five sales of two days; the levels are DEFAULT_LEVELS.                  *)
Upload(day, total, earnable, redeemable, redeem, coupon) ==
  [day |-> day, total |-> total, earnable |-> earnable, redeemable |-> redeemable,
   redeem |-> redeem, coupon |-> coupon]
MCUploads ==
  "o1" :> Upload("d1", 400, 400, 400, 0, "c")
  @@ "o2" :> Upload("d1", 200, 100, 4, 2, "c")
  @@ "o3" :> Upload("d1", 200, 200, 4, 0, None)
  @@ "o4" :> Upload("d1", 0, 0, 0, 0, None)
  @@ "o5" :> Upload("d2", 300, 300, 4, 0, None)
OneRule == {[spend |-> 100, points |-> 1, percent |-> 100]}
MCByHand == {-3, 2}
ThreeLevels == <<[percent |-> 110, spend |-> 0, points |-> 0],
                 [percent |-> 105, spend |-> 600, points |-> 0],
                 [percent |-> 100, spend |-> 0, points |-> 0]>>

(* Order o1 is of one in cash, o2 of two by card.                          *)
Amounts == "o1" :> 1 @@ "o2" :> 2

Allowed == "small" :> 1 @@ "large" :> 2

(* Books p and q of one title, c the serial of a copy, and s of no title.  *)
Kinds == "p" :> "internal" @@ "q" :> "internal" @@ "s" :> "external" @@ "c" :> "logcode"
Titles == "p" :> "i" @@ "q" :> "i" @@ "c" :> "i" @@ "s" :> None
Canonicals == "i" :> "q"
ListPrices == "p" :> 1 @@ "q" :> 2 @@ "s" :> 2
TwoFiles == {<<"c", "s">>, <<"p", "q">>}

Changed == {[cash_pct |-> 95], [book_pct |-> 45, online |-> TRUE]}
Basket == {<<[qty |-> 3, price |-> 10, list |-> 13], [qty |-> 2, price |-> 7, list |-> 0]>>}

(* Each agent serves the one printer.                                     *)
AnyJob(a) == {"j"}

---------------------------------------------------------------------------
(* A part that is not looked at keeps one of its first states; the groups  *)
(* are met with an empty shelf only by turns.                              *)
MCInit ==
  /\ BackOfficeInit
  /\ part # "reports" => zone = 0
  /\ part # "stock" => purchase = "o" :> None
  /\ product = Bare => group = FirstGroup
  /\ part # "storefront" => product = Bare
  /\ part # "events" => event.capacity = 0

(* Requests of "orders" are about order o1.                                *)
OfOrderOne == \A w \in Workers : session'[w] # Idle => session'[w].of # "o2"

MCNext == BackOfficeNext /\ (part = "orders" => OfOrderOne)

MCSpec == MCInit /\ [][MCNext]_backOfficeVars

Symmetry == Permutations(Workers)

=============================================================================
