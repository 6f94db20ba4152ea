------------------------------- MODULE Loyalty -------------------------------
(***************************************************************************)
(* A member's points as a store's sales move them, and the numbers that    *)
(* the sales are given: upload_order (api/v1/orders.py) with               *)
(* services/order_number.py and loyalty_engine.py, refunds and voids,      *)
(* points booked by hand and levels (api/v1/members.py), coupons           *)
(* (api/v1/coupons.py), and the jobs of services/loyalty_maintenance.py.   *)
(*                                                                         *)
(* An upload reads the order and the member first, then waits for the row  *)
(* of the day's order numbers, which it keeps locked until it commits.     *)
(* Other requests read, then commit.  A column that is as it was read is   *)
(* not written.                                                            *)
(***************************************************************************)
EXTENDS Integers, Sequences, FiniteSets, FiniteSetsExt

CONSTANTS
  Orders, Days, Coupons, Workers,
  Sale,         \* Sale[o]: the order as the till uploads it
  Rules,        \* the active earn rules
  Levels,       \* the member levels, the highest sort_order first
  RedeemPct,    \* max_redeem_pct, of a point_value_cents of 1
  Bonus,        \* birthday_bonus_points
  ByHand,       \* what staff book to the points
  Parts,        \* the amounts of refunds
  MaxRequests,  \* bound on the requests
  None

VARIABLES
  order,     \* order[o]: the row of order o
  lastSeq,   \* lastSeq[d]: last_seq of the row of day d
  member,    \* the row of the member
  entries,   \* entries[o]: the points earned and redeemed that are booked for
             \* order o, and how often its points were taken as expired
  greeted,   \* the birthday transactions of this year
  lapsed,    \* the orders whose points are past their expires_at
  usedBy,    \* usedBy[c]: what coupon c was redeemed for
  request,   \* request[w]: what worker w is at
  requests

loyaltyVars == <<order, lastSeq, member, entries, greeted, lapsed,
                 usedBy, request, requests>>

rows == <<order, lastSeq, member, entries, greeted, lapsed, usedBy>>

(* What the constants stand for.                                           *)
LoyaltyParameters ==
  /\ IsFiniteSet(Orders) /\ Parts \subseteq Nat
  /\ \A o \in Orders : Sale[o].day \in Days /\ Sale[o].coupon \in Coupons \cup {None}
  /\ None \notin Orders \cup Nat \cup {"counter"}
  /\ None \notin [no : Nat \ {0}, refunded : Nat,
                  status : {"paid", "partiallyRefunded", "refunded", "voided"}]

---------------------------------------------------------------------------
OrderRow ==
  [no : Nat \ {0}, status : {"paid", "partiallyRefunded", "refunded", "voided"},
   refunded : Nat]

Member == [points : Nat, spent : Nat, level : 0..Len(Levels)]

NoEntries == [earn |-> <<>>, redeem |-> <<>>, expire |-> 0]

Idle == [op |-> "none"]

LoyaltyTypeOK ==
  /\ order \in [Orders -> OrderRow \cup {None}]
  /\ lastSeq \in [Days -> Nat \cup {None}]
  /\ member \in Member
  /\ entries \in [Orders -> [earn : Seq(Nat), redeem : Seq(Nat), expire : Nat]]
  /\ greeted \in Nat
  /\ lapsed \subseteq Orders
  /\ usedBy \in [Coupons -> Orders \cup {None, "counter"}]
  /\ requests \in 0..MaxRequests

Init ==
  /\ order = [o \in Orders |-> None]
  /\ lastSeq = [d \in Days |-> None]
  /\ member = [points |-> 0, spent |-> 0, level |-> 0]
  /\ entries = [o \in Orders |-> NoEntries]
  /\ greeted = 0
  /\ lapsed = {}
  /\ usedBy = [c \in Coupons |-> None]
  /\ request = [w \in Workers |-> Idle]
  /\ requests = 0

---------------------------------------------------------------------------
Smaller(a, b) == IF a < b THEN a ELSE b

Less(a, b) == IF a > b THEN a - b ELSE 0

(* calculate_earn_points, of a level's multiplier in percent               *)
Earned(cents, percent) ==
  IF Rules = {} THEN cents \div 100
  ELSE MapThenSumSet(
         LAMBDA r : ((cents \div r.spend) * r.points * percent) \div 100, Rules)

Percent(level) == IF level = 0 THEN 100 ELSE Levels[level].percent

MaxRedeemable(points, cents) == Smaller(points, (cents * RedeemPct) \div 100)

(* auto_upgrade_level: the first level whose minima the member has.        *)
Upgraded(m) ==
  LET fits == {l \in 1..Len(Levels) : m.spent >= Levels[l].spend /\ m.points >= Levels[l].points}
  IN IF fits = {} THEN m ELSE [m EXCEPT !.level = Min(fits)]

(* apply_order_loyalty to the member as read, of an order with o's lines.  *)
AfterSale(m, o) ==
  Upgraded([m EXCEPT
    !.points = Less(@, Sale[o].redeem) + Earned(Sale[o].earnable, Percent(m.level)),
    !.spent = @ + Sale[o].total])

(* reverse_order_loyalty, of the rules as they are but no level.           *)
AfterRefund(m, o, cents) ==
  LET total == Sale[o].total
      share(n) == IF cents >= total THEN n ELSE (n * cents) \div total
  IN IF cents = 0 THEN m
     ELSE [m EXCEPT !.points = Less(@, share(Earned(total, 100))) + share(Sale[o].redeem),
                    !.spent = Less(@, cents)]

Written(new, read) == [f \in DOMAIN member |-> IF new[f] = read[f] THEN member[f] ELSE new[f]]

---------------------------------------------------------------------------
Begin(w, r) ==
  /\ request[w] = Idle
  /\ requests < MaxRequests
  /\ requests' = requests + 1
  /\ request' = [request EXCEPT ![w] = r]
  /\ UNCHANGED rows

Becomes(w, r) == request' = [request EXCEPT ![w] = r] /\ UNCHANGED requests

Doing(w, op) == request[w].op = op

(* upload_order of an order that is not stored, with the member it reads.  *)
Upload(w, o) ==
  /\ order[o] = None
  /\ Begin(w, [op |-> "upload", of |-> o, no |-> 0, read |-> member])

Locks(w, d) == Doing(w, "numbered") /\ Sale[request[w].of].day = d

Unlocked(w, d) == \A v \in Workers \ {w} : ~Locks(v, d)

NextNo(d) == IF lastSeq[d] = None THEN 1 ELSE lastSeq[d] + 1

(* Mistaken: an order that is stored by now is stored again.               *)
NumberedAnyway(w, r) ==
  Becomes(w, [r EXCEPT !.op = "numbered", !.no = NextNo(Sale[r.of].day)])

(* The order is added under the next number, which fails when it is stored *)
(* by now.                                                                 *)
Numbered(w, r) ==
  \/ order[r.of] # None /\ Becomes(w, Idle)
  \/ order[r.of] = None
     /\ Becomes(w, [r EXCEPT !.op = "numbered", !.no = NextNo(Sale[r.of].day)])

(* Mistaken: the row of the day is read without a lock.                    *)
FindSequenceUnlocked(w) ==
  LET r == request[w] IN
  /\ Doing(w, "upload")
  /\ IF lastSeq[Sale[r.of].day] = None THEN Becomes(w, [r EXCEPT !.op = "insert"])
     ELSE Numbered(w, r)
  /\ UNCHANGED rows

(* The row of the day is locked, or, there being none, is to be inserted.  *)
FindSequence(w) ==
  LET r == request[w]
      d == Sale[r.of].day
  IN
  /\ Doing(w, "upload")
  /\ \/ lastSeq[d] = None /\ Becomes(w, [r EXCEPT !.op = "insert"])
     \/ lastSeq[d] # None /\ Unlocked(w, d) /\ Numbered(w, r)
  /\ UNCHANGED rows

(* The insert waits for one that another has not committed, and fails if   *)
(* there is a row then.                                                    *)
InsertSequence(w) ==
  LET r == request[w]
      d == Sale[r.of].day
  IN
  /\ Doing(w, "insert")
  /\ Unlocked(w, d)
  /\ \/ lastSeq[d] = None /\ Numbered(w, r)
     \/ lastSeq[d] # None /\ Becomes(w, Idle)
  /\ UNCHANGED rows

(* The coupon and the points are the order's to use.                       *)
Redeemable(r) ==
  LET sale == Sale[r.of] IN
  /\ sale.coupon # None => usedBy[sale.coupon] = None
  /\ sale.redeem <= MaxRedeemable(r.read.points, sale.redeemable)

Booked(n) == IF n > 0 THEN <<n>> ELSE <<>>

CommitUpload(w) ==
  LET r == request[w]
      sale == Sale[r.of]
  IN
  /\ Doing(w, "numbered")
  /\ Redeemable(r)
  /\ lastSeq' = [lastSeq EXCEPT ![sale.day] = r.no]
  /\ order' = [order EXCEPT ![r.of] = [no |-> r.no, status |-> "paid", refunded |-> 0]]
  /\ member' = Written(AfterSale(r.read, r.of), r.read)
  /\ entries' = [entries EXCEPT
       ![r.of].earn = @ \o Booked(Earned(sale.earnable, Percent(r.read.level))),
       ![r.of].redeem = @ \o Booked(sale.redeem)]
  /\ usedBy' = [c \in Coupons |-> IF c = sale.coupon THEN r.of ELSE usedBy[c]]
  /\ Becomes(w, Idle)
  /\ UNCHANGED <<greeted, lapsed>>

(* A request is refused or fails, and what it wrote is rolled back.        *)
Abort(w) ==
  /\ request[w] # Idle
  /\ Becomes(w, Idle)
  /\ UNCHANGED rows

---------------------------------------------------------------------------
(* The other requests that move the member's points, level or coupons.     *)

(* record_points *)
RecordPoints(w) ==
  \E n \in ByHand : Begin(w, [op |-> "points", delta |-> n, read |-> member])

CommitPoints(w) ==
  LET r == request[w]
      sum == r.read.points + r.delta
  IN
  /\ Doing(w, "points")
  /\ member' = Written([r.read EXCEPT !.points = IF sum < 0 THEN 0 ELSE sum], r.read)
  /\ Becomes(w, Idle)
  /\ UNCHANGED <<order, lastSeq, entries, greeted, lapsed, usedBy>>

(* update_member, of a level_id *)
UpdateMember(w) ==
  \E l \in 1..Len(Levels) : Begin(w, [op |-> "level", level |-> l, read |-> member])

CommitMember(w) ==
  LET r == request[w] IN
  /\ Doing(w, "level")
  /\ member' = Written([r.read EXCEPT !.level = r.level], r.read)
  /\ Becomes(w, Idle)
  /\ UNCHANGED <<order, lastSeq, entries, greeted, lapsed, usedBy>>

(* redeem_coupon *)
RedeemCoupon(w) ==
  \E c \in Coupons : usedBy[c] = None /\ Begin(w, [op |-> "coupon", coupon |-> c])

CommitCoupon(w) ==
  /\ Doing(w, "coupon")
  /\ usedBy' = [usedBy EXCEPT ![request[w].coupon] = "counter"]
  /\ Becomes(w, Idle)
  /\ UNCHANGED <<order, lastSeq, member, entries, greeted, lapsed>>

(* refund_order, and request_void of a store admin: of the order as read.  *)
Refund(w) ==
  \E o \in Orders, cents \in Parts :
    /\ order[o] # None
    /\ order[o].status \in {"paid", "partiallyRefunded"}
    /\ Begin(w, [op |-> "reverse", of |-> o, cents |-> cents, read |-> member,
         row |-> [order[o] EXCEPT
           !.refunded = @ + cents,
           !.status = IF order[o].refunded + cents >= Sale[o].total
                      THEN "refunded" ELSE "partiallyRefunded"]])

Void(w) ==
  \E o \in Orders :
    /\ order[o] # None
    /\ order[o].status = "paid"
    /\ Begin(w, [op |-> "reverse", of |-> o, cents |-> Sale[o].total, read |-> member,
         row |-> [order[o] EXCEPT !.status = "voided"]])

CommitReverse(w) ==
  LET r == request[w] IN
  /\ Doing(w, "reverse")
  /\ order' = [order EXCEPT ![r.of] = r.row]
  /\ member' = Written(AfterRefund(r.read, r.of, r.cents), r.read)
  /\ Becomes(w, Idle)
  /\ UNCHANGED <<lastSeq, entries, greeted, lapsed, usedBy>>

---------------------------------------------------------------------------
(* The maintenance jobs.                                                   *)

(* The points earned with an order are a year old.                         *)
Lapse(o) ==
  /\ entries[o].earn # <<>>
  /\ lapsed' = lapsed \cup {o}
  /\ UNCHANGED <<order, lastSeq, member, entries, greeted, usedBy, request, requests>>

(* run_point_expiry: the entries that lapsed and have no marker.           *)
ExpirePoints(w) ==
  Begin(w, [op |-> "expire", read |-> member,
            of |-> {o \in lapsed : entries[o].expire = 0}])

CommitExpire(w) ==
  LET r == request[w] IN
  /\ Doing(w, "expire")
  /\ member' = Written([r.read EXCEPT !.points =
       Less(@, MapThenSumSet(LAMBDA o : entries[o].earn[1], r.of))], r.read)
  /\ entries' = [o \in Orders |->
       IF o \in r.of THEN [entries[o] EXCEPT !.expire = @ + 1] ELSE entries[o]]
  /\ Becomes(w, Idle)
  /\ UNCHANGED <<order, lastSeq, greeted, lapsed, usedBy>>

(* run_tenant_birthday_rewards, on the day, of a member without a marker.  *)
RewardBirthday(w) ==
  /\ Bonus > 0
  /\ greeted = 0
  /\ Begin(w, [op |-> "birthday", read |-> member])

CommitBirthday(w) ==
  LET r == request[w] IN
  /\ Doing(w, "birthday")
  /\ member' = Written([r.read EXCEPT !.points = @ + Bonus], r.read)
  /\ greeted' = greeted + 1
  /\ Becomes(w, Idle)
  /\ UNCHANGED <<order, lastSeq, entries, lapsed, usedBy>>

---------------------------------------------------------------------------
Handle(w) ==
  \/ \E o \in Orders : Upload(w, o)
  \/ FindSequence(w) \/ InsertSequence(w) \/ CommitUpload(w) \/ Abort(w)
  \/ RecordPoints(w) \/ CommitPoints(w)
  \/ UpdateMember(w) \/ CommitMember(w)
  \/ RedeemCoupon(w) \/ CommitCoupon(w)
  \/ Refund(w) \/ Void(w) \/ CommitReverse(w)
  \/ ExpirePoints(w) \/ CommitExpire(w)
  \/ RewardBirthday(w) \/ CommitBirthday(w)

Next ==
  \/ \E w \in Workers : Handle(w)
  \/ \E o \in Orders : Lapse(o)

Spec == Init /\ [][Next]_loyaltyVars

---------------------------------------------------------------------------
Stored == {o \in Orders : order[o] # None}

(* allocate_order_no gives the stored orders of a day the numbers from 1   *)
(* to the row's last_seq, each to one order, however uploads overlap, are  *)
(* retried or fail.                                                        *)
NumbersHaveNoGap ==
  \A d \in Days :
    LET sold == {o \in Stored : Sale[o].day = d} IN
    /\ {order[o].no : o \in sold} = 1..Cardinality(sold)
    /\ lastSeq[d] = (IF sold = {} THEN None ELSE Cardinality(sold))

(* upload_order books the points of a sale and takes its coupon exactly    *)
(* when it stores the order, once, also of an order uploaded twice at a    *)
(* time; and of a day's orders one at most has a coupon.                   *)
SalesArePosted ==
  /\ \A o \in Orders :
       /\ Len(entries[o].redeem) = (IF o \in Stored /\ Sale[o].redeem > 0 THEN 1 ELSE 0)
       /\ Len(entries[o].earn) <= (IF o \in Stored THEN 1 ELSE 0)
       /\ o \in Stored /\ Sale[o].coupon # None => usedBy[Sale[o].coupon] # None
  /\ \A o, q \in Stored :
       o # q /\ Sale[o].day = Sale[q].day /\ Sale[o].coupon # None =>
         Sale[o].coupon # Sale[q].coupon

(* A sale that is stored has the next number of its day, and its points    *)
(* and its coupon are booked with it.                                      *)
SaleIsNumberedAndPosted == NumbersHaveNoGap /\ SalesArePosted

=============================================================================
