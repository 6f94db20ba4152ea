------------------------------- MODULE Reports -------------------------------
(***************************************************************************)
(* The reports a tenant reads about its orders while they are refunded,    *)
(* voided and reviewed: apps/api/app/api/v1/reports.py, analytics.py and   *)
(* services/reporting.py.                                                  *)
(*                                                                         *)
(* A report is one query, or a few, over the rows that are committed: here *)
(* it is an operator on the state of OrderReview.  An order has one        *)
(* payment, and a sale's time is client_created_at, when the till rang it  *)
(* up.  Left out are ratios, the order of the rows, and rows beyond the    *)
(* limit of a ranking.                                                     *)
(***************************************************************************)
EXTENDS OrderReview, FiniteSetsExt

CONSTANTS
  Stores, Zones,
  SaleTime(_),    \* SaleTime(o): business_ts of order o
  StoreOf(_), MethodOf(_),
  ProductOf(_),   \* the product of the one line of order o
  CategoryOf(_),  \* the category of a product
  Discount(_),    \* discount_cents of order o
  FromGuest,      \* the orders with a source_guest_order_id
  Second,         \* the ticks of the database's clock in a second
  Hour,           \* in an hour
  Day,            \* and in a day
  Limits,         \* the totals at which a bucket of aov_distribution begins
  Ceiling,        \* and the one at which the last bucket ends
  Ranges          \* the pairs of since and until that are asked for

VARIABLES
  gone,     \* the stores that are deleted
  zone      \* how far the tenant's time zone is ahead

reportVars == <<vars, gone, zone>>

(* Amounts are cents; times are ticks, of which a second has several, for  *)
(* the tills' clocks are finer than a second.  A period ends no earlier    *)
(* than it begins, and the first bucket of aov_distribution begins at      *)
(* nothing.                                                                *)
ReportsParameters ==
  /\ IsFiniteSet(Orders) /\ IsFiniteSet(Refunds)
  /\ \A o \in Orders : SaleTime(o) \in Int /\ Discount(o) \in Nat
  /\ Zones \subseteq Int
  /\ Ranges \subseteq Int \X Int /\ \A range \in Ranges : range[1] <= range[2]
  /\ Second \in Nat \ {0} /\ Day \in Nat \ {0}
  /\ IsFiniteSet(Limits) /\ Limits \subseteq Nat /\ 0 \in Limits
  /\ Ceiling \in Nat
  /\ "all" \notin Stores

ReportsTypeOK == TypeOK /\ gone \subseteq Stores /\ zone \in Zones

ReportsInit == Init /\ gone = {} /\ zone \in Zones

(* delete_store, whose orders stay.                                        *)
CloseStore(s) ==
  /\ s \notin gone
  /\ gone' = gone \cup {s}
  /\ UNCHANGED <<vars, zone>>

(* update_general_settings                                                 *)
SetTimezone(z) ==
  /\ zone' = z
  /\ UNCHANGED <<vars, gone>>

ReportsNext ==
  \/ Next /\ UNCHANGED <<gone, zone>>
  \/ \E s \in Stores : CloseStore(s)
  \/ \E z \in Zones : SetTimezone(z)

ReportsSpec == ReportsInit /\ [][ReportsNext]_reportVars

---------------------------------------------------------------------------
(* Mistaken: an order is out of the report with its first refund.          *)
PaidOnly == {"paid"}

SaleStatuses == {"paid", "partiallyRefunded"}

(* base_order_filters and apply_date_range, of one store or of all.         *)
Sales(range, s) ==
  {o \in Orders : /\ order[o].status \in SaleStatuses
                  /\ SaleTime(o) \in range[1]..range[2]
                  /\ s \in Stores => StoreOf(o) = s}

SumOf(amounts) == MapThenSumSet(LAMBDA x : amounts[x], DOMAIN amounts)

Sum(sales, value(_)) == SumOf([o \in sales |-> value(o)])

NetOf(o) == Total(o) - order[o].refunded
RefundedOf(o) == order[o].refunded

Figures(sales) ==
  [gross |-> Sum(sales, Total), net |-> Sum(sales, NetOf), count |-> Cardinality(sales),
   refund |-> Sum(sales, RefundedOf), qr |-> Cardinality(sales \cap FromGuest)]

(* _summary_for_period                                                     *)
Summary(range, s) == Figures(Sales(range, s))

(* Mistaken: the period before ends when this one begins.                  *)
PriorPeriodTouching(range) == <<range[1] - (range[2] - range[1]), range[1]>>

(* prior_period                                                            *)
PriorPeriod(range) ==
  <<range[1] - (range[2] - range[1]) - Second, range[1] - Second>>

(* The tenant's calendar (_date_bucket, hourly_heatmap, weekday_pattern).  *)
DayOf(o) == (SaleTime(o) + zone) \div Day
HourOf(o) == ((SaleTime(o) + zone) % Day) \div Hour
WeekdayOf(o) == LET dow == (DayOf(o) + 4) % 7 IN (dow + 6) % 7

(* The rows of a GROUP BY: a key that no order has is in no row.           *)
GroupBy(sales, key(_)) ==
  [k \in {key(o) : o \in sales} |-> Figures({o \in sales : key(o) = k})]

DailySeries(range, s) == GroupBy(Sales(range, s), DayOf)

HourlyHeatmap(range, s) ==
  LET cell(o) == <<WeekdayOf(o), HourOf(o)>> IN GroupBy(Sales(range, s), cell)

WeekdayPattern(range, s) ==
  [d \in 0..6 |-> Figures({o \in Sales(range, s) : WeekdayOf(o) = d})]

PaymentMix(range, s) == GroupBy(Sales(range, s), MethodOf)

(* Reports about lines: a line's total is before the order's discount.     *)
LineTotal(o) == Total(o) + Discount(o)

ByLine(sales, key(_)) ==
  [k \in {key(o) : o \in sales} |->
     [revenue |-> Sum({o \in sales : key(o) = k}, LineTotal)]]

TopProducts(range, s) == ByLine(Sales(range, s), ProductOf)

CategoryMix(range, s) ==
  LET category(o) == CategoryOf(ProductOf(o)) IN ByLine(Sales(range, s), category)

DiscountStats(range, s) ==
  LET sales == Sales(range, s) IN
  [discount |-> Sum(sales, Discount), revenue |-> Sum(sales, LineTotal),
   orders |-> Cardinality({o \in sales : Discount(o) > 0})]

(* store_comparison: the stores that are not deleted.                      *)
StoreComparison(range) ==
  [s \in Stores \ gone |-> Figures({o \in Sales(range, "all") : StoreOf(o) = s})]

(* aov_distribution, whose last bucket is not open.                        *)
AovDistribution(range, s) ==
  [low \in Limits |->
     Cardinality({o \in Sales(range, s) :
       /\ Total(o) >= low /\ Total(o) < Ceiling
       /\ \A higher \in Limits : higher > low => Total(o) < higher})]

---------------------------------------------------------------------------
(* What was paid for order o, less what was given back; for an order that  *)
(* had more given back than it cost, nothing.                              *)
Kept(o) ==
  LET back == Sum({r \in RefundsOf(o) : refund[r] = "approved"}, Amount)
  IN IF order[o].status = "none" \/ back > Total(o) THEN 0 ELSE Total(o) - back

(* The net revenue of any period is the money that its sales brought in    *)
(* and that was not given back, in whatever order refunds and voids were   *)
(* asked for, approved and turned down: an order that is refunded in full  *)
(* leaves the report, and takes with it just what it was still counted     *)
(* for.  Left out are orders whose void was approved, which a refund that  *)
(* was filed before brings back into the report (approve_refund).  It      *)
(* holds of reviews that are handled one at a time; of two that overlap    *)
(* one may be missing from refunded_cents.                                 *)
NetIsMoneyKept ==
  \A range \in Ranges :
    LET sold == {o \in Orders : SaleTime(o) \in range[1]..range[2]}
    IN (\A o \in sold : order[o].void # "approved")
         => Summary(range, "all").net = Sum(sold, Kept)

(* What lies between a period and the one that it is compared with.        *)
Between(range) == <<range[1] - Second + 1, range[1] - 1>>

AddsUp(rows, whole, column) ==
  SumOf([k \in DOMAIN rows |-> rows[k][column]]) = whole[column]

(* The reports of one page show the same takings: the days, the hours, the *)
(* weekdays, the means of payment and the classes of totals add up to the  *)
(* summary of the same period, but for orders beyond the last class; so do *)
(* the stores, but for those that have been deleted; products and          *)
(* categories add up to it before discounts; and a period and the one it   *)
(* is compared with share no sale, and leave out between them those of     *)
(* less than a second before the period, and no others.                    *)
ReportsAgree ==
  \A range \in Ranges, s \in Stores \cup {"all"} :
    LET whole == Summary(range, s)
        both == <<PriorPeriod(range)[1], range[2]>>
    IN /\ \A column \in {"gross", "net", "count"} : AddsUp(DailySeries(range, s), whole, column)
       /\ \A column \in {"gross", "count"} :
            /\ AddsUp(HourlyHeatmap(range, s), whole, column)
            /\ AddsUp(WeekdayPattern(range, s), whole, column)
            /\ AddsUp(PaymentMix(range, s), whole, column)
            /\ Summary(PriorPeriod(range), s)[column] + Summary(Between(range), s)[column]
                 + whole[column] = Summary(both, s)[column]
       /\ SumOf(AovDistribution(range, s))
            = Cardinality({o \in Sales(range, s) : Total(o) < Ceiling})
       /\ AddsUp(TopProducts(range, s), DiscountStats(range, s), "revenue")
       /\ AddsUp(CategoryMix(range, s), DiscountStats(range, s), "revenue")
       /\ DiscountStats(range, s).revenue - DiscountStats(range, s).discount = whole.gross
       /\ s \in Stores \ gone => StoreComparison(range)[s] = whole

TakingsAreReported == NetIsMoneyKept /\ ReportsAgree

=============================================================================
