---------------------------- MODULE SalesProofs ----------------------------
(***************************************************************************)
(* What the back office guarantees of what is sold, for any number of      *)
(* orders, books, tickets and workers, and requests that overlap in any    *)
(* way: the numbers and points of sales (Loyalty), books on consignment    *)
(* and their settlement (Books), and the places of an event (Events).       *)
(***************************************************************************)
EXTENDS OrderReviewProofs, SequenceTheorems, FiniteSetTheorems, WellFoundedInduction

---------------------------------------------------------------------------
(* The sales of a member and the numbers that they are given (Loyalty).    *)
(* Loyalty counts with the same Cardinality.                               *)
LEMMA CountsOfLoyalty ==
  /\ \A S : Points!Cardinality(S) = Cardinality(S)
  /\ \A S : Points!IsFiniteSet(S) <=> IsFiniteSet(S)
BY DEF Cardinality, Points!Cardinality, IsFiniteSet, Points!IsFiniteSet

SaleDay(o) == Uploads[o].day

IsStored(o) == sales[o] \in Points!OrderRow

(* What a request still knows when it commits.  An upload has the next     *)
(* number of its day, and its order is not stored; a refund or a void has  *)
(* the number of the order as it is.                                       *)
Fits(r) ==
  /\ r.op \in {"upload", "insert", "numbered"} =>
       r.of \in Uploaded /\ {"op", "of", "no"} \subseteq DOMAIN r
  /\ r.op = "numbered" => sales[r.of] = None /\ r.no = Points!NextNo(SaleDay(r.of))
  /\ r.op = "reverse" =>
       /\ r.of \in Uploaded /\ IsStored(r.of)
       /\ r.row \in Points!OrderRow /\ r.row.no = sales[r.of].no

(* One upload at a time has the row of its day locked.                     *)
RequestsFit ==
  /\ DOMAIN request = Workers
  /\ \A w \in Workers : Fits(request[w])
  /\ \A v, w \in Workers :
       v # w /\ request[v].op = "numbered" /\ request[w].op = "numbered" =>
         SaleDay(request[v].of) # SaleDay(request[w].of)

EntriesOfStored ==
  /\ DOMAIN entries = Uploaded
  /\ \A o \in Uploaded :
       /\ {"earn", "redeem"} \subseteq DOMAIN entries[o]
       /\ sales[o] = None => entries[o].earn = <<>> /\ entries[o].redeem = <<>>

LoyaltyRows ==
  /\ sales \in [Uploaded -> Points!OrderRow \cup {None}]
  /\ lastSeq \in [Days -> Nat \cup {None}]
  /\ DOMAIN usedBy = Coupons
  /\ EntriesOfStored
  /\ Points!NumbersHaveNoGap /\ Points!SalesArePosted

LoyaltyInv == LoyaltyRows /\ RequestsFit

LEMMA LoyaltyInit == ASSUME Points!LoyaltyParameters, Points!Init PROVE LoyaltyInv
<1>1. Points!Stored = {}
  BY DEF Points!Init, Points!Stored
<1>2. Points!NumbersHaveNoGap
  <2> SUFFICES ASSUME NEW d \in Days
               PROVE  LET sold == {o \in Points!Stored : Uploads[o].day = d} IN
                      /\ {sales[o].no : o \in sold} = 1..Points!Cardinality(sold)
                      /\ lastSeq[d] = (IF sold = {} THEN None ELSE Points!Cardinality(sold))
    BY DEF Points!NumbersHaveNoGap
  <2>1. {o \in Points!Stored : Uploads[o].day = d} = {}
    BY <1>1
  <2>2. Points!Cardinality({}) = 0
    BY CountsOfLoyalty, FS_EmptySet
  <2>3. {sales[o].no : o \in {}} = 1..0
    OBVIOUS
  <2>4. lastSeq[d] = None
    BY DEF Points!Init
  <2> QED
    BY <2>1, <2>2, <2>3, <2>4
<1>3. Points!SalesArePosted
  BY <1>1 DEF Points!Init, Points!SalesArePosted, Points!NoEntries
<1> QED
  BY <1>2, <1>3 DEF Points!Init, LoyaltyInv, LoyaltyRows, RequestsFit, EntriesOfStored,
                    Fits, Points!Idle, Points!NoEntries

(* A request goes on to r, and stores no order.                            *)
LEMMA RequestsStay ==
  ASSUME LoyaltyInv, NEW w \in Workers, NEW r, request' = [request EXCEPT ![w] = r],
         UNCHANGED <<sales, lastSeq>>, Fits(r),
         r.op = "numbered" => Points!Unlocked(w, SaleDay(r.of))
  PROVE  RequestsFit'
<1>1. \A v \in Workers : request'[v] = IF v = w THEN r ELSE request[v]
  BY DEF LoyaltyInv, RequestsFit
<1>2. DOMAIN request' = Workers
  BY DEF LoyaltyInv, RequestsFit
<1>3. \A v \in Workers : Fits(request'[v])
  BY <1>1 DEF LoyaltyInv, RequestsFit
<1>4. \A q : Fits(q)' <=> Fits(q)
  BY DEF Fits, IsStored, Points!NextNo
<1>5. ASSUME NEW v \in Workers, NEW u \in Workers, v # u,
             request'[v].op = "numbered", request'[u].op = "numbered"
      PROVE  SaleDay(request'[v].of) # SaleDay(request'[u].of)
  BY <1>1, <1>5 DEF LoyaltyInv, RequestsFit, Points!Unlocked, Points!Locks, Points!Doing, SaleDay
<1>6. \A v \in Workers : Fits(request[v])'
  BY <1>3, <1>4 DEF Fits, IsStored, Points!NextNo
<1> QED
  BY <1>2, <1>5, <1>6 DEF RequestsFit, SaleDay

(* Nothing is written.                                                     *)
LEMMA SalesStay ==
  ASSUME LoyaltyInv, UNCHANGED <<sales, lastSeq, entries, usedBy>>
  PROVE  LoyaltyRows'
<1>1. UNCHANGED Points!Stored
  BY DEF Points!Stored
<1>2. Points!NumbersHaveNoGap'
  BY <1>1, Zenon DEF LoyaltyInv, LoyaltyRows, Points!NumbersHaveNoGap
<1>3. Points!SalesArePosted'
  BY <1>1 DEF LoyaltyInv, LoyaltyRows, Points!SalesArePosted
<1> QED
  BY <1>2, <1>3 DEF LoyaltyInv, LoyaltyRows, EntriesOfStored

LEMMA BecomesKeeps ==
  ASSUME LoyaltyInv, NEW w \in Workers, NEW r, request' = [request EXCEPT ![w] = r],
         UNCHANGED Points!rows, Fits(r),
         r.op = "numbered" => Points!Unlocked(w, SaleDay(r.of))
  PROVE  LoyaltyInv'
<1>1. UNCHANGED <<sales, lastSeq, entries, usedBy>>
  BY DEF Points!rows
<1>2. RequestsFit'
  BY <1>1, RequestsStay
<1> QED
  BY <1>1, <1>2, SalesStay DEF LoyaltyInv

Untied == {"none", "points", "level", "coupon", "expire", "birthday"}

LEMMA UntiedFits == ASSUME NEW r, r.op \in Untied PROVE Fits(r) /\ r.op # "numbered"
BY DEF Fits, Untied

(* The requests that read, but for refunds and voids.                      *)
LEMMA ReadsKeep ==
  ASSUME LoyaltyInv, NEW w \in Workers,
         \/ \E o \in Uploaded : Points!Upload(w, o)
         \/ Points!RecordPoints(w) \/ Points!UpdateMember(w) \/ Points!RedeemCoupon(w)
         \/ Points!ExpirePoints(w) \/ Points!RewardBirthday(w) \/ Points!Abort(w)
  PROVE  LoyaltyInv'
<1>1. ASSUME NEW o \in Uploaded, Points!Upload(w, o) PROVE LoyaltyInv'
  <2> DEFINE r == [op |-> "upload", of |-> o, no |-> 0, read |-> member]
  <2>1. request' = [request EXCEPT ![w] = r] /\ UNCHANGED Points!rows
    BY <1>1 DEF Points!Upload, Points!Begin
  <2>2. Fits(r) /\ r.op # "numbered"
    BY DEF Fits
  <2> HIDE DEF r
  <2> QED
    BY <2>1, <2>2, BecomesKeeps
<1>2. ASSUME NEW r, Points!Begin(w, r), r.op \in Untied PROVE LoyaltyInv'
  BY <1>2, UntiedFits, BecomesKeeps DEF Points!Begin
<1>3. CASE Points!RecordPoints(w)
  BY <1>2, <1>3 DEF Points!RecordPoints, Untied
<1>4. CASE Points!UpdateMember(w)
  BY <1>2, <1>4 DEF Points!UpdateMember, Untied
<1>5. CASE Points!RedeemCoupon(w)
  BY <1>2, <1>5 DEF Points!RedeemCoupon, Untied
<1>6. CASE Points!ExpirePoints(w)
  BY <1>2, <1>6 DEF Points!ExpirePoints, Untied
<1>7. CASE Points!RewardBirthday(w)
  BY <1>2, <1>7 DEF Points!RewardBirthday, Untied
<1>8. CASE Points!Abort(w)
  <2>1. Points!Idle.op \in Untied
    BY DEF Points!Idle, Untied
  <2> QED
    BY <1>8, <2>1, UntiedFits, BecomesKeeps DEF Points!Abort, Points!Becomes
<1> QED
  BY <1>1, <1>3, <1>4, <1>5, <1>6, <1>7, <1>8

(* The row of the day is found, locked or inserted.                        *)
LEMMA NumberedKeeps ==
  ASSUME LoyaltyInv, NEW w \in Workers, request[w].op \in {"upload", "insert"},
         Points!Numbered(w, request[w]), UNCHANGED Points!rows,
         Points!Unlocked(w, SaleDay(request[w].of))
  PROVE  LoyaltyInv'
<1>1. Fits(request[w])
  BY DEF LoyaltyInv, RequestsFit
<1>2. CASE Points!Becomes(w, Points!Idle)
  <2>1. Points!Idle.op \in Untied
    BY DEF Points!Idle, Untied
  <2> QED
    BY <1>2, <2>1, UntiedFits, BecomesKeeps DEF Points!Becomes
<1>3. CASE sales[request[w].of] = None
           /\ Points!Becomes(w, [request[w] EXCEPT
                !.op = "numbered", !.no = Points!NextNo(Uploads[request[w].of].day)])
  <2> DEFINE r == [request[w] EXCEPT
                !.op = "numbered", !.no = Points!NextNo(Uploads[request[w].of].day)]
  <2>1. r.op = "numbered" /\ r.of = request[w].of /\ r.no = Points!NextNo(SaleDay(request[w].of))
        /\ {"op", "of", "no"} \subseteq DOMAIN r
    BY <1>1 DEF Fits, SaleDay
  <2>2. request' = [request EXCEPT ![w] = r]
    BY <1>3 DEF Points!Becomes
  <2> HIDE DEF r
  <2>3. Fits(r)
    BY <1>1, <1>3, <2>1 DEF Fits
  <2>4. r.op = "numbered" => Points!Unlocked(w, SaleDay(r.of))
    BY <2>1
  <2> QED
    BY <2>2, <2>3, <2>4, BecomesKeeps
<1> QED
  BY <1>2, <1>3 DEF Points!Numbered

LEMMA SequenceKeeps ==
  ASSUME LoyaltyInv, NEW w \in Workers, Points!FindSequence(w) \/ Points!InsertSequence(w)
  PROVE  LoyaltyInv'
<1>1. Fits(request[w]) /\ request[w].op \in {"upload", "insert"} /\ UNCHANGED Points!rows
  BY DEF LoyaltyInv, RequestsFit, Points!FindSequence, Points!InsertSequence, Points!Doing
<1>2. \/ Points!Becomes(w, Points!Idle)
      \/ Points!Becomes(w, [request[w] EXCEPT !.op = "insert"])
      \/ Points!Unlocked(w, SaleDay(request[w].of)) /\ Points!Numbered(w, request[w])
  BY DEF Points!FindSequence, Points!InsertSequence, SaleDay
<1>3. CASE Points!Becomes(w, Points!Idle)
  <2>1. Points!Idle.op \in Untied
    BY DEF Points!Idle, Untied
  <2> QED
    BY <1>1, <1>3, <2>1, UntiedFits, BecomesKeeps DEF Points!Becomes
<1>4. CASE Points!Becomes(w, [request[w] EXCEPT !.op = "insert"])
  <2> DEFINE r == [request[w] EXCEPT !.op = "insert"]
  <2>1. r.op = "insert" /\ r.of = request[w].of /\ {"op", "of", "no"} \subseteq DOMAIN r
    BY <1>1 DEF Fits
  <2>2. request' = [request EXCEPT ![w] = r]
    BY <1>4 DEF Points!Becomes
  <2> HIDE DEF r
  <2>3. Fits(r) /\ r.op # "numbered"
    BY <1>1, <2>1 DEF Fits
  <2> QED
    BY <1>1, <2>2, <2>3, BecomesKeeps
<1>5. CASE Points!Unlocked(w, SaleDay(request[w].of)) /\ Points!Numbered(w, request[w])
  BY <1>1, <1>5, NumberedKeeps
<1> QED
  BY <1>2, <1>3, <1>4, <1>5

(* A refund or a void of a stored order.                                   *)
LEMMA ReverseKeeps ==
  ASSUME Points!LoyaltyParameters, LoyaltyInv, NEW w \in Workers,
         Points!Refund(w) \/ Points!Void(w)
  PROVE  LoyaltyInv'
<1>1. ASSUME NEW o \in Uploaded, NEW cents, NEW row, sales[o] # None,
             row \in Points!OrderRow, row.no = sales[o].no,
             Points!Begin(w, [op |-> "reverse", of |-> o, cents |-> cents, read |-> member,
                              row |-> row])
      PROVE  LoyaltyInv'
  <2> DEFINE r == [op |-> "reverse", of |-> o, cents |-> cents, read |-> member, row |-> row]
  <2>1. IsStored(o)
    BY <1>1 DEF IsStored, LoyaltyInv, LoyaltyRows
  <2>2. Fits(r) /\ r.op # "numbered"
    BY <1>1, <2>1 DEF Fits
  <2>3. request' = [request EXCEPT ![w] = r] /\ UNCHANGED Points!rows
    BY <1>1 DEF Points!Begin
  <2> HIDE DEF r
  <2> QED
    BY <2>2, <2>3, BecomesKeeps
<1>2. CASE Points!Refund(w)
  <2>1. PICK o \in Uploaded, cents \in SaleRefunds :
          /\ sales[o] # None
          /\ Points!Begin(w, [op |-> "reverse", of |-> o, cents |-> cents, read |-> member,
               row |-> [sales[o] EXCEPT
                 !.refunded = @ + cents,
                 !.status = IF sales[o].refunded + cents >= Uploads[o].total
                            THEN "refunded" ELSE "partiallyRefunded"]])
    BY <1>2 DEF Points!Refund
  <2> DEFINE row == [sales[o] EXCEPT
                 !.refunded = @ + cents,
                 !.status = IF sales[o].refunded + cents >= Uploads[o].total
                            THEN "refunded" ELSE "partiallyRefunded"]
  <2>2. sales[o] \in Points!OrderRow /\ cents \in Nat
    BY <2>1 DEF LoyaltyInv, LoyaltyRows, Points!LoyaltyParameters
  <2>3. row \in Points!OrderRow /\ row.no = sales[o].no
    <3> DEFINE s == IF sales[o].refunded + cents >= Uploads[o].total
                    THEN "refunded" ELSE "partiallyRefunded"
    <3>1. s \in {"refunded", "partiallyRefunded"}
      OBVIOUS
    <3>2. row = [sales[o] EXCEPT !.refunded = @ + cents, !.status = s]
      OBVIOUS
    <3>3. PICK n \in Nat : n = sales[o].refunded + cents
      BY <2>2 DEF Points!OrderRow
    <3>4. row = [sales[o] EXCEPT !.refunded = n, !.status = s]
      BY <3>2, <3>3
    <3> HIDE DEF row, s
    <3> QED
      BY <2>2, <3>1, <3>4 DEF Points!OrderRow
  <2>4. Points!Begin(w, [op |-> "reverse", of |-> o, cents |-> cents, read |-> member, row |-> row])
    BY <2>1
  <2> HIDE DEF row
  <2> QED
    BY <1>1, <2>1, <2>3, <2>4
<1>3. CASE Points!Void(w)
  <2>1. PICK o \in Uploaded :
          /\ sales[o] # None
          /\ Points!Begin(w, [op |-> "reverse", of |-> o, cents |-> Uploads[o].total,
               read |-> member, row |-> [sales[o] EXCEPT !.status = "voided"]])
    BY <1>3 DEF Points!Void
  <2> DEFINE row == [sales[o] EXCEPT !.status = "voided"]
  <2>2. sales[o] \in Points!OrderRow
    BY <2>1 DEF LoyaltyInv, LoyaltyRows
  <2>3. row \in Points!OrderRow /\ row.no = sales[o].no
    BY <2>2 DEF Points!OrderRow
  <2>4. Points!Begin(w, [op |-> "reverse", of |-> o, cents |-> Uploads[o].total, read |-> member,
                         row |-> row])
    BY <2>1
  <2> HIDE DEF row
  <2> QED
    BY <1>1, <2>1, <2>3, <2>4
<1> QED
  BY <1>2, <1>3

(* The requests that write, and store no order.                            *)
LEMMA RequestEnds ==
  ASSUME LoyaltyInv, NEW w \in Workers, Points!Becomes(w, Points!Idle),
         UNCHANGED <<sales, lastSeq>>
  PROVE  RequestsFit'
<1>1. Points!Idle.op \in Untied
  BY DEF Points!Idle, Untied
<1>2. Fits(Points!Idle) /\ Points!Idle.op # "numbered"
  BY <1>1, UntiedFits
<1> QED
  BY <1>2, RequestsStay DEF Points!Becomes

LEMMA WritesKeep ==
  ASSUME LoyaltyInv, NEW w \in Workers,
         \/ Points!CommitPoints(w) \/ Points!CommitMember(w) \/ Points!CommitBirthday(w)
         \/ Points!CommitCoupon(w) \/ Points!CommitExpire(w)
  PROVE  LoyaltyInv'
<1>1. Points!Becomes(w, Points!Idle) /\ UNCHANGED <<sales, lastSeq>>
  BY DEF Points!CommitPoints, Points!CommitMember, Points!CommitBirthday,
         Points!CommitCoupon, Points!CommitExpire
<1>2. RequestsFit'
  BY <1>1, RequestEnds
<1>3. CASE UNCHANGED <<entries, usedBy>>
  BY <1>1, <1>2, <1>3, SalesStay DEF LoyaltyInv
<1>4. UNCHANGED Points!Stored
  BY <1>1 DEF Points!Stored
<1>5. Points!NumbersHaveNoGap'
  BY <1>1, <1>4, Zenon DEF LoyaltyInv, LoyaltyRows, Points!NumbersHaveNoGap
<1>6. CASE Points!CommitCoupon(w)
  <2>1. usedBy' = [usedBy EXCEPT ![request[w].coupon] = "counter"] /\ UNCHANGED entries
    BY <1>6 DEF Points!CommitCoupon
  <2>2. "counter" # None
    BY LoyaltyParametersHold DEF Points!LoyaltyParameters
  <2>3. DOMAIN usedBy' = Coupons /\ \A c \in Coupons : usedBy[c] # None => usedBy'[c] # None
    BY <2>1, <2>2 DEF LoyaltyInv, LoyaltyRows
  <2>4. \A o \in Points!Stored : o \in Uploaded /\ Uploads[o].coupon \in Coupons \cup {None}
    BY LoyaltyParametersHold DEF Points!LoyaltyParameters, Points!Stored
  <2>5. Points!SalesArePosted'
    BY <1>4, <2>1, <2>3, <2>4 DEF LoyaltyInv, LoyaltyRows, Points!SalesArePosted
  <2> QED
    BY <1>1, <1>2, <1>5, <2>1, <2>3, <2>5 DEF LoyaltyInv, LoyaltyRows, EntriesOfStored
<1>7. CASE Points!CommitExpire(w)
  <2>1. /\ entries' = [o \in Uploaded |-> IF o \in request[w].of
                       THEN [entries[o] EXCEPT !.expire = @ + 1] ELSE entries[o]]
        /\ UNCHANGED usedBy
    BY <1>7 DEF Points!CommitExpire
  <2>2. \A o \in Uploaded :
          /\ {"earn", "redeem"} \subseteq DOMAIN entries'[o]
          /\ entries'[o].earn = entries[o].earn /\ entries'[o].redeem = entries[o].redeem
    BY <2>1 DEF LoyaltyInv, LoyaltyRows, EntriesOfStored
  <2>3. Points!SalesArePosted'
    BY <1>4, <2>1, <2>2 DEF LoyaltyInv, LoyaltyRows, Points!SalesArePosted
  <2>4. EntriesOfStored'
    BY <1>1, <2>1, <2>2 DEF LoyaltyInv, LoyaltyRows, EntriesOfStored
  <2> QED
    BY <1>1, <1>2, <1>5, <2>1, <2>3, <2>4 DEF LoyaltyInv, LoyaltyRows
<1>8. CASE Points!CommitPoints(w) \/ Points!CommitMember(w) \/ Points!CommitBirthday(w)
  BY <1>3, <1>8 DEF Points!CommitPoints, Points!CommitMember, Points!CommitBirthday
<1> QED
  BY <1>6, <1>7, <1>8

LEMMA LapseKeeps ==
  ASSUME LoyaltyInv, (\E o \in Uploaded : Points!Lapse(o)) \/ UNCHANGED Points!loyaltyVars
  PROVE  LoyaltyInv'
<1>1. UNCHANGED <<sales, lastSeq, entries, usedBy, request>>
  BY DEF Points!Lapse, Points!loyaltyVars
<1>2. RequestsFit'
  BY <1>1 DEF LoyaltyInv, RequestsFit, Fits, IsStored, Points!NextNo, SaleDay
<1> QED
  BY <1>1, <1>2, SalesStay DEF LoyaltyInv

(* The orders that are stored have their numbers still.                    *)
LEMMA NumbersStay ==
  ASSUME LoyaltyInv, NEW d \in Days, NEW sold,
         sold = {o \in Points!Stored : Uploads[o].day = d},
         sold = {o \in Points!Stored' : Uploads[o].day = d},
         \A o \in sold : sales'[o].no = sales[o].no, lastSeq'[d] = lastSeq[d]
  PROVE  /\ {sales'[o].no : o \in sold} = 1..Points!Cardinality(sold)
         /\ lastSeq'[d] = (IF sold = {} THEN None ELSE Points!Cardinality(sold))
<1>1. /\ {sales[o].no : o \in sold} = 1..Points!Cardinality(sold)
      /\ lastSeq[d] = (IF sold = {} THEN None ELSE Points!Cardinality(sold))
  BY DEF LoyaltyInv, LoyaltyRows, Points!NumbersHaveNoGap
<1>2. {sales'[o].no : o \in sold} = {sales[o].no : o \in sold}
  OBVIOUS
<1> QED
  BY <1>1, <1>2

LEMMA CommitReverseKeeps ==
  ASSUME LoyaltyInv, NEW w \in Workers, Points!CommitReverse(w)
  PROVE  LoyaltyInv'
<1>1. PICK r : r = request[w] /\ r.op = "reverse"
  BY DEF Points!CommitReverse, Points!Doing
<1>2. /\ sales' = [sales EXCEPT ![r.of] = r.row]
      /\ request' = [request EXCEPT ![w] = Points!Idle]
      /\ UNCHANGED <<lastSeq, entries, usedBy>>
  BY <1>1 DEF Points!CommitReverse, Points!Becomes
<1>3. /\ r.of \in Uploaded /\ IsStored(r.of)
      /\ r.row \in Points!OrderRow /\ r.row.no = sales[r.of].no
  BY <1>1 DEF LoyaltyInv, RequestsFit, Fits
<1>4. None \notin Points!OrderRow
  BY LoyaltyParametersHold DEF Points!LoyaltyParameters, Points!OrderRow
<1>5. /\ sales' \in [Uploaded -> Points!OrderRow \cup {None}]
      /\ \A o \in Uploaded : sales'[o] = None <=> sales[o] = None
      /\ \A o \in Uploaded : sales'[o].no = sales[o].no
  BY <1>2, <1>3, <1>4 DEF LoyaltyInv, LoyaltyRows, IsStored
<1>6. UNCHANGED Points!Stored /\ Points!Stored \subseteq Uploaded
  BY <1>5 DEF Points!Stored
<1>7. Points!NumbersHaveNoGap'
  <2> SUFFICES ASSUME NEW d \in Days, NEW sold, sold = {o \in Points!Stored' : Uploads[o].day = d}
               PROVE  /\ {sales'[o].no : o \in sold} = 1..Points!Cardinality(sold)
                      /\ lastSeq'[d] = (IF sold = {} THEN None ELSE Points!Cardinality(sold))
    BY Zenon DEF Points!NumbersHaveNoGap
  <2> QED
    BY <1>2, <1>5, <1>6, NumbersStay
<1>8. Points!SalesArePosted'
  BY <1>2, <1>6 DEF LoyaltyInv, LoyaltyRows, Points!SalesArePosted
<1>9. EntriesOfStored'
  BY <1>2, <1>5 DEF LoyaltyInv, LoyaltyRows, EntriesOfStored
<1>10. RequestsFit'
  <2>1. DOMAIN request' = Workers /\ request'[w] = Points!Idle
        /\ \A v \in Workers \ {w} : request'[v] = request[v]
    BY <1>2 DEF LoyaltyInv, RequestsFit
  <2>2. Points!Idle.op = "none"
    BY DEF Points!Idle
  <2>3. ASSUME NEW v \in Workers PROVE Fits(request[v])'
    <3>1. CASE v = w
      BY <2>1, <2>2, <3>1 DEF Fits
    <3>2. CASE v # w
      <4>1. Fits(request[v]) /\ request'[v] = request[v]
        BY <2>1, <3>2 DEF LoyaltyInv, RequestsFit
      <4> QED
        BY <1>2, <1>3, <1>5, <4>1 DEF Fits, IsStored, Points!NextNo, LoyaltyInv, LoyaltyRows
    <3> QED
      BY <3>1, <3>2
  <2>4. ASSUME NEW u \in Workers, NEW v \in Workers, u # v,
               request'[u].op = "numbered", request'[v].op = "numbered"
        PROVE  SaleDay(request'[u].of) # SaleDay(request'[v].of)
    BY <2>1, <2>2, <2>4 DEF LoyaltyInv, RequestsFit
  <2> QED
    BY <2>1, <2>3, <2>4 DEF RequestsFit, SaleDay
<1> QED
  BY <1>2, <1>5, <1>7, <1>8, <1>9, <1>10 DEF LoyaltyInv, LoyaltyRows

(* The order is stored under its number, with its points and its coupon.   *)
LEMMA CommitUploadKeeps ==
  ASSUME LoyaltyInv, NEW w \in Workers, Points!CommitUpload(w)
  PROVE  LoyaltyInv'
<1>1. PICK r : r = request[w] /\ r.op = "numbered"
  BY DEF Points!CommitUpload, Points!Doing
<1>2. PICK o \in Uploaded : o = r.of /\ sales[o] = None /\ r.no = Points!NextNo(SaleDay(o))
  BY <1>1 DEF LoyaltyInv, RequestsFit, Fits
<1>3. PICK day \in Days : day = Uploads[o].day
  BY LoyaltyParametersHold DEF Points!LoyaltyParameters
<1>4. PICK earned : entries' = [entries EXCEPT
                      ![o].earn = @ \o Points!Booked(earned),
                      ![o].redeem = @ \o Points!Booked(Uploads[o].redeem)]
  BY <1>1, <1>2 DEF Points!CommitUpload
<1>5. /\ lastSeq' = [lastSeq EXCEPT ![day] = r.no]
      /\ sales' = [sales EXCEPT ![o] = [no |-> r.no, status |-> "paid", refunded |-> 0]]
      /\ usedBy' = [c \in Coupons |-> IF c = Uploads[o].coupon THEN o ELSE usedBy[c]]
      /\ request' = [request EXCEPT ![w] = Points!Idle]
      /\ Uploads[o].coupon # None => usedBy[Uploads[o].coupon] = None
  BY <1>1, <1>2, <1>3 DEF Points!CommitUpload, Points!Becomes, Points!Redeemable
<1>6. /\ None \notin Points!OrderRow /\ None \notin Nat /\ o # None
      /\ Uploads[o].coupon \in Coupons \cup {None} /\ IsFiniteSet(Uploaded)
  BY LoyaltyParametersHold, CountsOfLoyalty DEF Points!LoyaltyParameters, Points!OrderRow
<1>7. r.no \in Nat \ {0} /\ r.no = IF lastSeq[day] = None THEN 1 ELSE lastSeq[day] + 1
  BY <1>2, <1>3, <1>6 DEF LoyaltyInv, LoyaltyRows, Points!NextNo, SaleDay
<1>8. /\ sales' \in [Uploaded -> Points!OrderRow \cup {None}]
      /\ sales'[o] \in Points!OrderRow /\ sales'[o].no = r.no
      /\ \A q \in Uploaded \ {o} : sales'[q] = sales[q]
  BY <1>5, <1>7 DEF LoyaltyInv, LoyaltyRows, Points!OrderRow
<1>9. /\ lastSeq' \in [Days -> Nat \cup {None}] /\ lastSeq'[day] = r.no
      /\ \A d \in Days \ {day} : lastSeq'[d] = lastSeq[d]
  BY <1>5, <1>7 DEF LoyaltyInv, LoyaltyRows
<1>10. Points!Stored' = Points!Stored \cup {o} /\ o \notin Points!Stored
       /\ Points!Stored \subseteq Uploaded
  BY <1>2, <1>6, <1>8 DEF Points!Stored
<1>11. Points!NumbersHaveNoGap'
  <2> SUFFICES ASSUME NEW d \in Days, NEW sold, sold = {q \in Points!Stored' : Uploads[q].day = d}
               PROVE  /\ {sales'[q].no : q \in sold} = 1..Points!Cardinality(sold)
                      /\ lastSeq'[d] = (IF sold = {} THEN None ELSE Points!Cardinality(sold))
    BY Zenon DEF Points!NumbersHaveNoGap
  <2>1. CASE d # day
    <3>1. sold = {q \in Points!Stored : Uploads[q].day = d}
      BY <1>3, <1>10, <2>1
    <3>2. \A q \in sold : sales'[q].no = sales[q].no
      BY <1>8, <1>10, <3>1
    <3> QED
      BY <1>9, <2>1, <3>1, <3>2, NumbersStay
  <2>2. CASE d = day
    <3>1. PICK before : before = {q \in Points!Stored : Uploads[q].day = day}
      OBVIOUS
    <3>2. sold = before \cup {o} /\ o \notin before /\ before \subseteq Uploaded
      BY <1>3, <1>10, <2>2, <3>1
    <3>3. /\ {sales[q].no : q \in before} = 1..Points!Cardinality(before)
          /\ lastSeq[day] = (IF before = {} THEN None ELSE Points!Cardinality(before))
      BY <3>1 DEF LoyaltyInv, LoyaltyRows, Points!NumbersHaveNoGap
    <3>4. IsFiniteSet(before)
      BY <1>6, <3>2, FS_Subset
    <3>5. /\ Points!Cardinality(before) \in Nat
          /\ Points!Cardinality(sold) = Points!Cardinality(before) + 1
          /\ before = {} => Points!Cardinality(before) = 0
      <4>1. Cardinality(before) \in Nat
        BY <3>4, FS_CardinalityType
      <4>2. Cardinality(before \cup {o}) = Cardinality(before) + 1
        BY <3>2, <3>4, FS_AddElement
      <4>3. Cardinality({}) = 0
        BY FS_EmptySet
      <4> QED
        BY <3>2, <4>1, <4>2, <4>3, CountsOfLoyalty
    <3>6. PICK n \in Nat : n = Points!Cardinality(before)
      BY <3>5
    <3>7. r.no = n + 1
      BY <1>6, <1>7, <3>3, <3>5, <3>6
    <3>8. {sales'[q].no : q \in sold} = {sales[q].no : q \in before} \cup {r.no}
      BY <1>8, <3>2
    <3>9. {sales'[q].no : q \in sold} = 1..(n + 1)
      BY <3>3, <3>6, <3>7, <3>8
    <3> QED
      BY <1>9, <2>2, <3>2, <3>5, <3>6, <3>7, <3>9
  <2> QED
    BY <2>1, <2>2
<1>12. /\ DOMAIN entries' = Uploaded
       /\ \A q \in Uploaded : {"earn", "redeem"} \subseteq DOMAIN entries'[q]
       /\ \A q \in Uploaded \ {o} : entries'[q] = entries[q]
       /\ entries'[o].earn = entries[o].earn \o Points!Booked(earned)
       /\ entries'[o].redeem = entries[o].redeem \o Points!Booked(Uploads[o].redeem)
  BY <1>4 DEF LoyaltyInv, LoyaltyRows, EntriesOfStored
<1>13. /\ Len(entries'[o].earn) <= 1
       /\ Len(entries'[o].redeem) = IF Uploads[o].redeem > 0 THEN 1 ELSE 0
  <2>1. entries[o].earn = <<>> /\ entries[o].redeem = <<>>
    BY <1>2 DEF LoyaltyInv, LoyaltyRows, EntriesOfStored
  <2>2. \A n : Len(<<>> \o Points!Booked(n)) = IF n > 0 THEN 1 ELSE 0
    BY DEF Points!Booked
  <2>3. /\ entries'[o].earn = <<>> \o Points!Booked(earned)
        /\ entries'[o].redeem = <<>> \o Points!Booked(Uploads[o].redeem)
    BY <1>12, <2>1
  <2>4. Len(<<>> \o Points!Booked(earned)) \in {0, 1}
    BY <2>2
  <2>5. Len(<<>> \o Points!Booked(Uploads[o].redeem)) = IF Uploads[o].redeem > 0 THEN 1 ELSE 0
    BY <2>2
  <2> QED
    BY <2>3, <2>4, <2>5
<1>14. Points!SalesArePosted'
  <2>1. ASSUME NEW q \in Uploaded
        PROVE  /\ Len(entries'[q].redeem)
                    = (IF q \in Points!Stored' /\ Uploads[q].redeem > 0 THEN 1 ELSE 0)
               /\ Len(entries'[q].earn) <= (IF q \in Points!Stored' THEN 1 ELSE 0)
    <3>1. CASE q = o
      BY <1>10, <1>13, <3>1
    <3>2. CASE q # o
      BY <1>10, <1>12, <3>2 DEF LoyaltyInv, LoyaltyRows, Points!SalesArePosted
    <3> QED
      BY <3>1, <3>2
  <2>2. ASSUME NEW q \in Points!Stored', Uploads[q].coupon # None
        PROVE  usedBy'[Uploads[q].coupon] # None
    <3>1. CASE q = o
      BY <1>5, <1>6, <2>2, <3>1
    <3>2. CASE q # o
      <4>1. q \in Points!Stored /\ q \in Uploaded
        BY <1>10, <2>2, <3>2
      <4>2. Uploads[q].coupon \in Coupons /\ usedBy[Uploads[q].coupon] # None
        BY <2>2, <4>1, LoyaltyParametersHold
           DEF LoyaltyInv, LoyaltyRows, Points!SalesArePosted, Points!LoyaltyParameters
      <4> QED
        BY <1>5, <1>6, <4>2
    <3> QED
      BY <3>1, <3>2
  <2>3. ASSUME NEW p \in Points!Stored', NEW q \in Points!Stored', p # q,
               Uploads[p].day = Uploads[q].day, Uploads[p].coupon # None
        PROVE  Uploads[p].coupon # Uploads[q].coupon
    <3>1. CASE p # o /\ q # o
      BY <1>10, <2>3, <3>1 DEF LoyaltyInv, LoyaltyRows, Points!SalesArePosted
    <3>2. CASE p = o
      <4>1. q \in Points!Stored /\ q \in Uploaded
        BY <1>10, <2>3, <3>2
      <4> QED
        BY <1>5, <2>3, <3>2, <4>1 DEF LoyaltyInv, LoyaltyRows, Points!SalesArePosted
    <3>3. CASE q = o
      <4>1. p \in Points!Stored /\ p \in Uploaded
        BY <1>10, <2>3, <3>3
      <4> QED
        BY <1>5, <2>3, <3>3, <4>1 DEF LoyaltyInv, LoyaltyRows, Points!SalesArePosted
    <3> QED
      BY <3>1, <3>2, <3>3
  <2> QED
    BY <2>1, <2>2, <2>3 DEF Points!SalesArePosted
<1>15. EntriesOfStored'
  BY <1>6, <1>8, <1>12 DEF LoyaltyInv, LoyaltyRows, EntriesOfStored
<1>16. RequestsFit'
  <2>1. DOMAIN request' = Workers /\ request'[w] = Points!Idle
        /\ \A v \in Workers \ {w} : request'[v] = request[v]
    BY <1>5 DEF LoyaltyInv, RequestsFit
  <2>2. Points!Idle.op = "none"
    BY DEF Points!Idle
  <2>3. ASSUME NEW v \in Workers PROVE Fits(request[v])'
    <3>1. CASE v = w
      BY <2>1, <2>2, <3>1 DEF Fits
    <3>2. CASE v # w
      <4>1. Fits(request[v]) /\ request'[v] = request[v]
        BY <2>1, <3>2 DEF LoyaltyInv, RequestsFit
      <4>2. PICK q : q = request[v]
        OBVIOUS
      <4>3. ASSUME q.op = "numbered" PROVE q.of \in Uploaded /\ q.of # o /\ SaleDay(q.of) # day
        BY <1>1, <1>2, <1>3, <3>2, <4>1, <4>2, <4>3 DEF LoyaltyInv, RequestsFit, Fits, SaleDay
      <4>4. ASSUME q.op = "numbered"
            PROVE  sales'[q.of] = None /\ q.no = Points!NextNo(SaleDay(q.of))'
        <5>1. SaleDay(q.of) \in Days
          BY <4>3, <4>4, LoyaltyParametersHold DEF Points!LoyaltyParameters, SaleDay
        <5> QED
          BY <1>8, <1>9, <4>1, <4>2, <4>3, <4>4, <5>1 DEF Fits, Points!NextNo
      <4>5. ASSUME q.op = "reverse" PROVE q.of # o
        BY <1>2, <1>6, <4>1, <4>2, <4>5 DEF Fits, IsStored
      <4> QED
        BY <1>8, <4>1, <4>2, <4>4, <4>5 DEF Fits, IsStored, SaleDay
    <3> QED
      BY <3>1, <3>2
  <2>4. ASSUME NEW u \in Workers, NEW v \in Workers, u # v,
               request'[u].op = "numbered", request'[v].op = "numbered"
        PROVE  SaleDay(request'[u].of) # SaleDay(request'[v].of)
    BY <2>1, <2>2, <2>4 DEF LoyaltyInv, RequestsFit
  <2> QED
    BY <2>1, <2>3, <2>4 DEF RequestsFit, SaleDay
<1> QED
  BY <1>5, <1>8, <1>9, <1>11, <1>14, <1>15, <1>16 DEF LoyaltyInv, LoyaltyRows

LEMMA LoyaltyStep ==
  ASSUME Points!LoyaltyParameters, LoyaltyInv, Points!Next \/ UNCHANGED Points!loyaltyVars
  PROVE  LoyaltyInv'
<1>1. ASSUME NEW w \in Workers, Points!Handle(w) PROVE LoyaltyInv'
  <2>1. CASE \/ \E o \in Uploaded : Points!Upload(w, o)
             \/ Points!RecordPoints(w) \/ Points!UpdateMember(w) \/ Points!RedeemCoupon(w)
             \/ Points!ExpirePoints(w) \/ Points!RewardBirthday(w) \/ Points!Abort(w)
    BY <2>1, ReadsKeep
  <2>2. CASE Points!FindSequence(w) \/ Points!InsertSequence(w)
    BY <2>2, SequenceKeeps
  <2>3. CASE Points!Refund(w) \/ Points!Void(w)
    BY <2>3, ReverseKeeps
  <2>4. CASE \/ Points!CommitPoints(w) \/ Points!CommitMember(w) \/ Points!CommitBirthday(w)
             \/ Points!CommitCoupon(w) \/ Points!CommitExpire(w)
    BY <2>4, WritesKeep
  <2>5. CASE Points!CommitReverse(w)
    BY <2>5, CommitReverseKeeps
  <2>6. CASE Points!CommitUpload(w)
    BY <2>6, CommitUploadKeeps
  <2> QED
    BY <1>1, <2>1, <2>2, <2>3, <2>4, <2>5, <2>6 DEF Points!Handle
<1>2. CASE (\E o \in Uploaded : Points!Lapse(o)) \/ UNCHANGED Points!loyaltyVars
  BY <1>2, LapseKeeps
<1> QED
  BY <1>1, <1>2 DEF Points!Next

(* A store's sales, for any number of orders, days, uploads and workers:   *)
(* those of a day have the numbers from 1 on without a gap, each to one    *)
(* order, and the points and the coupon of a sale are booked with it, once *)
(* (allocate_order_no, upload_order, apply_order_loyalty).                 *)
THEOREM LoyaltyAlways ==
  ASSUME Points!LoyaltyParameters
  PROVE  Points!Spec => []Points!SaleIsNumberedAndPosted
<1>1. Points!Init => LoyaltyInv
  BY LoyaltyInit
<1>2. LoyaltyInv /\ [Points!Next]_(Points!loyaltyVars) => LoyaltyInv'
  BY LoyaltyStep
<1>3. LoyaltyInv => Points!SaleIsNumberedAndPosted
  BY DEF LoyaltyInv, LoyaltyRows, Points!SaleIsNumberedAndPosted
<1> QED
  BY <1>1, <1>2, <1>3, PTL DEF Points!Spec

(* A step of the back office, of the part "loyalty", is one of it alone.   *)
LEMMA SaleStepIsOwn ==
  ASSUME BackOfficeNext \/ UNCHANGED backOfficeVars, part = "loyalty"
  PROVE  part' = part /\ (Points!Next \/ UNCHANGED Points!loyaltyVars)
<1>1. CASE BackOfficeNext
  BY <1>1 DEF BackOfficeNext
<1>2. CASE UNCHANGED backOfficeVars
  BY <1>2 DEF backOfficeVars
<1> QED
  BY <1>1, <1>2

(* In the back office: the sales of a day are numbered without a gap, and  *)
(* points and coupons are posted once (allocate_order_no, upload_order).   *)
THEOREM SaleIsNumberedAndPostedAlways == BackOfficeSpec => []SaleIsNumberedAndPosted
<1> DEFINE Inv == part = "loyalty" => LoyaltyInv
<1>1. BackOfficeInit => Inv
  BY LoyaltyParametersHold, LoyaltyInit DEF BackOfficeInit
<1>2. Inv /\ [BackOfficeNext]_backOfficeVars => Inv'
  <2> SUFFICES ASSUME Inv, [BackOfficeNext]_backOfficeVars, part' = "loyalty"
               PROVE  LoyaltyInv'
    OBVIOUS
  <2>1. part = "loyalty"
    BY DEF BackOfficeNext, backOfficeVars
  <2>2. [Points!Next]_(Points!loyaltyVars)
    BY <2>1, SaleStepIsOwn
  <2> QED
    BY <2>1, <2>2, LoyaltyParametersHold, LoyaltyStep
<1>3. Inv => SaleIsNumberedAndPosted
  BY DEF LoyaltyInv, LoyaltyRows, Points!SaleIsNumberedAndPosted, SaleIsNumberedAndPosted
<1> QED
  BY <1>1, <1>2, <1>3, PTL DEF BackOfficeSpec

---------------------------------------------------------------------------
(* Books on consignment (Books).  A session that receives books has a      *)
(* movement for each that it is to report.                                 *)
ReportsItsMoves(r) == {"moves", "received"} \subseteq DOMAIN r /\ r.moves = r.received

BooksInv ==
  /\ DOMAIN request = Workers
  /\ \A w \in Workers : request[w] # Consigned!Idle => ReportsItsMoves(request[w])
  /\ told = moves

LEMMA BooksInit == ASSUME Consigned!Init PROVE BooksInv
BY DEF Consigned!Init, BooksInv, Consigned!Idle

(* What one code does to a session.                                        *)
LEMMA SessionReports ==
  ASSUME NEW r, ReportsItsMoves(r)
  PROVE  /\ ReportsItsMoves(Consigned!Skipped(r)) /\ ReportsItsMoves(Consigned!Failed(r))
         /\ ReportsItsMoves(Consigned!Rooted(r))
         /\ \A p : ReportsItsMoves(Consigned!Stocked(r, p))
         /\ \A p, codes : ReportsItsMoves(Consigned!Attached(r, p, codes))
         /\ \A p, cents : ReportsItsMoves(Consigned!Priced(r, p, cents))
<1>1. ASSUME NEW s, NEW tail, NEW dead, {"moves", "received"} \subseteq DOMAIN s, s.moves = s.received
      PROVE  /\ ReportsItsMoves([s EXCEPT !.codes = tail]) /\ ReportsItsMoves([s EXCEPT !.dead = dead])
             /\ ReportsItsMoves([s EXCEPT !.roots = tail]) /\ ReportsItsMoves([s EXCEPT !.codeOf = tail])
             /\ ReportsItsMoves([s EXCEPT !.book = tail])
  BY <1>1 DEF ReportsItsMoves
<1>2. ReportsItsMoves(Consigned!Skipped(r))
  BY <1>1 DEF ReportsItsMoves, Consigned!Skipped
<1>3. ReportsItsMoves(Consigned!Failed(r))
  BY <1>1, <1>2 DEF ReportsItsMoves, Consigned!Failed
<1>4. ReportsItsMoves(Consigned!Rooted(r))
  BY <1>1 DEF ReportsItsMoves, Consigned!Rooted
<1>5. ASSUME NEW p PROVE ReportsItsMoves(Consigned!Stocked(r, p))
  <2>1. PICK a, b, c : Consigned!Stocked(r, p) =
          [r EXCEPT !.level = a, !.newLevels = b, !.moves = @ + 1, !.received = @ + 1, !.codes = c]
    BY Zenon DEF Consigned!Stocked
  <2> QED
    BY <2>1 DEF ReportsItsMoves
<1>6. ASSUME NEW p, NEW codes PROVE ReportsItsMoves(Consigned!Attached(r, p, codes))
  BY <1>1 DEF ReportsItsMoves, Consigned!Attached
<1>7. ASSUME NEW p, NEW cents PROVE ReportsItsMoves(Consigned!Priced(r, p, cents))
  BY <1>1 DEF ReportsItsMoves, Consigned!Priced
<1> QED
  BY <1>2, <1>3, <1>4, <1>5, <1>6, <1>7

LEMMA ReceivedReports ==
  ASSUME NEW r, ReportsItsMoves(r), NEW c, NEW s \in Consigned!Received(r, c)
  PROVE  ReportsItsMoves(s)
<1> DEFINE sku == Consigned!Lookup[c].prod
           cents == Consigned!Lookup[c].price
           new == [Consigned!Rooted(r) EXCEPT !.newBooks = @ \cup {sku}]
<1>1. ReportsItsMoves(new)
  BY SessionReports DEF ReportsItsMoves
<1> HIDE DEF new
<1>2. ReportsItsMoves(Consigned!Priced(new, sku, cents))
  BY <1>1, SessionReports
<1>3. ReportsItsMoves(Consigned!Attached(Consigned!Priced(new, sku, cents), sku, {sku, c}))
  BY <1>2, SessionReports
<1>4. ReportsItsMoves(Consigned!Stocked(Consigned!Attached(Consigned!Priced(new, sku, cents), sku, {sku, c}), sku))
  BY <1>3, SessionReports
<1>5. ASSUME NEW p
      PROVE  /\ ReportsItsMoves(Consigned!Stocked(Consigned!Attached(Consigned!Priced(r, p, cents), p, {c}), p))
             /\ ReportsItsMoves(Consigned!Stocked(Consigned!Attached(r, p, {c}), p))
  <2>1. ReportsItsMoves(Consigned!Priced(r, p, cents))
    BY SessionReports
  <2>2. ReportsItsMoves(Consigned!Attached(Consigned!Priced(r, p, cents), p, {c}))
    BY <2>1, SessionReports
  <2>3. ReportsItsMoves(Consigned!Attached(r, p, {c}))
    BY SessionReports
  <2> QED
    BY <2>2, <2>3, SessionReports
<1>6. \/ \E p : s = Consigned!Stocked(Consigned!Attached(Consigned!Priced(r, p, cents), p, {c}), p)
      \/ \E p : s = Consigned!Stocked(Consigned!Attached(r, p, {c}), p)
      \/ s = Consigned!Skipped(r)
      \/ s = Consigned!Failed(r)
      \/ s = Consigned!Stocked(Consigned!Attached(Consigned!Priced(new, sku, cents), sku, {sku, c}), sku)
  BY DEF Consigned!Received, new
<1> QED
  BY <1>4, <1>5, <1>6, SessionReports

(* A session goes on to r, and nothing is committed.                       *)
LEMMA BookSessionKeeps ==
  ASSUME BooksInv, NEW w \in Workers, NEW r, request' = [request EXCEPT ![w] = r],
         r # Consigned!Idle => ReportsItsMoves(r), UNCHANGED <<told, moves>>
  PROVE  BooksInv'
BY DEF BooksInv, ReportsItsMoves, Consigned!Idle

LEMMA BooksStep ==
  ASSUME BooksInv, Consigned!Next \/ UNCHANGED Consigned!bookVars
  PROVE  BooksInv'
<1>1. ASSUME NEW w \in Workers, Consigned!Handle(w) PROVE BooksInv'
  <2>1. ASSUME NEW op, NEW codes, Consigned!Begin(w, op, codes) PROVE BooksInv'
    <3> DEFINE r == [Consigned!Untouched EXCEPT !.op = op, !.codes = codes]
    <3>1. request' = [request EXCEPT ![w] = r] /\ UNCHANGED <<told, moves>>
      BY <2>1 DEF Consigned!Begin, Consigned!shelf
    <3>2. ReportsItsMoves(r)
      BY DEF ReportsItsMoves, Consigned!Untouched
    <3> HIDE DEF r
    <3> QED
      BY <3>1, <3>2, BookSessionKeeps
  <2>2. CASE Consigned!ReceiveBook(w)
    BY <2>1, <2>2 DEF Consigned!ReceiveBook
  <2>3. CASE Consigned!ImportBooks(w)
    BY <2>1, <2>3 DEF Consigned!ImportBooks
  <2>4. CASE Consigned!ReceiveCode(w)
    <3>1. ReportsItsMoves(request[w])
      BY <2>4 DEF BooksInv, Consigned!ReceiveCode
    <3>2. PICK s : /\ s = Consigned!Skipped(request[w])
                      \/ s \in Consigned!Received(request[w], request[w].codes[1])
                   /\ Consigned!Becomes(w, s)
      BY <2>4 DEF Consigned!ReceiveCode
    <3>3. ReportsItsMoves(s)
      BY <3>1, <3>2, SessionReports, ReceivedReports
    <3>4. request' = [request EXCEPT ![w] = s] /\ UNCHANGED <<told, moves>>
      BY <3>2 DEF Consigned!Becomes, Consigned!shelf
    <3> QED
      BY <3>3, <3>4, BookSessionKeeps
  <2>5. CASE Consigned!Commit(w)
    <3>1. /\ request[w] # Consigned!Idle
          /\ request' = [request EXCEPT ![w] = Consigned!Idle]
          /\ moves' = moves + request[w].moves
          /\ told' = told + request[w].received
      BY <2>5 DEF Consigned!Commit
    <3>2. ReportsItsMoves(request[w])
      BY <3>1 DEF BooksInv
    <3> QED
      BY <3>1, <3>2 DEF BooksInv, ReportsItsMoves, Consigned!Idle
  <2>6. CASE Consigned!Abort(w)
    <3>1. request' = [request EXCEPT ![w] = Consigned!Idle] /\ UNCHANGED <<told, moves>>
      BY <2>6 DEF Consigned!Abort, Consigned!Becomes, Consigned!shelf
    <3> QED
      BY <3>1, BookSessionKeeps
  <2> QED
    BY <1>1, <2>2, <2>3, <2>4, <2>5, <2>6 DEF Consigned!Handle
<1>2. CASE \/ Consigned!UpdateSettings \/ Consigned!DeleteProduct
           \/ Consigned!UploadOrder \/ Consigned!RefundOrder
           \/ Consigned!ReviewRefund \/ Consigned!VoidOrder \/ UNCHANGED Consigned!bookVars
  <2>1. UNCHANGED <<request, told, moves>>
    BY <1>2 DEF Consigned!UpdateSettings, Consigned!DeleteProduct, Consigned!UploadOrder,
       Consigned!RefundOrder, Consigned!ReviewRefund, Consigned!VoidOrder,
       Consigned!bookVars, Consigned!shelf
  <2> QED
    BY <2>1 DEF BooksInv, ReportsItsMoves
<1> QED
  BY <1>1, <1>2 DEF Consigned!Next

(* For any products, codes, files and sessions: what receives and imports  *)
(* have answered to be received is booked, a movement for each, and        *)
(* nothing else is (receive_book, import_books_csv).                       *)
THEOREM BooksAlways == Consigned!Spec => []Consigned!AnsweredIsBooked
<1>1. Consigned!Init => BooksInv
  BY BooksInit
<1>2. BooksInv /\ [Consigned!Next]_(Consigned!bookVars) => BooksInv'
  BY BooksStep
<1>3. BooksInv => Consigned!AnsweredIsBooked
  BY DEF BooksInv, Consigned!AnsweredIsBooked
<1> QED
  BY <1>1, <1>2, <1>3, PTL DEF Consigned!Spec

(* A step of the back office, of the part "books", is one of it alone.     *)
LEMMA BookStepIsOwn ==
  ASSUME BackOfficeNext \/ UNCHANGED backOfficeVars, part = "books"
  PROVE  part' = part /\ (Consigned!Next \/ UNCHANGED Consigned!bookVars)
<1>1. CASE BackOfficeNext
  BY <1>1 DEF BackOfficeNext
<1>2. CASE UNCHANGED backOfficeVars
  BY <1>2 DEF backOfficeVars
<1> QED
  BY <1>1, <1>2

(* In the back office: what receives and imports of books have answered    *)
(* to be received is booked, and nothing else (receive_book).              *)
THEOREM AnsweredIsBookedAlways == BackOfficeSpec => []AnsweredIsBooked
<1> DEFINE Inv == part = "books" => BooksInv
<1>1. BackOfficeInit => Inv
  BY BooksInit DEF BackOfficeInit
<1>2. Inv /\ [BackOfficeNext]_backOfficeVars => Inv'
  <2> SUFFICES ASSUME Inv, [BackOfficeNext]_backOfficeVars, part' = "books"
               PROVE  BooksInv'
    OBVIOUS
  <2>1. part = "books"
    BY DEF BackOfficeNext, backOfficeVars
  <2>2. [Consigned!Next]_(Consigned!bookVars)
    BY <2>1, BookStepIsOwn
  <2> QED
    BY <2>1, <2>2, BooksStep
<1>3. Inv => AnsweredIsBooked
  BY DEF BooksInv, Consigned!AnsweredIsBooked, AnsweredIsBooked
<1> QED
  BY <1>1, <1>2, <1>3, PTL DEF BackOfficeSpec

---------------------------------------------------------------------------
(* The settlement of sales and refunds (Books).  Sums over the rows of all  *)
(* refunds and of all orders change by the same amount.                    *)
LEMMA FiniteInBooks == \A S : Consigned!IsFiniteSet(S) <=> IsFiniteSet(S)
BY DEF IsFiniteSet, Consigned!IsFiniteSet

LEMMA BookSumIsTotal ==
  ASSUME NEW f, IsFiniteSet(DOMAIN f)
  PROVE  Consigned!Sum(f) = TotalOver(f, DOMAIN f)
BY DEF Consigned!Sum, Consigned!MapThenSumSet, Consigned!MapThenFoldSet,
       TotalOver, Sums, Some

Slots == BookOrders \X (1..BookRequests)

IsRow(x) == x[2] \in DOMAIN refunds[x[1]]

(* What an order says was given back of it, and what its refunds say.      *)
GivenBack == [o \in BookOrders |-> IF bought[o] = None THEN 0 ELSE bought[o].refunded]

Approved ==
  [x \in Slots |-> IF IsRow(x) /\ refunds[x[1]][x[2]].status = "approved"
                   THEN refunds[x[1]][x[2]].amount ELSE 0]

BookRows ==
  /\ bought \in [BookOrders -> Consigned!Order \cup {None}]
  /\ DOMAIN refunds = BookOrders
  /\ \A o \in BookOrders :
       /\ refunds[o] \in Seq(Consigned!Refund)
       /\ Len(refunds[o]) <= requests
       /\ bought[o] = None => refunds[o] = <<>>
       /\ refunds[o] = <<>> => GivenBack[o] = 0
  /\ requests \in 0..BookRequests
  /\ settings.pct \in Pcts /\ {"pct", "open"} \subseteq DOMAIN settings

SettleInv == BookRows /\ TotalOver(Approved, Slots) = TotalOver(GivenBack, BookOrders)

LEMMA SlotsAreFinite ==
  ASSUME Consigned!BooksParameters
  PROVE  IsFiniteSet(Slots) /\ IsFiniteSet(BookOrders)
<1>1. IsFiniteSet(BookOrders)
  BY FiniteInBooks DEF Consigned!BooksParameters
<1>2. IsFiniteSet(1..BookRequests)
  BY FS_Interval DEF Consigned!BooksParameters
<1> QED
  BY <1>1, <1>2, FS_Product DEF Slots

LEMMA BookRowTypes ==
  ASSUME Consigned!BooksParameters, BookRows
  PROVE  /\ \A o \in BookOrders : GivenBack[o] \in Int
         /\ \A x \in Slots : Approved[x] \in Int
         /\ \A o \in BookOrders : \A i \in DOMAIN refunds[o] :
              refunds[o][i] \in Consigned!Refund /\ <<o, i>> \in Slots
<1>1. \A o \in BookOrders : GivenBack[o] \in Int
  BY DEF GivenBack, BookRows, Consigned!Order
<1>2. ASSUME NEW o \in BookOrders, NEW i \in DOMAIN refunds[o]
      PROVE  refunds[o][i] \in Consigned!Refund /\ <<o, i>> \in Slots
  <2>1. refunds[o] \in Seq(Consigned!Refund) /\ Len(refunds[o]) <= BookRequests
    BY DEF BookRows, Consigned!BooksParameters
  <2>2. i \in 1..Len(refunds[o]) /\ refunds[o][i] \in Consigned!Refund
    BY <2>1, ElementOfSeq, LenProperties
  <2>3. i \in 1..BookRequests
    BY <2>1, <2>2, LenProperties DEF Consigned!BooksParameters
  <2> QED
    BY <2>2, <2>3 DEF Slots
<1>3. ASSUME NEW x \in Slots PROVE Approved[x] \in Int
  <2>1. x[1] \in BookOrders
    BY DEF Slots
  <2>2. IsRow(x) => refunds[x[1]][x[2]].amount \in Nat
    BY <1>2, <2>1 DEF IsRow, Consigned!Refund
  <2> QED
    BY <2>2 DEF Approved
<1> QED
  BY <1>1, <1>2, <1>3

LEMMA SettleInit == ASSUME Consigned!BooksParameters, Consigned!Init PROVE SettleInv
<1>1. \A o \in BookOrders : GivenBack[o] = 0 /\ refunds[o] = <<>> /\ bought[o] = None
  BY DEF Consigned!Init, GivenBack
<1>2. \A x \in Slots : Approved[x] = 0
  <2> SUFFICES ASSUME NEW x \in Slots PROVE ~IsRow(x)
    BY DEF Approved
  <2>1. x[1] \in BookOrders
    BY DEF Slots
  <2> QED
    BY <1>1, <2>1 DEF IsRow
<1>3. TotalOver(Approved, Slots) = TotalOver(Approved, {})
  BY <1>2, SlotsAreFinite, TotalOfRest
<1>4. TotalOver(GivenBack, BookOrders) = TotalOver(GivenBack, {})
  BY <1>1, SlotsAreFinite, TotalOfRest
<1>5. settings.pct \in Pcts
  <2> DEFINE T == {100 - p : p \in Pcts}
  <2>1. T \subseteq Nat /\ T # {}
    <3>1. \A p \in Pcts : 100 - p \in Nat
      BY DEF Consigned!BooksParameters
    <3>2. Pcts # {}
      BY DEF Consigned!BooksParameters
    <3> QED
      BY <3>1, <3>2
  <2>2. PICK n \in T : \A m \in T : n <= m
    BY <2>1, LeastOfNaturals
  <2>3. PICK p \in Pcts : n = 100 - p
    BY <2>2
  <2>4. ASSUME NEW q \in Pcts PROVE p >= q
    <3>1. 100 - q \in T /\ p \in 0..100 /\ q \in 0..100
      BY DEF Consigned!BooksParameters
    <3>2. n <= 100 - q
      BY <2>2, <3>1
    <3> QED
      BY <2>3, <3>1, <3>2
  <2>5. Consigned!Max(Pcts) \in Pcts
    BY <2>3, <2>4 DEF Consigned!Max
  <2> QED
    BY <2>5 DEF Consigned!Init
<1>6. BookRows
  <2>1. \A o \in BookOrders : refunds[o] \in Seq(Consigned!Refund) /\ Len(refunds[o]) = 0
    BY <1>1, EmptySeq
  <2>2. {"pct", "open"} \subseteq DOMAIN settings /\ requests = 0
    BY DEF Consigned!Init
  <2>3. bought \in [BookOrders -> Consigned!Order \cup {None}] /\ DOMAIN refunds = BookOrders
    BY DEF Consigned!Init
  <2>4. requests \in 0..BookRequests
    BY <2>2 DEF Consigned!BooksParameters
  <2> QED
    BY <1>1, <1>5, <2>1, <2>2, <2>3, <2>4 DEF BookRows
<1> QED
  BY <1>3, <1>4, <1>6, TotalOfNone DEF SettleInv

LEMMA Products == \A a, b \in Nat : a * b \in Nat
OBVIOUS

LEMMA IntProducts == \A a, b \in Int : a * b \in Int
OBVIOUS

LEMMA RoundedOfInt ==
  ASSUME NEW a \in Int, NEW b \in Nat \ {0}
  PROVE  Consigned!Rounded(a, b) \in Int
<1>1. PICK q : q = a \div b
  OBVIOUS
<1>2. q \in Int
  BY <1>1
<1>3. Consigned!Rounded(a, b) \in {q, q + 1}
  BY <1>1 DEF Consigned!Rounded
<1> QED
  BY <1>2, <1>3

LEMMA RoundedIsInt ==
  ASSUME NEW a \in Nat, NEW b \in Nat \ {0}
  PROVE  Consigned!Rounded(a, b) \in Nat
<1>1. PICK q : q = a \div b
  OBVIOUS
<1>2. q \in Nat
  BY <1>1
<1>3. Consigned!Rounded(a, b) \in {q, q + 1}
  BY <1>1 DEF Consigned!Rounded
<1> QED
  BY <1>2, <1>3

(* The two sums stay, or grow by the amount of one refund.                 *)
LEMMA SameSums ==
  ASSUME Consigned!BooksParameters, SettleInv, BookRows',
         \A x \in Slots : Approved'[x] = Approved[x],
         \A o \in BookOrders : GivenBack'[o] = GivenBack[o]
  PROVE  SettleInv'
<1>1. TotalOver(Approved', Slots) = TotalOver(Approved, Slots)
  BY SlotsAreFinite, TotalOfSame
<1>2. TotalOver(GivenBack', BookOrders) = TotalOver(GivenBack, BookOrders)
  BY SlotsAreFinite, TotalOfSame
<1>3. Slots' = Slots
  BY DEF Slots
<1> QED
  BY <1>1, <1>2, <1>3 DEF SettleInv

LEMMA GrownSums ==
  ASSUME Consigned!BooksParameters, SettleInv, BookRows',
         NEW y \in Slots, NEW o \in BookOrders, NEW amount \in Nat,
         Approved'[y] = Approved[y] + amount,
         \A x \in Slots \ {y} : Approved'[x] = Approved[x],
         GivenBack'[o] = GivenBack[o] + amount,
         \A x \in BookOrders \ {o} : GivenBack'[x] = GivenBack[x]
  PROVE  SettleInv'
<1>1. /\ \A x \in Slots : Approved[x] \in Int
      /\ \A x \in BookOrders : GivenBack[x] \in Int
  BY BookRowTypes DEF SettleInv
<1>2. /\ \A x \in Slots : Approved[x] \in Int /\ Approved'[x] \in Int
      /\ \A x \in BookOrders : GivenBack[x] \in Int /\ GivenBack'[x] \in Int
  <2>1. Approved'[y] \in Int /\ GivenBack'[o] \in Int
    BY <1>1
  <2> QED
    BY <1>1, <2>1
<1>3. TotalOver(Approved', Slots) = TotalOver(Approved, Slots) + Approved'[y] - Approved[y]
  BY <1>2, SlotsAreFinite, TotalOfChanged
<1>4. TotalOver(GivenBack', BookOrders)
        = TotalOver(GivenBack, BookOrders) + GivenBack'[o] - GivenBack[o]
  BY <1>2, SlotsAreFinite, TotalOfChanged
<1>5. TotalOver(Approved, Slots) \in Int /\ TotalOver(Approved, Slots) = TotalOver(GivenBack, BookOrders)
  BY <1>1, SlotsAreFinite, TotalIsInt DEF SettleInv
<1>6. TotalOver(Approved', Slots) = TotalOver(GivenBack', BookOrders)
  BY <1>1, <1>3, <1>4, <1>5
<1>7. Slots' = Slots
  BY DEF Slots
<1> QED
  BY <1>6, <1>7 DEF SettleInv

LEMMA UploadKeeps ==
  ASSUME Consigned!BooksParameters, SettleInv, Consigned!UploadOrder
  PROVE  SettleInv'
<1>1. /\ requests < BookRequests /\ requests' = requests + 1
      /\ refunds' = refunds /\ settings' = settings
  BY DEF Consigned!UploadOrder, Consigned!Counted
<1>2. PICK o \in BookOrders, p \in ProdIds, t \in Totals :
        /\ bought[o] = None
        /\ bought' = [bought EXCEPT ![o] =
             [of |-> p, total |-> t, share |-> Consigned!Rounded(t * settings.pct, 100),
              refunded |-> 0, status |-> "paid"]]
  BY DEF Consigned!UploadOrder
<1>3. BookRows
  BY DEF SettleInv
<1>4. bought'[o] \in Consigned!Order /\ bought'[o].refunded = 0
  <2>1. t \in Nat /\ settings.pct \in Nat
    <3>1. settings.pct \in Pcts /\ t \in Totals
      BY <1>3 DEF BookRows
    <3>2. Pcts \subseteq Nat /\ Totals \subseteq Nat
      <4>1. Pcts \subseteq 0..100 /\ Totals \subseteq Nat
        BY DEF Consigned!BooksParameters
      <4> QED
        BY <4>1
    <3> QED
      BY <3>1, <3>2, Zenon
  <2>2. Consigned!Rounded(t * settings.pct, 100) \in Nat
    <3>1. t * settings.pct \in Nat /\ 100 \in Nat \ {0}
      BY <2>1, Products
    <3> QED
      BY <3>1, RoundedIsInt
  <2>3. o \in DOMAIN bought
    BY <1>3 DEF BookRows
  <2> QED
    BY <1>2, <2>1, <2>2, <2>3 DEF Consigned!Order
<1>5. bought' \in [BookOrders -> Consigned!Order \cup {None}]
  BY <1>2, <1>3, <1>4 DEF BookRows
<1>6. \A x \in BookOrders : GivenBack'[x] = GivenBack[x]
  <2> SUFFICES ASSUME NEW x \in BookOrders PROVE GivenBack'[x] = GivenBack[x]
    OBVIOUS
  <2>1. CASE x = o
    <3>1. GivenBack[o] = 0
      BY <1>2 DEF GivenBack
    <3>2. GivenBack'[o] = 0
      BY <1>4 DEF GivenBack
    <3> QED
      BY <2>1, <3>1, <3>2
  <2>2. CASE x # o
    <3>1. bought'[x] = bought[x]
      BY <1>2, <1>3, <2>2 DEF BookRows
    <3> QED
      BY <3>1 DEF GivenBack
  <2> QED
    BY <2>1, <2>2
<1>7. \A x \in Slots : Approved'[x] = Approved[x]
  BY <1>1 DEF Approved, IsRow, Slots
<1>8. BookRows'
  <2>1. ASSUME NEW x \in BookOrders
        PROVE  /\ refunds'[x] \in Seq(Consigned!Refund)
               /\ Len(refunds'[x]) <= requests'
               /\ bought'[x] = None => refunds'[x] = <<>>
               /\ refunds'[x] = <<>> => GivenBack'[x] = 0
    <3>1. /\ refunds[x] \in Seq(Consigned!Refund) /\ Len(refunds[x]) <= requests
          /\ bought[x] = None => refunds[x] = <<>>
          /\ refunds[x] = <<>> => GivenBack[x] = 0
          /\ requests \in Nat
      BY <1>3 DEF BookRows
    <3>2. Len(refunds[x]) \in Nat
      BY <3>1, LenProperties
    <3>3. bought'[x] = None => refunds[x] = <<>>
      BY <1>2, <1>3, <3>1 DEF BookRows
    <3> QED
      BY <1>1, <1>6, <3>1, <3>2, <3>3
  <2>2. settings'.pct \in Pcts /\ {"pct", "open"} \subseteq DOMAIN settings'
    BY <1>1, <1>3 DEF BookRows
  <2>3. DOMAIN refunds' = BookOrders
    BY <1>1, <1>3 DEF BookRows
  <2>4. requests' \in 0..BookRequests
    BY <1>1, <1>3 DEF BookRows, Consigned!BooksParameters
  <2> QED
    BY <1>5, <2>1, <2>2, <2>3, <2>4 DEF BookRows
<1> QED
  BY <1>6, <1>7, <1>8, SameSums

(* Nothing of orders and refunds.                                          *)
LEMMA ElseKeeps ==
  ASSUME Consigned!BooksParameters, SettleInv, UNCHANGED <<bought, refunds>>,
         requests' \in {requests, requests + 1}, requests' <= BookRequests,
         settings' = settings \/ settings' \in [pct : Pcts, open : BOOLEAN]
  PROVE  SettleInv'
<1>1. BookRows
  BY DEF SettleInv
<1>2. \A x \in BookOrders : GivenBack'[x] = GivenBack[x]
  BY DEF GivenBack
<1>3. \A x \in Slots : Approved'[x] = Approved[x]
  BY DEF Approved, IsRow, Slots
<1>4. settings'.pct \in Pcts /\ {"pct", "open"} \subseteq DOMAIN settings'
  BY <1>1 DEF BookRows
<1>5. requests' \in 0..BookRequests /\ requests <= requests' /\ requests \in Nat
  BY <1>1 DEF BookRows, Consigned!BooksParameters
<1>6. ASSUME NEW x \in BookOrders
      PROVE  /\ refunds'[x] \in Seq(Consigned!Refund)
             /\ Len(refunds'[x]) <= requests'
             /\ bought'[x] = None => refunds'[x] = <<>>
             /\ refunds'[x] = <<>> => GivenBack'[x] = 0
  <2>1. /\ refunds[x] \in Seq(Consigned!Refund) /\ Len(refunds[x]) <= requests
        /\ bought[x] = None => refunds[x] = <<>>
        /\ refunds[x] = <<>> => GivenBack[x] = 0
    BY <1>1 DEF BookRows
  <2>2. Len(refunds[x]) \in Nat
    BY <2>1, LenProperties
  <2>3. Len(refunds[x]) <= requests'
    BY <1>5, <2>1, <2>2
  <2> QED
    BY <1>2, <2>1, <2>3
<1>7. BookRows'
  BY <1>1, <1>4, <1>5, <1>6 DEF BookRows
<1> QED
  BY <1>2, <1>3, <1>7, SameSums

LEMMA AppliedIsOrder ==
  \A row \in Consigned!Order, amount \in Nat :
    /\ Consigned!Applied(row, amount) \in Consigned!Order
    /\ Consigned!Applied(row, amount).refunded = row.refunded + amount
<1> SUFFICES ASSUME NEW row \in Consigned!Order, NEW amount \in Nat
             PROVE  /\ Consigned!Applied(row, amount) \in Consigned!Order
                    /\ Consigned!Applied(row, amount).refunded = row.refunded + amount
  OBVIOUS
<1>1. row.refunded + amount \in Nat
  BY DEF Consigned!Order
<1>2. PICK st \in {"refunded", "partiallyRefunded"} :
        st = IF row.refunded + amount >= row.total THEN "refunded" ELSE "partiallyRefunded"
  OBVIOUS
<1>3. Consigned!Applied(row, amount) = [row EXCEPT !.refunded = @ + amount, !.status = st]
  BY <1>2 DEF Consigned!Applied
<1> QED
  BY <1>1, <1>3 DEF Consigned!Order

(* A refund is put on an order: a row of its own, or a row that was        *)
(* pending; the order counts it when it is approved.                       *)
LEMMA BookRefundKeeps ==
  ASSUME Consigned!BooksParameters, SettleInv, Consigned!RefundOrder
  PROVE  SettleInv'
<1>1. /\ requests < BookRequests /\ requests' = requests + 1 /\ settings' = settings
  BY DEF Consigned!RefundOrder, Consigned!Counted
<1>2. PICK o \in BookOrders, amount \in BookRefunds, way \in {"approved", "pending"} :
        /\ bought[o] # None
        /\ refunds' = [refunds EXCEPT ![o] = Append(@, [amount |-> amount, status |-> way])]
        /\ way = "approved" => bought' = [bought EXCEPT ![o] = Consigned!Applied(@, amount)]
        /\ way = "pending" => bought' = bought
  BY DEF Consigned!RefundOrder, Consigned!Refundable
<1>3. BookRows /\ amount \in Nat
  BY DEF SettleInv, Consigned!BooksParameters
<1>4. /\ bought[o] \in Consigned!Order /\ refunds[o] \in Seq(Consigned!Refund)
      /\ requests \in Nat /\ BookRequests \in Nat /\ Len(refunds[o]) <= requests
  BY <1>2, <1>3 DEF BookRows, Consigned!BooksParameters
<1>5. PICK n : n = Len(refunds[o]) + 1
  OBVIOUS
<1>6. n \in 1..BookRequests /\ n \in Nat /\ n <= requests' /\ DOMAIN refunds[o] = 1..(n - 1)
  BY <1>1, <1>4, <1>5, LenProperties
<1>7. PICK row : row = [amount |-> amount, status |-> way]
  OBVIOUS
<1>8. row \in Consigned!Refund
  BY <1>3, <1>7 DEF Consigned!Refund
<1>9. /\ refunds'[o] = Append(refunds[o], row)
      /\ \A x \in BookOrders \ {o} : refunds'[x] = refunds[x]
      /\ DOMAIN refunds' = BookOrders
  BY <1>2, <1>3, <1>7 DEF BookRows
<1>10. /\ refunds'[o] \in Seq(Consigned!Refund) /\ Len(refunds'[o]) = n
       /\ DOMAIN refunds'[o] = 1..n /\ refunds'[o][n] = row
       /\ \A i \in 1..(n - 1) : refunds'[o][i] = refunds[o][i]
  <2>1. refunds[o] \in Seq(Consigned!Refund)
    BY <1>4
  <2>2. /\ Append(refunds[o], row) \in Seq(Consigned!Refund)
        /\ Len(Append(refunds[o], row)) = Len(refunds[o]) + 1
        /\ \A i \in 1..Len(refunds[o]) : Append(refunds[o], row)[i] = refunds[o][i]
        /\ Append(refunds[o], row)[Len(refunds[o]) + 1] = row
    BY <1>8, <2>1, AppendProperties
  <2>3. DOMAIN Append(refunds[o], row) = 1..n
    BY <1>5, <2>2, LenProperties
  <2>4. Len(refunds[o]) = n - 1
    BY <1>5, <1>6, LenProperties, <2>1
  <2> QED
    BY <1>5, <1>9, <2>2, <2>3, <2>4
<1>11. PICK given \in Nat : given = IF way = "approved" THEN amount ELSE 0
  BY <1>3
<1>12. /\ bought'[o] \in Consigned!Order
       /\ bought'[o].refunded = bought[o].refunded + given
       /\ \A x \in BookOrders \ {o} : bought'[x] = bought[x]
       /\ bought' \in [BookOrders -> Consigned!Order \cup {None}]
  <2>1. CASE way = "approved"
    <3>1. /\ Consigned!Applied(bought[o], amount) \in Consigned!Order
          /\ Consigned!Applied(bought[o], amount).refunded = bought[o].refunded + amount
      BY <1>3, <1>4, AppliedIsOrder
    <3>2. bought' = [bought EXCEPT ![o] = Consigned!Applied(bought[o], amount)]
      BY <1>2, <2>1
    <3> QED
      BY <1>3, <1>11, <2>1, <3>1, <3>2 DEF BookRows
  <2>2. CASE way = "pending"
    <3>1. bought[o].refunded + 0 = bought[o].refunded
      BY <1>4 DEF Consigned!Order
    <3> QED
      BY <1>2, <1>3, <1>4, <1>11, <2>2, <3>1 DEF BookRows
  <2> QED
    BY <2>1, <2>2
<1>13. /\ GivenBack'[o] = GivenBack[o] + given
       /\ \A x \in BookOrders \ {o} : GivenBack'[x] = GivenBack[x]
  <2>1. None \notin Consigned!Order
    BY DEF Consigned!BooksParameters
  <2> QED
    BY <1>2, <1>12, <2>1 DEF GivenBack
<1>14. <<o, n>> \in Slots
  BY <1>6 DEF Slots
<1>15. Approved'[<<o, n>>] = Approved[<<o, n>>] + given
  <2>1. Approved[<<o, n>>] = 0
    BY <1>6, <1>14 DEF Approved, IsRow
  <2>2. Slots' = Slots /\ refunds'[o][n].status = way /\ refunds'[o][n].amount = amount /\ n \in DOMAIN refunds'[o]
    BY <1>6, <1>7, <1>10 DEF Slots
  <2>3. Approved'[<<o, n>>] = given
    BY <1>11, <1>14, <2>2 DEF Approved, IsRow
  <2> QED
    BY <2>1, <2>3
<1>16. ASSUME NEW x \in Slots \ {<<o, n>>} PROVE Approved'[x] = Approved[x]
  <2>1. x = <<x[1], x[2]>> /\ x[1] \in BookOrders /\ x[2] \in 1..BookRequests
    BY DEF Slots
  <2>2. CASE x[1] # o
    <3>1. refunds'[x[1]] = refunds[x[1]]
      BY <1>9, <2>1, <2>2
    <3> QED
      BY <3>1 DEF Approved, IsRow, Slots
  <2>3. CASE x[1] = o
    <3>1. x[2] # n /\ x[2] \in Int
      BY <1>16, <2>1, <2>3
    <3>2. x[2] \in DOMAIN refunds'[o] <=> x[2] \in DOMAIN refunds[o]
      BY <1>6, <1>10, <3>1
    <3>3. x[2] \in DOMAIN refunds[o] => refunds'[o][x[2]] = refunds[o][x[2]]
      BY <1>6, <1>10
    <3> QED
      BY <2>3, <3>2, <3>3 DEF Approved, IsRow, Slots
  <2> QED
    BY <2>2, <2>3
<1>17. BookRows'
  <2>1. ASSUME NEW x \in BookOrders
        PROVE  /\ refunds'[x] \in Seq(Consigned!Refund)
               /\ Len(refunds'[x]) <= requests'
               /\ bought'[x] = None => refunds'[x] = <<>>
               /\ refunds'[x] = <<>> => GivenBack'[x] = 0
    <3>1. CASE x = o
      <4>1. refunds'[o] # <<>>
        BY <1>6, <1>10, EmptySeq
      <4>2. bought'[o] # None
        BY <1>12 DEF Consigned!BooksParameters
      <4> QED
        BY <1>6, <1>10, <3>1, <4>1, <4>2
    <3>2. CASE x # o
      <4>1. /\ refunds[x] \in Seq(Consigned!Refund) /\ Len(refunds[x]) <= requests
            /\ bought[x] = None => refunds[x] = <<>>
            /\ refunds[x] = <<>> => GivenBack[x] = 0
        BY <1>3 DEF BookRows
      <4>2. Len(refunds[x]) <= requests'
        BY <1>1, <1>4, <4>1, LenProperties
      <4> QED
        BY <1>9, <1>12, <1>13, <3>2, <4>1, <4>2
    <3> QED
      BY <3>1, <3>2
  <2>2. settings'.pct \in Pcts /\ {"pct", "open"} \subseteq DOMAIN settings'
    BY <1>1, <1>3 DEF BookRows
  <2>3. requests' \in 0..BookRequests
    BY <1>1, <1>4
  <2> QED
    BY <1>9, <1>12, <2>1, <2>2, <2>3 DEF BookRows
<1> QED
  BY <1>13, <1>14, <1>15, <1>16, <1>17, GrownSums

LEMMA BookReviewKeeps ==
  ASSUME Consigned!BooksParameters, SettleInv, Consigned!ReviewRefund
  PROVE  SettleInv'
<1>1. /\ requests < BookRequests /\ requests' = requests + 1 /\ settings' = settings
  BY DEF Consigned!ReviewRefund, Consigned!Counted
<1>18. PICK o \in BookOrders, way \in {"approved", "rejected"} :
        \E n \in DOMAIN refunds[o] :
          /\ refunds[o][n].status = "pending"
          /\ refunds' = [refunds EXCEPT ![o][n].status = way]
          /\ way = "approved" => bought' = [bought EXCEPT ![o] = Consigned!Applied(@, refunds[o][n].amount)]
          /\ way = "rejected" => bought' = bought
  BY DEF Consigned!ReviewRefund
<1>2. PICK n \in DOMAIN refunds[o] :
        /\ refunds[o][n].status = "pending"
        /\ refunds' = [refunds EXCEPT ![o][n].status = way]
        /\ way = "approved" => bought' = [bought EXCEPT ![o] = Consigned!Applied(@, refunds[o][n].amount)]
        /\ way = "rejected" => bought' = bought
  BY <1>18
<1>3. BookRows
  BY DEF SettleInv
<1>4. /\ refunds[o] \in Seq(Consigned!Refund) /\ requests \in Nat /\ Len(refunds[o]) <= requests
      /\ BookRequests \in Nat /\ <<o, n>> \in Slots /\ refunds[o][n] \in Consigned!Refund
  BY <1>2, <1>3, BookRowTypes DEF BookRows, Consigned!BooksParameters
<1>5. refunds[o] # <<>> /\ n \in 1..Len(refunds[o]) /\ Len(refunds[o]) \in Nat
  <2>1. n \in 1..Len(refunds[o]) /\ Len(refunds[o]) \in Nat
    BY <1>2, <1>4, LenProperties
  <2>2. refunds[o] # <<>>
    <3>1. Len(<<>>) = 0
      BY EmptySeq
    <3> QED
      BY <2>1, <3>1
  <2> QED
    BY <2>1, <2>2
<1>6. bought[o] \in Consigned!Order
  BY <1>3, <1>5 DEF BookRows
<1>7. PICK amount \in Nat : amount = refunds[o][n].amount
  BY <1>4 DEF Consigned!Refund
<1>8. PICK row : row = [refunds[o][n] EXCEPT !.status = way]
  OBVIOUS
<1>9. row \in Consigned!Refund /\ row.status = way /\ row.amount = amount
  BY <1>4, <1>7, <1>8 DEF Consigned!Refund
<1>10. /\ refunds'[o] = [refunds[o] EXCEPT ![n] = row]
       /\ \A x \in BookOrders \ {o} : refunds'[x] = refunds[x]
       /\ DOMAIN refunds' = BookOrders
  BY <1>2, <1>3, <1>8 DEF BookRows
<1>11. /\ refunds'[o] \in Seq(Consigned!Refund) /\ Len(refunds'[o]) = Len(refunds[o])
       /\ DOMAIN refunds'[o] = DOMAIN refunds[o] /\ refunds'[o][n] = row
       /\ \A i \in DOMAIN refunds[o] : i # n => refunds'[o][i] = refunds[o][i]
  BY <1>4, <1>5, <1>9, <1>10, ExceptSeq
<1>12. PICK given \in Nat : given = IF way = "approved" THEN amount ELSE 0
  OBVIOUS
<1>13. /\ bought'[o] \in Consigned!Order
       /\ bought'[o].refunded = bought[o].refunded + given
       /\ \A x \in BookOrders \ {o} : bought'[x] = bought[x]
       /\ bought' \in [BookOrders -> Consigned!Order \cup {None}]
  <2>1. CASE way = "approved"
    <3>1. /\ Consigned!Applied(bought[o], amount) \in Consigned!Order
          /\ Consigned!Applied(bought[o], amount).refunded = bought[o].refunded + amount
      BY <1>6, <1>7, AppliedIsOrder
    <3>2. bought' = [bought EXCEPT ![o] = Consigned!Applied(bought[o], amount)]
      BY <1>2, <1>7, <2>1
    <3> QED
      BY <1>3, <1>12, <2>1, <3>1, <3>2 DEF BookRows
  <2>2. CASE way = "rejected"
    <3>1. bought[o].refunded + 0 = bought[o].refunded
      BY <1>6 DEF Consigned!Order
    <3> QED
      BY <1>2, <1>3, <1>6, <1>12, <2>2, <3>1 DEF BookRows
  <2> QED
    BY <2>1, <2>2
<1>14. /\ GivenBack'[o] = GivenBack[o] + given
       /\ \A x \in BookOrders \ {o} : GivenBack'[x] = GivenBack[x]
  <2>1. None \notin Consigned!Order
    BY DEF Consigned!BooksParameters
  <2> QED
    BY <1>6, <1>13, <2>1 DEF GivenBack
<1>15. Approved'[<<o, n>>] = Approved[<<o, n>>] + given
  <2>1. Approved[<<o, n>>] = 0
    BY <1>2, <1>4 DEF Approved
  <2>2. Slots' = Slots /\ n \in DOMAIN refunds'[o]
    BY <1>2, <1>11 DEF Slots
  <2>3. Approved'[<<o, n>>] = given
    BY <1>4, <1>9, <1>11, <1>12, <2>2 DEF Approved, IsRow
  <2> QED
    BY <2>1, <2>3
<1>16. ASSUME NEW x \in Slots \ {<<o, n>>} PROVE Approved'[x] = Approved[x]
  <2>1. x = <<x[1], x[2]>> /\ x[1] \in BookOrders
    BY DEF Slots
  <2>2. CASE x[1] # o
    <3>1. refunds'[x[1]] = refunds[x[1]]
      BY <1>10, <2>1, <2>2
    <3> QED
      BY <3>1 DEF Approved, IsRow, Slots
  <2>3. CASE x[1] = o
    <3>1. x[2] # n
      BY <1>16, <2>1, <2>3
    <3>2. x[2] \in DOMAIN refunds'[o] <=> x[2] \in DOMAIN refunds[o]
      BY <1>11
    <3>3. x[2] \in DOMAIN refunds[o] => refunds'[o][x[2]] = refunds[o][x[2]]
      BY <1>11, <3>1
    <3> QED
      BY <2>3, <3>2, <3>3 DEF Approved, IsRow, Slots
  <2> QED
    BY <2>2, <2>3
<1>17. BookRows'
  <2>1. ASSUME NEW x \in BookOrders
        PROVE  /\ refunds'[x] \in Seq(Consigned!Refund)
               /\ Len(refunds'[x]) <= requests'
               /\ bought'[x] = None => refunds'[x] = <<>>
               /\ refunds'[x] = <<>> => GivenBack'[x] = 0
    <3>1. CASE x = o
      <4>1. refunds'[o] # <<>> /\ Len(refunds'[o]) <= requests'
        BY <1>1, <1>4, <1>5, <1>11, EmptySeq
      <4>2. bought'[o] # None
        BY <1>13 DEF Consigned!BooksParameters
      <4> QED
        BY <1>11, <3>1, <4>1, <4>2
    <3>2. CASE x # o
      <4>1. /\ refunds[x] \in Seq(Consigned!Refund) /\ Len(refunds[x]) <= requests
            /\ bought[x] = None => refunds[x] = <<>>
            /\ refunds[x] = <<>> => GivenBack[x] = 0
        BY <1>3 DEF BookRows
      <4>2. Len(refunds[x]) <= requests'
        BY <1>1, <1>4, <4>1, LenProperties
      <4> QED
        BY <1>10, <1>13, <1>14, <3>2, <4>1, <4>2
    <3> QED
      BY <3>1, <3>2
  <2>2. settings'.pct \in Pcts /\ {"pct", "open"} \subseteq DOMAIN settings'
    BY <1>1, <1>3 DEF BookRows
  <2>3. requests' \in 0..BookRequests
    BY <1>1, <1>4
  <2> QED
    BY <1>10, <1>13, <2>1, <2>2, <2>3 DEF BookRows
<1> QED
  BY <1>4, <1>14, <1>15, <1>16, <1>17, GrownSums

LEMMA BookVoidKeeps ==
  ASSUME Consigned!BooksParameters, SettleInv, Consigned!VoidOrder
  PROVE  SettleInv'
<1>1. /\ requests < BookRequests /\ requests' = requests + 1 /\ settings' = settings
      /\ refunds' = refunds
  BY DEF Consigned!VoidOrder, Consigned!Counted
<1>2. PICK o \in BookOrders :
        bought[o] # None /\ bought' = [bought EXCEPT ![o].status = "voided"]
  BY DEF Consigned!VoidOrder
<1>3. BookRows
  BY DEF SettleInv
<1>4. bought[o] \in Consigned!Order
  BY <1>2, <1>3 DEF BookRows
<1>5. /\ bought'[o] \in Consigned!Order /\ bought'[o].refunded = bought[o].refunded
      /\ \A x \in BookOrders \ {o} : bought'[x] = bought[x]
      /\ bought' \in [BookOrders -> Consigned!Order \cup {None}]
  <2>1. PICK row : row = [bought[o] EXCEPT !.status = "voided"]
    OBVIOUS
  <2>2. row \in Consigned!Order /\ row.refunded = bought[o].refunded
    BY <1>4, <2>1 DEF Consigned!Order
  <2>3. bought' = [bought EXCEPT ![o] = row]
    BY <1>2, <1>3, <2>1 DEF BookRows
  <2> QED
    BY <1>3, <2>2, <2>3 DEF BookRows
<1>6. \A x \in BookOrders : GivenBack'[x] = GivenBack[x]
  <2>1. None \notin Consigned!Order
    BY DEF Consigned!BooksParameters
  <2> QED
    BY <1>4, <1>5, <2>1 DEF GivenBack
<1>7. \A x \in Slots : Approved'[x] = Approved[x]
  BY <1>1 DEF Approved, IsRow, Slots
<1>8. BookRows'
  <2>1. ASSUME NEW x \in BookOrders
        PROVE  /\ refunds'[x] \in Seq(Consigned!Refund)
               /\ Len(refunds'[x]) <= requests'
               /\ bought'[x] = None => refunds'[x] = <<>>
               /\ refunds'[x] = <<>> => GivenBack'[x] = 0
    <3>1. /\ refunds[x] \in Seq(Consigned!Refund) /\ Len(refunds[x]) <= requests
          /\ bought[x] = None => refunds[x] = <<>>
          /\ refunds[x] = <<>> => GivenBack[x] = 0
          /\ requests \in Nat
      BY <1>3 DEF BookRows
    <3>2. Len(refunds[x]) \in Nat
      BY <3>1, LenProperties
    <3>3. bought'[x] = None => refunds[x] = <<>>
      <4>1. CASE x = o
        BY <1>5, <4>1 DEF Consigned!BooksParameters
      <4>2. CASE x # o
        BY <1>5, <3>1, <4>2
      <4> QED
        BY <4>1, <4>2
    <3> QED
      BY <1>1, <1>6, <3>1, <3>2, <3>3
  <2>2. settings'.pct \in Pcts /\ {"pct", "open"} \subseteq DOMAIN settings'
    BY <1>1, <1>3 DEF BookRows
  <2>3. DOMAIN refunds' = BookOrders
    BY <1>1, <1>3 DEF BookRows
  <2>4. requests' \in 0..BookRequests
    BY <1>1, <1>3 DEF BookRows, Consigned!BooksParameters
  <2> QED
    BY <1>5, <2>1, <2>2, <2>3, <2>4 DEF BookRows
<1> QED
  BY <1>6, <1>7, <1>8, SameSums

LEMMA SettleStep ==
  ASSUME Consigned!BooksParameters, SettleInv, [Consigned!Next]_(Consigned!bookVars)
  PROVE  SettleInv'
<1>1. BookRows /\ requests \in 0..BookRequests
  BY DEF SettleInv, BookRows
<1>2. CASE \/ \E w \in Workers : Consigned!Handle(w)
           \/ UNCHANGED Consigned!bookVars
  <2>1. UNCHANGED <<bought, refunds, settings>>
    BY <1>2 DEF Consigned!Handle, Consigned!ReceiveBook, Consigned!ImportBooks, Consigned!Begin,
       Consigned!ReceiveCode, Consigned!Becomes, Consigned!Commit, Consigned!Abort,
       Consigned!sales, Consigned!bookVars
  <2>2. requests' = requests \/ (requests < BookRequests /\ requests' = requests + 1)
    BY <1>2 DEF Consigned!Handle, Consigned!ReceiveBook, Consigned!ImportBooks, Consigned!Begin,
       Consigned!ReceiveCode, Consigned!Becomes, Consigned!Commit, Consigned!Abort,
       Consigned!Counted, Consigned!bookVars
  <2>3. requests' \in {requests, requests + 1} /\ requests' <= BookRequests
    BY <1>1, <2>2 DEF Consigned!BooksParameters
  <2> QED
    BY <2>1, <2>3, ElseKeeps
<1>3. CASE Consigned!UpdateSettings \/ Consigned!DeleteProduct
  <2>1. UNCHANGED <<bought, refunds>>
    BY <1>3 DEF Consigned!UpdateSettings, Consigned!DeleteProduct, Consigned!sales
  <2>2. requests < BookRequests /\ requests' = requests + 1
    BY <1>3 DEF Consigned!UpdateSettings, Consigned!DeleteProduct, Consigned!Counted
  <2>3. settings' = settings \/ settings' \in [pct : Pcts, open : BOOLEAN]
    BY <1>3 DEF Consigned!UpdateSettings, Consigned!DeleteProduct
  <2>4. requests' \in {requests, requests + 1} /\ requests' <= BookRequests
    BY <1>1, <2>2 DEF Consigned!BooksParameters
  <2> QED
    BY <2>1, <2>3, <2>4, ElseKeeps
<1> QED
  BY <1>2, <1>3, UploadKeeps, BookRefundKeeps, BookReviewKeeps, BookVoidKeeps DEF Consigned!Next

LEMMA ShareIsInt ==
  ASSUME NEW row \in Consigned!Order, NEW amount \in Nat
  PROVE  /\ Consigned!RefundShare(row, amount).book \in Int
         /\ Consigned!RefundShare(row, amount).restaurant \in Int
         /\ Consigned!RefundShare(row, amount).book + Consigned!RefundShare(row, amount).restaurant = amount
<1>1. row.share \in Nat /\ row.total \in Nat
  BY DEF Consigned!Order
<1>2. CASE row.total = 0
  BY <1>2 DEF Consigned!RefundShare
<1>3. CASE row.total # 0
  <2>1. PICK a, b : /\ a = Consigned!Rounded(row.share * amount, row.total)
                   /\ b = Consigned!Rounded((row.total - row.share) * amount, row.total)
    OBVIOUS
  <2>2. a \in Int
    <3>1. row.share * amount \in Nat /\ row.total \in Nat \ {0}
      BY <1>1, <1>3, Products
    <3> QED
      BY <2>1, <3>1, RoundedIsInt
  <2>3. b \in Int
    <3>1. row.total - row.share \in Int /\ amount \in Int /\ row.total \in Nat \ {0}
      BY <1>1, <1>3
    <3>2. (row.total - row.share) * amount \in Int
      BY <3>1, IntProducts
    <3> QED
      BY <2>1, <3>1, <3>2, RoundedOfInt
  <2>4. Consigned!RefundShare(row, amount)
          = [book |-> a, restaurant |-> b + (amount - (a + b))]
    BY <1>3, <2>1 DEF Consigned!RefundShare, Consigned!RefundShareDrifting
  <2> QED
    BY <2>2, <2>3, <2>4
<1> QED
  BY <1>2, <1>3

LEMMA SettlementFollows ==
  Consigned!BooksParameters /\ SettleInv => Consigned!SettlementIsNetSales
<1> SUFFICES ASSUME Consigned!BooksParameters, SettleInv,
                    \A x \in Consigned!Returned :
                      x[1] \in Consigned!Sold /\ refunds[x[1]][x[2]].status = "approved"
             PROVE  /\ Consigned!Settlement.revenue
                          = Consigned!Sum([o \in Consigned!Sold |-> bought[o].total - bought[o].refunded])
                    /\ Consigned!Settlement.book + Consigned!Settlement.restaurant
                          = Consigned!Settlement.revenue
  BY DEF Consigned!SettlementIsNetSales
<1> DEFINE net == [o \in Consigned!Sold |-> bought[o].total - bought[o].refunded]
           gross == [o \in Consigned!Sold |-> bought[o].total]
           back == [o \in Consigned!Sold |-> bought[o].refunded]
           ours == [o \in Consigned!Sold |-> bought[o].share]
           theirs == [o \in Consigned!Sold |-> bought[o].total - bought[o].share]
           given == [x \in Consigned!Returned |-> refunds[x[1]][x[2]].amount]
           givenBook == [x \in Consigned!Returned |-> Consigned!Share(x).book]
           givenRest == [x \in Consigned!Returned |-> Consigned!Share(x).restaurant]
<1>1. BookRows
  BY DEF SettleInv
<1>2. \A o \in Consigned!Sold : o \in BookOrders /\ bought[o] \in Consigned!Order
  BY <1>1 DEF Consigned!Sold, BookRows
<1>3. Consigned!Returned = {x \in Slots : IsRow(x)}
  BY DEF Consigned!Returned, Slots, IsRow
<1>4. IsFiniteSet(Consigned!Sold) /\ IsFiniteSet(Consigned!Returned)
  <2>1. Consigned!Sold \subseteq BookOrders /\ Consigned!Returned \subseteq Slots
    BY <1>2, <1>3
  <2> QED
    BY <2>1, SlotsAreFinite, FS_Subset
<1>5. ASSUME NEW x \in Consigned!Returned
      PROVE  /\ x[1] \in Consigned!Sold /\ refunds[x[1]][x[2]].status = "approved"
             /\ refunds[x[1]][x[2]].amount \in Nat
             /\ x \in Slots /\ IsRow(x)
  <2>1. x \in Slots /\ IsRow(x) /\ x[1] \in BookOrders
    BY <1>3 DEF Slots
  <2>2. refunds[x[1]][x[2]] \in Consigned!Refund
    BY <1>1, <2>1, BookRowTypes DEF IsRow
  <2> QED
    BY <2>1, <2>2 DEF Consigned!Refund
<1>6. \A o \in Consigned!Sold :
        /\ gross[o] \in Int /\ back[o] \in Int /\ net[o] \in Int /\ ours[o] \in Int /\ theirs[o] \in Int
        /\ gross[o] = net[o] + back[o] /\ gross[o] = ours[o] + theirs[o]
        /\ back[o] = GivenBack[o]
  <2> SUFFICES ASSUME NEW o \in Consigned!Sold
               PROVE  /\ gross[o] \in Int /\ back[o] \in Int /\ net[o] \in Int
                      /\ ours[o] \in Int /\ theirs[o] \in Int
                      /\ gross[o] = net[o] + back[o] /\ gross[o] = ours[o] + theirs[o]
                      /\ back[o] = GivenBack[o]
    OBVIOUS
  <2>1. bought[o].total \in Nat /\ bought[o].refunded \in Nat /\ bought[o].share \in Nat
    BY <1>2 DEF Consigned!Order
  <2>2. GivenBack[o] = bought[o].refunded
    BY <1>2 DEF GivenBack, Consigned!BooksParameters
  <2> QED
    BY <2>1, <2>2
<1>7. \A x \in Consigned!Returned :
        /\ given[x] \in Int /\ givenBook[x] \in Int /\ givenRest[x] \in Int
        /\ given[x] = givenBook[x] + givenRest[x]
        /\ given[x] = Approved[x]
  <2> SUFFICES ASSUME NEW x \in Consigned!Returned
               PROVE  /\ given[x] \in Int /\ givenBook[x] \in Int /\ givenRest[x] \in Int
                      /\ given[x] = givenBook[x] + givenRest[x]
                      /\ given[x] = Approved[x]
    OBVIOUS
  <2>1. bought[x[1]] \in Consigned!Order /\ refunds[x[1]][x[2]].amount \in Nat
    BY <1>2, <1>5
  <2>2. /\ Consigned!Share(x).book \in Int /\ Consigned!Share(x).restaurant \in Int
        /\ Consigned!Share(x).book + Consigned!Share(x).restaurant = refunds[x[1]][x[2]].amount
    BY <2>1, ShareIsInt DEF Consigned!Share
  <2>3. Approved[x] = refunds[x[1]][x[2]].amount
    BY <1>5 DEF Approved
  <2> QED
    BY <2>1, <2>2, <2>3
<1> DEFINE SoldSet == Consigned!Sold
           RowSet == Consigned!Returned
<1>8. /\ Consigned!Sum(net) = TotalOver(net, SoldSet) /\ Consigned!Sum(gross) = TotalOver(gross, SoldSet)
      /\ Consigned!Sum(ours) = TotalOver(ours, SoldSet) /\ Consigned!Sum(theirs) = TotalOver(theirs, SoldSet)
  <2>1. DOMAIN net = SoldSet /\ DOMAIN gross = SoldSet /\ DOMAIN ours = SoldSet /\ DOMAIN theirs = SoldSet
    OBVIOUS
  <2>2. IsFiniteSet(DOMAIN net) /\ IsFiniteSet(DOMAIN gross) /\ IsFiniteSet(DOMAIN ours) /\ IsFiniteSet(DOMAIN theirs)
    BY <1>4, <2>1
  <2> HIDE DEF net, gross, ours, theirs, SoldSet
  <2> QED
    BY <2>1, <2>2, BookSumIsTotal
<1>9. /\ Consigned!Sum(given) = TotalOver(given, RowSet) /\ Consigned!Sum(givenBook) = TotalOver(givenBook, RowSet)
      /\ Consigned!Sum(givenRest) = TotalOver(givenRest, RowSet)
  <2>1. DOMAIN given = RowSet /\ DOMAIN givenBook = RowSet /\ DOMAIN givenRest = RowSet
    OBVIOUS
  <2>2. IsFiniteSet(DOMAIN given) /\ IsFiniteSet(DOMAIN givenBook) /\ IsFiniteSet(DOMAIN givenRest)
    BY <1>4, <2>1
  <2> HIDE DEF given, givenBook, givenRest, RowSet
  <2> QED
    BY <2>1, <2>2, BookSumIsTotal
<1>10. /\ Consigned!Settlement.revenue = Consigned!Sum(gross) - Consigned!Sum(given)
       /\ Consigned!Settlement.book = Consigned!Sum(ours) - Consigned!Sum(givenBook)
       /\ Consigned!Settlement.restaurant = Consigned!Sum(theirs) - Consigned!Sum(givenRest)
  BY DEF Consigned!Settlement
<1>11. ASSUME NEW o \in BookOrders, o \notin SoldSet PROVE GivenBack[o] = 0
  <2>1. \A i \in DOMAIN refunds[o] : FALSE
    <3> SUFFICES ASSUME NEW i \in DOMAIN refunds[o] PROVE FALSE
      OBVIOUS
    <3>1. <<o, i>> \in Slots
      BY <1>1, BookRowTypes
    <3>2. <<o, i>> \in Consigned!Returned
      BY <1>3, <3>1 DEF IsRow
    <3>3. <<o, i>>[1] \in Consigned!Sold
      BY <1>5, <3>2
    <3> QED
      BY <1>11, <3>3
  <2>2. refunds[o] \in Seq(Consigned!Refund)
    BY <1>1 DEF BookRows
  <2>3. Len(refunds[o]) = 0
    <3>1. PICK n \in Nat : n = Len(refunds[o]) /\ DOMAIN refunds[o] = 1..n
      BY <2>2, LenProperties
    <3>2. 1 \notin 1..n
      BY <2>1, <3>1
    <3> QED
      BY <3>1, <3>2
  <2>4. refunds[o] = <<>>
    <3>1. <<>> \in Seq(Consigned!Refund) /\ Len(<<>>) = 0
      BY EmptySeq
    <3>2. \A i \in 1..Len(refunds[o]) : refunds[o][i] = <<>>[i]
      BY <2>3
    <3> QED
      BY <2>2, <2>3, <3>1, <3>2, SeqEqual
  <2> QED
    BY <1>1, <2>4 DEF BookRows
<1>12. SoldSet \in SUBSET BookOrders /\ RowSet \in SUBSET Slots
  BY <1>2, <1>3
<1>13. \A x \in Slots \ RowSet : Approved[x] = 0
  BY <1>3 DEF Approved
<1>14. /\ \A o \in BookOrders : GivenBack[o] \in Int
       /\ \A x \in Slots : Approved[x] \in Int
  BY <1>1, BookRowTypes
<1>15. IsFiniteSet(SoldSet) /\ IsFiniteSet(RowSet) /\ IsFiniteSet(BookOrders) /\ IsFiniteSet(Slots)
  BY <1>4, SlotsAreFinite
<1>16. /\ \A o \in SoldSet : gross[o] \in Int /\ back[o] \in Int /\ net[o] \in Int
                            /\ ours[o] \in Int /\ theirs[o] \in Int
       /\ \A o \in SoldSet : gross[o] = net[o] + back[o]
       /\ \A o \in SoldSet : gross[o] = ours[o] + theirs[o]
       /\ \A o \in SoldSet : back[o] = GivenBack[o]
       /\ \A x \in RowSet : given[x] \in Int /\ givenBook[x] \in Int /\ givenRest[x] \in Int
       /\ \A x \in RowSet : given[x] = givenBook[x] + givenRest[x]
       /\ \A x \in RowSet : given[x] = Approved[x]
  BY <1>6, <1>7
<1>17. TotalOver(Approved, Slots) = TotalOver(GivenBack, BookOrders)
  BY DEF SettleInv
<1> HIDE DEF net, gross, back, ours, theirs, given, givenBook, givenRest, SoldSet, RowSet
<1>18. TotalOver(gross, SoldSet) = TotalOver(net, SoldSet) + TotalOver(back, SoldSet)
  BY <1>15, <1>16, TotalOfSum
<1>19. TotalOver(gross, SoldSet) = TotalOver(ours, SoldSet) + TotalOver(theirs, SoldSet)
  BY <1>15, <1>16, TotalOfSum
<1>20. TotalOver(given, RowSet) = TotalOver(givenBook, RowSet) + TotalOver(givenRest, RowSet)
  BY <1>15, <1>16, TotalOfSum
<1>21. TotalOver(given, RowSet) = TotalOver(Approved, RowSet)
  BY <1>15, <1>16, TotalOfSame
<1>22. TotalOver(back, SoldSet) = TotalOver(GivenBack, SoldSet)
  BY <1>15, <1>16, TotalOfSame
<1>23. TotalOver(Approved, Slots) = TotalOver(Approved, RowSet)
  BY <1>12, <1>13, <1>14, <1>15, TotalOfRest
<1>24. TotalOver(GivenBack, BookOrders) = TotalOver(GivenBack, SoldSet)
  BY <1>11, <1>12, <1>14, <1>15, TotalOfRest
<1>25. /\ TotalOver(net, SoldSet) \in Int /\ TotalOver(back, SoldSet) \in Int
       /\ TotalOver(ours, SoldSet) \in Int /\ TotalOver(theirs, SoldSet) \in Int
       /\ TotalOver(givenBook, RowSet) \in Int /\ TotalOver(givenRest, RowSet) \in Int
  BY <1>15, <1>16, TotalIsInt
<1>26. TotalOver(back, SoldSet) = TotalOver(given, RowSet)
  BY <1>17, <1>21, <1>22, <1>23, <1>24
<1>27. Consigned!Settlement.revenue = Consigned!Sum(net)
  BY <1>8, <1>9, <1>10, <1>18, <1>25, <1>26
<1>28. Consigned!Settlement.book + Consigned!Settlement.restaurant = Consigned!Settlement.revenue
  BY <1>8, <1>9, <1>10, <1>19, <1>20, <1>25
<1> QED
  BY <1>27, <1>28 DEF net

(* For any orders, amounts and percentages: where the settlement can       *)
(* follow the orders it comes to their net sales, and the shares of book   *)
(* and restaurant make up that amount (consignment_settlement.py).         *)
THEOREM SettlementAlways ==
  ASSUME Consigned!BooksParameters
  PROVE  Consigned!Spec => []Consigned!SettlementIsNetSales
<1>1. Consigned!Init => SettleInv
  BY SettleInit
<1>2. SettleInv /\ [Consigned!Next]_(Consigned!bookVars) => SettleInv'
  BY SettleStep
<1>3. SettleInv => Consigned!SettlementIsNetSales
  BY SettlementFollows
<1> QED
  BY <1>1, <1>2, <1>3, PTL DEF Consigned!Spec

(* In the back office: where it can follow the orders, the settlement comes*)
(* to their net sales and its shares make up that (consignment_settlement).*)
THEOREM SettlementIsNetSalesAlways == BackOfficeSpec => []SettlementIsNetSales
<1> DEFINE Inv == part = "books" => SettleInv
<1>1. BackOfficeInit => Inv
  BY BooksParametersHold, SettleInit DEF BackOfficeInit
<1>2. Inv /\ [BackOfficeNext]_backOfficeVars => Inv'
  <2> SUFFICES ASSUME Inv, [BackOfficeNext]_backOfficeVars, part' = "books"
               PROVE  SettleInv'
    OBVIOUS
  <2>1. part = "books"
    BY DEF BackOfficeNext, backOfficeVars
  <2>2. [Consigned!Next]_(Consigned!bookVars)
    BY <2>1, BookStepIsOwn
  <2> QED
    BY <2>1, <2>2, BooksParametersHold, SettleStep
<1>3. Inv => SettlementIsNetSales
  BY BooksParametersHold, SettlementFollows DEF SettlementIsNetSales
<1> QED
  BY <1>1, <1>2, <1>3, PTL DEF BackOfficeSpec

---------------------------------------------------------------------------
(* The places of an event and who takes them (Events).                     *)

Booked == [t \in Tickets |-> IF ticket[t] = None THEN 0 ELSE ticket[t].qty]

With(statuses) == {t \in Tickets : ticket[t] # None /\ ticket[t].status \in statuses}

Inside == [t \in Tickets |-> IF ticket[t] = None THEN 0 ELSE admitted[t] * ticket[t].qty]

LEMMA FiniteInEvents == \A S : Hall!IsFiniteSet(S) <=> IsFiniteSet(S)
BY DEF IsFiniteSet, Hall!IsFiniteSet

(* Places adds up what was booked.                                         *)
LEMMA PlacesAreTotal ==
  ASSUME IsFiniteSet(Tickets), NEW statuses
  PROVE  Hall!Places(statuses) = TotalOver(Booked, With(statuses))
<1> DEFINE S == With(statuses)
           Is(iter) == iter = [s \in SUBSET S |-> IF s = {} THEN 0
                                ELSE ticket[Some(s)].qty + iter[s \ {Some(s)}]]
<1>1. Hall!Places(statuses) = (CHOOSE iter : Is(iter))[S]
  BY DEF Hall!Places, Hall!MapThenSumSet, Hall!MapThenFoldSet, With, Some
<1>2. IsFiniteSet(S) /\ S \subseteq Tickets
  BY FS_Subset DEF With
<1>3. ASSUME NEW iter PROVE Is(iter) <=> Sums(iter, Booked, S)
  <2>1. \A s \in SUBSET S : s # {} => Booked[Some(s)] = ticket[Some(s)].qty
    BY SomeIsOne DEF With, Booked
  <2> HIDE DEF S
  <2> QED
    BY <2>1 DEF Sums
<1> HIDE DEF Is, S
<1>4. \E iter : Is(iter)
  BY <1>2, <1>3, SumsExist
<1>5. PICK i : i = CHOOSE iter : Is(iter)
  OBVIOUS
<1>6. Is(i)
  BY <1>4, <1>5
<1> QED
  BY <1>1, <1>2, <1>3, <1>5, <1>6, TotalIsSum DEF S

LEMMA GuestsAreTotal ==
  ASSUME IsFiniteSet(Tickets)
  PROVE  Hall!Guests = TotalOver(Inside, Tickets)
<1> DEFINE amount(t) == IF ticket[t] = None THEN 0 ELSE admitted[t] * ticket[t].qty
           Is(iter) == iter = [s \in SUBSET Tickets |-> IF s = {} THEN 0
                                ELSE amount(Some(s)) + iter[s \ {Some(s)}]]
<1>1. Hall!Guests = (CHOOSE iter : Is(iter))[Tickets]
  BY DEF Hall!Guests, Hall!MapThenSumSet, Hall!MapThenFoldSet, Some
<1>2. ASSUME NEW iter PROVE Is(iter) <=> Sums(iter, Inside, Tickets)
  <2>1. \A s \in SUBSET Tickets : s # {} => Inside[Some(s)] = amount(Some(s))
    BY SomeIsOne DEF Inside
  <2> HIDE DEF amount
  <2> QED
    BY <2>1 DEF Sums
<1> HIDE DEF Is
<1>3. \E iter : Is(iter)
  BY <1>2, SumsExist
<1>4. PICK i : i = CHOOSE iter : Is(iter)
  OBVIOUS
<1>5. Is(i)
  BY <1>3, <1>4
<1> QED
  BY <1>1, <1>2, <1>4, <1>5, TotalIsSum

---------------------------------------------------------------------------
(* The inductive invariant.                                                *)

TicketsAreRows ==
  /\ event \in Hall!Event
  /\ ticket \in [Tickets -> Hall!Ticket \cup {None}]
  /\ admitted \in [Tickets -> Nat]

(* What a request is about, and the row that it read.                      *)
TicketRequest(r) ==
  /\ r.op = "register" =>
       /\ {"op", "of", "qty"} \subseteq DOMAIN r
       /\ r.of \in Tickets /\ r.qty \in Qtys
  /\ r.op \in {"check_in", "cancel"} =>
       /\ {"op", "of", "read"} \subseteq DOMAIN r
       /\ r.of \in Tickets /\ ticket[r.of] # None
  /\ r.op = "check_in" => r.read = "registered"

(* While nothing excuses it, who was let in once is checked in.            *)
LetInOnce ==
  excuses = {} => \A t \in Tickets :
    admitted[t] = IF ticket[t] # None /\ ticket[t].status = "checked_in" THEN 1 ELSE 0

HallInv ==
  /\ TicketsAreRows
  /\ DOMAIN request = Workers /\ \A w \in Workers : TicketRequest(request[w])
  /\ LetInOnce
  /\ Hall!FullForCause

Taken == {"registered", "checked_in"}

(* What is booked and who is inside are sums of naturals over finite sets. *)
LEMMA HallSums ==
  ASSUME Hall!EventsParameters, TicketsAreRows
  PROVE  /\ IsFiniteSet(Tickets) /\ \A S \in SUBSET Tickets : IsFiniteSet(S)
         /\ \A t \in Tickets : Booked[t] \in Nat /\ Inside[t] \in Nat
         /\ \A S : With(S) \subseteq Tickets
<1>1. IsFiniteSet(Tickets)
  BY FiniteInEvents DEF Hall!EventsParameters
<1>2. \A t \in Tickets : ticket[t] # None => ticket[t].qty \in Nat
  BY DEF TicketsAreRows, Hall!EventsParameters, Hall!Ticket
<1>3. \A t \in Tickets : admitted[t] \in Nat
  BY DEF TicketsAreRows
<1>4. ASSUME NEW t \in Tickets, ticket[t] # None PROVE admitted[t] * ticket[t].qty \in Nat
  BY <1>2, <1>3, <1>4
<1>5. \A t \in Tickets : Booked[t] \in Nat /\ Inside[t] \in Nat
  BY <1>2, <1>4 DEF Booked, Inside
<1>6. \A S \in SUBSET Tickets : IsFiniteSet(S)
  BY <1>1, FS_Subset
<1> QED
  BY <1>1, <1>5, <1>6 DEF With

(* Who is inside has places booked.                                        *)
LEMMA InsideIsBooked ==
  ASSUME Hall!EventsParameters, TicketsAreRows, LetInOnce, excuses = {}
  PROVE  Hall!Guests <= Hall!Places({"checked_in"})
<1> DEFINE in == With({"checked_in"})
<1>1. in \subseteq Tickets /\ IsFiniteSet(in) /\ IsFiniteSet(Tickets)
  BY HallSums
<1>2. \A t \in Tickets : Inside[t] \in Int
  BY HallSums
<1>3. \A t \in Tickets \ in : Inside[t] = 0
  <2> SUFFICES ASSUME NEW t \in Tickets, t \notin in, ticket[t] # None
               PROVE  admitted[t] * ticket[t].qty = 0
    BY DEF Inside
  <2>1. admitted[t] = 0 /\ ticket[t].qty \in Nat
    BY DEF With, LetInOnce, TicketsAreRows, Hall!EventsParameters, Hall!Ticket
  <2> QED
    BY <2>1
<1>4. \A t \in in : Inside[t] = Booked[t]
  <2> SUFFICES ASSUME NEW t \in in
               PROVE  admitted[t] * ticket[t].qty = ticket[t].qty
    BY DEF Inside, Booked, With
  <2>1. admitted[t] = 1 /\ ticket[t].qty \in Nat
    BY DEF With, LetInOnce, TicketsAreRows, Hall!EventsParameters, Hall!Ticket
  <2> QED
    BY <2>1
<1>5. Hall!Places({"checked_in"}) = TotalOver(Booked, in)
  BY <1>1, PlacesAreTotal
<1>6. Hall!Guests = TotalOver(Inside, Tickets)
  BY <1>1, GuestsAreTotal
<1> HIDE DEF in
<1>7. TotalOver(Inside, Tickets) = TotalOver(Inside, in)
  BY <1>1, <1>2, <1>3, TotalOfRest
<1>8. TotalOver(Inside, in) = TotalOver(Booked, in)
  BY <1>1, <1>4, TotalOfSame
<1>9. TotalOver(Inside, in) \in Int
  <2>1. \A t \in in : Inside[t] \in Int
    BY <1>1, <1>2
  <2> QED
    BY <1>1, <2>1, TotalIsInt, Zenon
<1> QED
  BY <1>5, <1>6, <1>7, <1>8, <1>9

(* FullForCause, once the tickets that are out are known to fit.           *)
LEMMA FullEnough ==
  ASSUME Hall!EventsParameters, TicketsAreRows, LetInOnce,
         event.capacity > 0 /\ excuses = {} =>
           TotalOver(Booked, With(Taken)) <= event.capacity
  PROVE  Hall!FullForCause
<1>1. Hall!Places(Taken) = TotalOver(Booked, With(Taken))
  BY HallSums, PlacesAreTotal
<1> QED
  BY <1>1, InsideIsBooked DEF Hall!FullForCause, Taken

(* So they do in a state that keeps to the invariant.                      *)
LEMMA TakenFit ==
  ASSUME Hall!EventsParameters, HallInv, event.capacity > 0, excuses = {}
  PROVE  TotalOver(Booked, With(Taken)) <= event.capacity
<1>1. Hall!Places(Taken) = TotalOver(Booked, With(Taken))
  BY HallSums, PlacesAreTotal DEF HallInv
<1> QED
  BY <1>1 DEF HallInv, Hall!FullForCause, Taken

LEMMA FullEnoughOnce ==
  /\ Hall!EventsParameters /\ TicketsAreRows /\ LetInOnce
  /\ event.capacity > 0 /\ excuses = {} =>
       TotalOver(Booked, With(Taken)) <= event.capacity
  => Hall!FullForCause
BY FullEnough

LEMMA FullEnoughNext ==
  ASSUME Hall!EventsParameters, TicketsAreRows', LetInOnce',
         event'.capacity > 0 /\ excuses' = {} =>
           TotalOver(Booked, With(Taken))' <= event'.capacity
  PROVE  Hall!FullForCause'
<1>1. (/\ Hall!EventsParameters /\ TicketsAreRows /\ LetInOnce
       /\ event.capacity > 0 /\ excuses = {} =>
            TotalOver(Booked, With(Taken)) <= event.capacity)' => Hall!FullForCause'
  BY FullEnoughOnce, PTL
<1>2. Hall!EventsParameters'
  BY DEF Hall!EventsParameters, Hall!IsFiniteSet, Hall!Ticket
<1> QED
  BY <1>1, <1>2

---------------------------------------------------------------------------
LEMMA HallInit == ASSUME Hall!EventsParameters, Hall!Init PROVE HallInv
<1>1. TicketsAreRows /\ LetInOnce
  BY DEF TicketsAreRows, LetInOnce, Hall!Init, Hall!Event
<1>2. With(Taken) = {}
  BY DEF With, Hall!Init
<1>3. event.capacity > 0 => TotalOver(Booked, With(Taken)) <= event.capacity
  <2>1. TotalOver(Booked, With(Taken)) = 0
    BY <1>2, TotalOfNone, Zenon
  <2>2. event.capacity \in Int
    BY <1>1 DEF TicketsAreRows, Hall!Event, Hall!EventsParameters
  <2> QED
    BY <2>1, <2>2
<1>4. Hall!FullForCause
  BY <1>1, <1>3, FullEnough
<1> QED
  BY <1>1, <1>4 DEF HallInv, Hall!Init, Hall!Idle, TicketRequest

(* A request begins or is given up: no row is written.                     *)
LEMMA TicketsStay ==
  ASSUME Hall!EventsParameters, HallInv, UNCHANGED <<event, ticket, admitted, excuses>>,
         NEW w \in Workers, NEW r, request' = [request EXCEPT ![w] = r], TicketRequest(r)
  PROVE  HallInv'
<1>1. TicketsAreRows' /\ LetInOnce'
  BY DEF HallInv, TicketsAreRows, LetInOnce
<1>2. Hall!FullForCause'
  <2>1. UNCHANGED <<Booked, Inside>> /\ With(Taken)' = With(Taken)
    BY DEF Booked, Inside, With
  <2>2. TicketsAreRows /\ Hall!FullForCause
    BY DEF HallInv
  <2>3. event'.capacity > 0 /\ excuses' = {} =>
          TotalOver(Booked, With(Taken))' <= event'.capacity
    BY <2>1, TakenFit
  <2> QED
    BY <1>1, <2>3, FullEnoughNext
<1>3. DOMAIN request' = Workers /\ \A v \in Workers : TicketRequest(request[v])'
  BY DEF HallInv, TicketRequest
<1> QED
  BY <1>1, <1>2, <1>3 DEF HallInv

(* Of a request that goes on to write, and idles.                          *)
LEMMA HallOthersKeep ==
  ASSUME HallInv, NEW w \in Workers, Hall!Done(w),
         \A t \in Tickets : ticket[t] # None => ticket'[t] # None
  PROVE  DOMAIN request' = Workers /\ \A v \in Workers : TicketRequest(request[v])'
<1>1. \A v \in Workers : request'[v] = IF v = w THEN Hall!Idle ELSE request[v]
  BY DEF HallInv, Hall!Done
<1> SUFFICES ASSUME NEW v \in Workers PROVE TicketRequest(request[v])'
  BY DEF HallInv, Hall!Done
<1>2. CASE v = w
  BY <1>1, <1>2 DEF TicketRequest, Hall!Idle
<1>3. CASE v # w
  BY <1>1, <1>3 DEF TicketRequest, HallInv
<1> QED
  BY <1>2, <1>3

LEMMA UpdateKeeps ==
  ASSUME Hall!EventsParameters, HallInv, NEW w \in Workers,
         \/ \E capacity \in Capacities : Hall!UpdateEvent(w, capacity)
         \/ Hall!DeleteEvent(w)
  PROVE  HallInv'
<1>1. UNCHANGED <<ticket, admitted>> /\ Hall!Begin(w, Hall!Idle)
  BY DEF Hall!UpdateEvent, Hall!DeleteEvent
<1>2. event' \in Hall!Event
  BY DEF Hall!UpdateEvent, Hall!DeleteEvent, HallInv, TicketsAreRows, Hall!Event
<1>3. excuses' = {} => excuses = {} /\ event'.capacity = event.capacity
  BY DEF Hall!UpdateEvent, Hall!DeleteEvent, HallInv, TicketsAreRows, Hall!Event
<1>4. TicketsAreRows' /\ LetInOnce'
  BY <1>1, <1>2, <1>3 DEF HallInv, TicketsAreRows, LetInOnce
<1>5. UNCHANGED Booked /\ With(Taken)' = With(Taken)
  BY <1>1 DEF Booked, With
<1>6. event'.capacity > 0 /\ excuses' = {} =>
        TotalOver(Booked, With(Taken))' <= event'.capacity
  BY <1>3, <1>5, TakenFit
<1>7. Hall!FullForCause'
  BY <1>4, <1>6, FullEnoughNext
<1>8. DOMAIN request' = Workers /\ \A v \in Workers : TicketRequest(request[v])'
  BY <1>1 DEF HallInv, Hall!Begin, Hall!Idle, TicketRequest
<1> QED
  BY <1>4, <1>7, <1>8 DEF HallInv

LEMMA BeginsKeep ==
  ASSUME Hall!EventsParameters, HallInv, NEW w \in Workers, NEW t \in Tickets,
         \/ \E qty \in Qtys : Hall!Register(w, t, qty)
         \/ Hall!CheckIn(w, t) \/ Hall!Cancel(w, t)
  PROVE  HallInv'
<1>1. CASE \E qty \in Qtys : Hall!Register(w, t, qty)
  <2>1. PICK qty \in Qtys : Hall!Register(w, t, qty)
    BY <1>1
  <2>2. TicketRequest([op |-> "register", of |-> t, qty |-> qty])
    BY DEF TicketRequest
  <2> QED
    BY <2>1, <2>2, TicketsStay DEF Hall!Register, Hall!Begin
<1>2. CASE Hall!CheckIn(w, t)
  <2>1. TicketRequest([op |-> "check_in", of |-> t, read |-> ticket[t].status])
    BY <1>2 DEF TicketRequest, Hall!CheckIn, Hall!Admits
  <2> QED
    BY <1>2, <2>1, TicketsStay DEF Hall!CheckIn, Hall!Begin
<1>3. CASE Hall!Cancel(w, t)
  <2>1. TicketRequest([op |-> "cancel", of |-> t, read |-> ticket[t].status])
    BY <1>3 DEF TicketRequest, Hall!Cancel
  <2> QED
    BY <1>3, <2>1, TicketsStay DEF Hall!Cancel, Hall!Begin
<1> QED
  BY <1>1, <1>2, <1>3

(* A registration is written: its places were looked at again, or there is *)
(* an excuse.                                                              *)
LEMMA RegisterKeeps ==
  ASSUME Hall!EventsParameters, HallInv, NEW w \in Workers, Hall!CommitRegister(w)
  PROVE  HallInv'
<1> DEFINE t == request[w].of
           qty == request[w].qty
           row == [qty |-> qty, status |-> "registered"]
<1>1. t \in Tickets /\ qty \in Qtys /\ ticket[t] = None
  BY DEF HallInv, TicketRequest, Hall!CommitRegister
<1>2. qty \in Nat /\ row \in Hall!Ticket /\ row # None
  <2> HIDE DEF qty
  <2>1. row \in Hall!Ticket
    BY <1>1 DEF Hall!Ticket
  <2>2. qty \in Nat
    BY <1>1 DEF Hall!EventsParameters
  <2>3. row # None
    BY <2>1 DEF Hall!EventsParameters
  <2> QED
    BY <2>1, <2>2, <2>3
<1>3. ticket' = [ticket EXCEPT ![t] = row] /\ UNCHANGED <<event, admitted>>
  BY DEF Hall!CommitRegister
<1>4. excuses' = {} => excuses = {} /\ Hall!Fits(qty)
  BY DEF Hall!CommitRegister
<1>5. Hall!Done(w)
  BY DEF Hall!CommitRegister
<1> HIDE DEF t, qty
<1>6. TicketsAreRows'
  BY <1>1, <1>2, <1>3 DEF HallInv, TicketsAreRows
<1>7. LetInOnce'
  BY <1>1, <1>3, <1>4 DEF HallInv, TicketsAreRows, LetInOnce
<1>8. With(Taken)' = With(Taken) \cup {t} /\ t \notin With(Taken)
  BY <1>1, <1>2, <1>3 DEF With, Taken, HallInv, TicketsAreRows
<1>9. Booked'[t] = qty /\ \A u \in Tickets \ {t} : Booked'[u] = Booked[u]
  BY <1>1, <1>2, <1>3 DEF Booked, HallInv, TicketsAreRows
<1>10. IsFiniteSet(With(Taken)) /\ With(Taken) \subseteq Tickets
  BY HallSums DEF HallInv
<1>11. \A u \in With(Taken) \cup {t} : Booked'[u] \in Int
  BY <1>1, <1>2, <1>9, <1>10, HallSums DEF HallInv
<1>12. TotalOver(Booked', With(Taken) \cup {t}) = TotalOver(Booked', With(Taken)) + Booked'[t]
  BY <1>8, <1>10, <1>11, TotalOfMore, Zenon
<1>13. TotalOver(Booked', With(Taken)) = TotalOver(Booked, With(Taken))
  BY <1>8, <1>9, <1>10, TotalOfSame
<1>14. TotalOver(Booked, With(Taken))' = TotalOver(Booked, With(Taken)) + qty
  BY <1>8, <1>9, <1>12, <1>13
<1>15. Hall!RegisteredQty = TotalOver(Booked, With(Taken))
  BY HallSums, PlacesAreTotal DEF Hall!RegisteredQty, Taken, HallInv
<1>16. event'.capacity > 0 /\ excuses' = {} =>
         TotalOver(Booked, With(Taken))' <= event'.capacity
  BY <1>3, <1>4, <1>14, <1>15 DEF Hall!Fits
<1>17. Hall!FullForCause'
  BY <1>6, <1>7, <1>16, FullEnoughNext
<1>18. DOMAIN request' = Workers /\ \A v \in Workers : TicketRequest(request[v])'
  <2>1. \A u \in Tickets : ticket[u] # None => ticket'[u] # None
    BY <1>1, <1>2, <1>3 DEF HallInv, TicketsAreRows
  <2> QED
    BY <1>5, <2>1, HallOthersKeep
<1> QED
  BY <1>6, <1>7, <1>17, <1>18 DEF HallInv

(* A ticket changes its status and keeps its places; who is out of those   *)
(* taken stays out.                                                        *)
LEMMA StatusKeeps ==
  ASSUME Hall!EventsParameters, HallInv, NEW w \in Workers, Hall!Done(w),
         NEW t \in Tickets, ticket[t] # None,
         NEW s \in {"registered", "cancelled", "checked_in"},
         ticket' = [ticket EXCEPT ![t].status = s], UNCHANGED event,
         admitted' \in [Tickets -> Nat], excuses' = {} => excuses = {}, LetInOnce',
         excuses' = {} => (s \in Taken => ticket[t].status \in Taken)
  PROVE  HallInv'
<1>1. /\ ticket[t] \in Hall!Ticket /\ ticket'[t] \in Hall!Ticket /\ ticket'[t] # None
      /\ ticket'[t].qty = ticket[t].qty /\ ticket'[t].status = s
      /\ \A u \in Tickets \ {t} : ticket'[u] = ticket[u]
  BY DEF HallInv, TicketsAreRows, Hall!Ticket, Hall!EventsParameters
<1>2. TicketsAreRows'
  BY <1>1 DEF HallInv, TicketsAreRows
<1>3. \A u \in Tickets : Booked'[u] = Booked[u] /\ Booked[u] \in Int
  <2>1. \A u \in Tickets : Booked'[u] = Booked[u]
    BY <1>1 DEF Booked
  <2> QED
    BY <2>1, HallSums DEF HallInv
<1>4. excuses' = {} => With(Taken)' \subseteq With(Taken)
  BY <1>1 DEF With
<1>5. excuses' = {} => With(Taken) \ With(Taken)' \subseteq {t}
  BY <1>1 DEF With
<1>6. ASSUME event'.capacity > 0, excuses' = {}
      PROVE  TotalOver(Booked, With(Taken))' <= event'.capacity
  <2>1. TotalOver(Booked, With(Taken)) <= event.capacity /\ event.capacity \in Int
    BY <1>6, TakenFit DEF HallInv, TicketsAreRows, Hall!Event, Hall!EventsParameters
  <2>2. IsFiniteSet(With(Taken)) /\ With(Taken) \subseteq Tickets
    BY HallSums DEF HallInv
  <2>3. IsFiniteSet(With(Taken)') /\ With(Taken)' \subseteq Tickets
    BY <1>4, <1>6, <2>2, FS_Subset
  <2>4. TotalOver(Booked', With(Taken)') = TotalOver(Booked, With(Taken)')
    BY <1>3, <2>3, TotalOfSame
  <2>5. CASE With(Taken)' = With(Taken)
    BY <2>1, <2>4, <2>5
  <2>6. CASE With(Taken)' # With(Taken)
    <3>1. With(Taken) = With(Taken)' \cup {t} /\ t \notin With(Taken)'
      BY <1>4, <1>5, <1>6, <2>6
    <3>2. \A u \in With(Taken)' \cup {t} : Booked[u] \in Int
      BY <1>3, <2>3
    <3>3. TotalOver(Booked, With(Taken)' \cup {t}) = TotalOver(Booked, With(Taken)') + Booked[t]
      BY <2>3, <3>1, <3>2, TotalOfMore, Zenon
    <3>6. \A u \in With(Taken)' : Booked[u] \in Int
      BY <3>2
    <3>4. TotalOver(Booked, With(Taken)') \in Int
      BY <2>3, <3>6, TotalIsInt, Zenon
    <3>5. Booked[t] \in Nat
      BY HallSums DEF HallInv
    <3> QED
      BY <2>1, <2>4, <3>1, <3>3, <3>4, <3>5
  <2> QED
    BY <2>5, <2>6
<1>7. Hall!FullForCause'
  BY <1>2, <1>6, FullEnoughNext
<1>8. \A u \in Tickets : ticket[u] # None => ticket'[u] # None
  BY <1>1
<1> QED
  BY <1>2, <1>7, <1>8, HallOthersKeep DEF HallInv

LEMMA CheckInKeeps ==
  ASSUME Hall!EventsParameters, HallInv, NEW w \in Workers, Hall!CommitCheckIn(w)
  PROVE  HallInv'
<1> DEFINE t == request[w].of
<1>1. t \in Tickets /\ ticket[t] # None /\ request[w].read = "registered"
  BY DEF HallInv, TicketRequest, Hall!CommitCheckIn
<1>2. /\ ticket' = [ticket EXCEPT ![t].status = "checked_in"] /\ Hall!Done(w)
      /\ admitted' = [admitted EXCEPT ![t] = @ + 1] /\ UNCHANGED event
      /\ excuses' = {} => excuses = {} /\ ticket[t].status = "registered"
  BY <1>1 DEF Hall!CommitCheckIn
<1> HIDE DEF t
<1>3. admitted' \in [Tickets -> Nat]
  BY <1>1, <1>2 DEF HallInv, TicketsAreRows
<1>4. ticket'[t] # None /\ ticket'[t].status = "checked_in"
  BY <1>1, <1>2 DEF HallInv, TicketsAreRows, Hall!Ticket, Hall!EventsParameters
<1>5. LetInOnce'
  BY <1>1, <1>2, <1>4 DEF HallInv, TicketsAreRows, LetInOnce
<1> QED
  BY <1>1, <1>2, <1>3, <1>5, StatusKeeps DEF Taken

LEMMA CancelKeeps ==
  ASSUME Hall!EventsParameters, HallInv, NEW w \in Workers, Hall!CommitCancel(w)
  PROVE  HallInv'
<1> DEFINE t == request[w].of
           s == IF request[w].read = "cancelled" THEN ticket[t].status ELSE "cancelled"
<1>1. t \in Tickets /\ ticket[t] # None
  BY DEF HallInv, TicketRequest, Hall!CommitCancel
<1>2. /\ ticket' = [ticket EXCEPT ![t].status = s] /\ Hall!Done(w)
      /\ UNCHANGED <<admitted, event>>
      /\ excuses' = {} => excuses = {} /\ ~(admitted[t] > 0)
  BY DEF Hall!CommitCancel
<1>3. s \in {"registered", "cancelled", "checked_in"} /\ s \in {ticket[t].status, "cancelled"}
  BY <1>1 DEF HallInv, TicketsAreRows, Hall!Ticket
<1> HIDE DEF t, s
<1>4. ticket'[t] # None /\ ticket'[t].status = s
  BY <1>1, <1>2, <1>3 DEF HallInv, TicketsAreRows, Hall!Ticket, Hall!EventsParameters
<1>5. LetInOnce'
  BY <1>1, <1>2, <1>3, <1>4 DEF HallInv, TicketsAreRows, LetInOnce
<1>6. admitted' \in [Tickets -> Nat] /\ (s \in Taken => ticket[t].status \in Taken)
  BY <1>2, <1>3 DEF HallInv, TicketsAreRows, Taken
<1> QED
  BY <1>1, <1>2, <1>3, <1>5, <1>6, StatusKeeps

LEMMA HallStep ==
  ASSUME Hall!EventsParameters, HallInv, [Hall!Next]_Hall!eventVars
  PROVE  HallInv'
<1>1. CASE UNCHANGED Hall!eventVars
  <2>1. TicketsAreRows' /\ LetInOnce'
    BY <1>1 DEF HallInv, TicketsAreRows, LetInOnce, Hall!eventVars
  <2>2. UNCHANGED Booked /\ With(Taken)' = With(Taken)
    BY <1>1 DEF Booked, With, Hall!eventVars
  <2>3. event'.capacity > 0 /\ excuses' = {} =>
          TotalOver(Booked, With(Taken))' <= event'.capacity
    BY <1>1, <2>2, TakenFit DEF Hall!eventVars
  <2>4. Hall!FullForCause'
    BY <2>1, <2>3, FullEnoughNext
  <2> QED
    BY <1>1, <2>1, <2>4 DEF HallInv, TicketRequest, Hall!eventVars
<1> SUFFICES ASSUME NEW w \in Workers,
               \/ \E capacity \in Capacities : Hall!UpdateEvent(w, capacity)
               \/ Hall!DeleteEvent(w)
               \/ \E t \in Tickets, qty \in Qtys : Hall!Register(w, t, qty)
               \/ \E t \in Tickets : Hall!CheckIn(w, t) \/ Hall!Cancel(w, t)
               \/ Hall!CommitRegister(w) \/ Hall!CommitCheckIn(w)
               \/ Hall!CommitCancel(w) \/ Hall!Abort(w)
             PROVE HallInv'
  BY <1>1 DEF Hall!Next
<1>2. CASE Hall!Abort(w)
  <2>1. TicketRequest(Hall!Idle)
    BY DEF TicketRequest, Hall!Idle
  <2> QED
    BY <1>2, <2>1, TicketsStay DEF Hall!Abort, Hall!Done
<1> QED
  BY <1>2, UpdateKeeps, BeginsKeep, RegisterKeeps, CheckInKeeps, CancelKeeps

(* An event of any size: as many guests are inside as have checked in, and *)
(* no more tickets are out than there are places, but for the three causes *)
(* (register, check_in, cancel_registration).                              *)
THEOREM HallAlways ==
  ASSUME Hall!EventsParameters PROVE Hall!Spec => []Hall!FullForCause
<1>1. Hall!Init => HallInv
  BY HallInit
<1>2. HallInv /\ [Hall!Next]_Hall!eventVars => HallInv'
  BY HallStep
<1>3. HallInv => Hall!FullForCause
  BY DEF HallInv
<1> QED
  BY <1>1, <1>2, <1>3, PTL DEF Hall!Spec

(* A step of the back office, of the part "events", is one of it alone.    *)
LEMMA HallStepIsOwn ==
  ASSUME BackOfficeNext \/ UNCHANGED backOfficeVars, part = "events"
  PROVE  part' = part /\ (Hall!Next \/ UNCHANGED Hall!eventVars)
<1>1. CASE BackOfficeNext
  BY <1>1 DEF BackOfficeNext
<1>2. CASE UNCHANGED backOfficeVars
  BY <1>2 DEF backOfficeVars
<1> QED
  BY <1>1, <1>2

(* In the back office: an event is overfull for the three causes only      *)
(* (register, check_in, cancel_registration, update_event).                *)
THEOREM FullForCauseAlways == BackOfficeSpec => []FullForCause
<1> DEFINE Inv == part = "events" => HallInv
<1>1. BackOfficeInit => Inv
  BY EventsParametersHold, HallInit DEF BackOfficeInit
<1>2. Inv /\ [BackOfficeNext]_backOfficeVars => Inv'
  <2> SUFFICES ASSUME Inv, [BackOfficeNext]_backOfficeVars, part' = "events"
               PROVE  HallInv'
    OBVIOUS
  <2>1. part = "events"
    BY DEF BackOfficeNext, backOfficeVars
  <2>2. [Hall!Next]_(Hall!eventVars)
    BY <2>1, HallStepIsOwn
  <2> QED
    BY <2>1, <2>2, EventsParametersHold, HallStep
<1>3. Inv => FullForCause
  BY DEF HallInv, FullForCause
<1> QED
  BY <1>1, <1>2, <1>3, PTL DEF BackOfficeSpec

=============================================================================
