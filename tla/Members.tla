------------------------------ MODULE Members ------------------------------
(***************************************************************************)
(* Who a customer is across stores.  A phone has an account per alliance   *)
(* of stores, the marketplace being one, and a member row per store chain  *)
(* (tenant); a link joins them.  Codes by SMS, registration and login      *)
(* (api/v1/public_members.py), the member centre (public_member_center.py),*)
(* alliances (api/v1/alliance.py, services/alliance_service.py and         *)
(* marketplace_member.py), members made at the counter (api/v1/members.py, *)
(* services/member_no.py), and what a sale, an order in the marketplace    *)
(* (settle_guest_order_loyalty) and the birthday job do to an account's    *)
(* points.                                                                 *)
(*                                                                         *)
(* A request reads, then commits; a unique key that its insert meets then  *)
(* makes it fail.  Passwords, which decide nothing that is kept here, are  *)
(* left out.                                                               *)
(***************************************************************************)
EXTENDS Integers, FiniteSets, FiniteSetsExt

CONSTANTS
  Phones, Tenants, Workers,
  Alliances,    \* the networks of stores
  Market,       \* the one of the marketplace
  Codes,        \* the login codes that may be sent
  LineIds,      \* LINE accounts
  Known,        \* the phones with an account and its referral code already
  Reward,       \* REFERRAL_REWARD_POINTS
  Redemptions,  \* the points that an order in the marketplace may redeem
  MaxRequests,  \* bound on the requests
  None

VARIABLES
  enrolled,   \* enrolled[t]: the alliances tenant t has an active row of
  account,    \* account[a][p]: the account of phone p in alliance a
  local,      \* local[t][p]: the number of the member of t with phone p
  link,       \* link[t][p]: the alliance that this member is linked to
  code,       \* code[k]: the row of login code k
  referred,   \* referred[p]: whose referral code p used
  credit,     \* credit[p]: the entries of p's account in the marketplace
  owed,       \* owed[p]: the points that p's orders redeemed and p had no more
  crossed,    \* whose points two requests were changing at once
  wallet,     \* wallet[p]: the stored value of p
  favorites,  \* the stores that are somebody's favourites
  request,    \* request[w]: what worker w is at
  requests

points == <<credit, owed>>

rows == <<enrolled, account, local, link, code, referred, points, wallet, favorites>>

membersVars == <<rows, crossed, request, requests>>

---------------------------------------------------------------------------
Account == [points : Nat, referral : BOOLEAN, line : LineIds \cup {None},
            greeted : BOOLEAN]

NewAccount == [points |-> 0, referral |-> FALSE, line |-> None, greeted |-> FALSE]

(* What the constants stand for.                                           *)
MembersParameters ==
  /\ IsFiniteSet(Phones) /\ Market \in Alliances
  /\ Reward \in Nat /\ Redemptions \subseteq Nat
  /\ None \notin Phones \cup Alliances \cup Account

(* A member who made an account at the counter has a number, who came by   *)
(* the web has none.                                                       *)
Unnumbered == 0

Code == [phone : Phones, scope : Tenants \cup {Market},
         status : {"sent", "consumed"}, late : BOOLEAN, attempts : Nat]

Idle == [op |-> "none"]

MembersTypeOK ==
  /\ enrolled \in [Tenants -> SUBSET Alliances]
  /\ account \in [Alliances -> [Phones -> Account \cup {None}]]
  /\ local \in [Tenants -> [Phones -> Nat \cup {None}]]
  /\ link \in [Tenants -> [Phones -> Alliances \cup {None}]]
  /\ code \in [Codes -> Code \cup {None}]
  /\ referred \in [Phones -> Phones \cup {None}]
  /\ credit \in [Phones -> [reward : Nat, signup : Nat, other : Int]]
  /\ owed \in [Phones -> Nat] /\ crossed \subseteq Phones
  /\ wallet \in [Phones -> Nat \cup {None}]
  /\ favorites \subseteq Phones \X Tenants
  /\ requests \in 0..MaxRequests

Init ==
  /\ enrolled = [t \in Tenants |-> {}]
  /\ account = [a \in Alliances |-> [p \in Phones |->
       IF a = Market /\ p \in Known THEN [NewAccount EXCEPT !.referral = TRUE] ELSE None]]
  /\ local = [t \in Tenants |-> [p \in Phones |-> None]]
  /\ link = [t \in Tenants |-> [p \in Phones |-> None]]
  /\ code = [k \in Codes |-> None]
  /\ referred = [p \in Phones |-> None]
  /\ credit = [p \in Phones |-> [reward |-> 0, signup |-> 0, other |-> 0]]
  /\ owed = [p \in Phones |-> 0] /\ crossed = {}
  /\ wallet = [p \in Phones |-> IF p \in Known THEN 0 ELSE None]
  /\ favorites = {}
  /\ request = [w \in Workers |-> Idle]
  /\ requests = 0

---------------------------------------------------------------------------
(* Whose points in the marketplace a request writes, from what it read.    *)
Writes(r) ==
  CASE r.op = "register" -> {r.by} \cap Phones
    [] r.op = "refer" -> {r.of, r.by}
    [] r.op = "points" /\ r.alliance = Market -> {r.of}
    [] OTHER -> {}

Begin(w, r) ==
  /\ request[w] = Idle
  /\ requests < MaxRequests
  /\ requests' = requests + 1
  /\ request' = [request EXCEPT ![w] = r]
  /\ crossed' = crossed \cup (Writes(r) \cap UNION {Writes(request[v]) : v \in Workers})
  /\ UNCHANGED rows

(* A request with nothing between what it reads and what it writes.        *)
AtOnce ==
  requests < MaxRequests /\ requests' = requests + 1 /\ UNCHANGED <<request, crossed>>

Doing(w, op) == request[w].op = op

Done(w) == request' = [request EXCEPT ![w] = Idle] /\ UNCHANGED <<requests, crossed>>

Abort(w) == request[w] # Idle /\ Done(w) /\ UNCHANGED rows

InMarket(p) == account[Market][p]

---------------------------------------------------------------------------
(* Codes by SMS.                                                           *)

(* request_otp                                                             *)
RequestOtp(k, p, scope) ==
  /\ code[k] = None
  /\ code' = [code EXCEPT ![k] = [phone |-> p, scope |-> scope, status |-> "sent",
                                  late |-> FALSE, attempts |-> 0]]
  /\ AtOnce
  /\ UNCHANGED <<enrolled, account, local, link, referred, points, wallet, favorites>>

(* Ten minutes pass.                                                       *)
Lapse(k) ==
  /\ code[k] # None
  /\ code' = [code EXCEPT ![k].late = TRUE]
  /\ UNCHANGED <<enrolled, account, local, link, referred, points, wallet,
                 favorites, crossed, request, requests>>

Unconsumed(p, scopes) ==
  {k \in Codes : code[k] # None /\ code[k].phone = p
                   /\ code[k].scope \in scopes /\ code[k].status = "sent"}

(* The row that a code is compared with: there must be one only.           *)
Compared(k, p, scopes) == Unconsumed(p, scopes) = {k} /\ ~code[k].late

(* verify_otp of a wrong code.                                             *)
WrongCode(p, scope) ==
  \E k \in Codes :
    /\ Compared(k, p, {scope})
    /\ code' = [code EXCEPT ![k].attempts = @ + 1]
    /\ AtOnce
    /\ UNCHANGED <<enrolled, account, local, link, referred, points, wallet, favorites>>

(* What ensure_tenant_in_marketplace_alliance, resolve_alliance_member and *)
(* their like find.                                                        *)
Found(a, t, p) ==
  [account |-> account[a][p] # None,
   enrolled |-> t # None /\ a \in enrolled[t],
   member |-> t # None /\ local[t][p] # None,
   link |-> t # None /\ link[t][p] = a]

Login(w, k, a, t, p) ==
  Begin(w, [op |-> "login", of |-> p, code |-> k, alliance |-> a, tenant |-> t,
            found |-> Found(a, t, p)])

(* verify_otp at a store of the marketplace, in the member centre and at   *)
(* a table, and resolve_member at the counter of an alliance.              *)
VerifyOtp(w, p) ==
  \E k \in Codes :
    \/ \E t \in Tenants :
         /\ Compared(k, p, {t})
         /\ Login(w, k, Market, t, p)
    \/ /\ Compared(k, p, {Market})
       /\ Login(w, k, Market, None, p)
    \/ \E t \in Tenants :
         /\ Compared(k, p, {t})
         /\ Begin(w, [op |-> "table", of |-> p, code |-> k, tenant |-> t,
                      found |-> local[t][p] # None])
    \/ \E t \in Tenants, a \in Alliances :
         /\ enrolled[t] = {a}
         /\ Compared(k, p, Tenants \cup {Market})
         /\ Login(w, k, a, t, p)

(* _resolve_tenant_member_id, of an order of one who is logged in.         *)
OrderAt(w, t, p) == InMarket(p) # None /\ Login(w, None, Market, t, p)

Clashes(r) ==
  \/ ~r.found.account /\ account[r.alliance][r.of] # None
  \/ r.tenant # None /\ ~r.found.enrolled /\ r.alliance \in enrolled[r.tenant]
  \/ r.tenant # None /\ ~r.found.member /\ local[r.tenant][r.of] # None
  \/ r.tenant # None /\ ~r.found.link /\ link[r.tenant][r.of] # None

(* resolve_alliance_member; the marketplace enrols the tenant first.       *)
CommitLogin(w) ==
  LET r == request[w] IN
  /\ Doing(w, "login")
  /\ ~Clashes(r)
  /\ code' = IF r.code = None THEN code
             ELSE [code EXCEPT ![r.code].status = "consumed"]
  /\ account' = IF r.found.account THEN account
                ELSE [account EXCEPT ![r.alliance][r.of] = NewAccount]
  /\ IF r.tenant = None THEN UNCHANGED <<enrolled, local, link>>
     ELSE /\ enrolled' = IF r.alliance # Market THEN enrolled
                         ELSE [enrolled EXCEPT ![r.tenant] = @ \cup {Market}]
          /\ local' = IF r.found.member THEN local
                      ELSE [local EXCEPT ![r.tenant][r.of] = Unnumbered]
          /\ link' = [link EXCEPT ![r.tenant][r.of] = r.alliance]
  /\ Done(w)
  /\ UNCHANGED <<referred, points, wallet, favorites>>

CommitTable(w) ==
  LET r == request[w] IN
  /\ Doing(w, "table")
  /\ r.found \/ local[r.tenant][r.of] = None
  /\ code' = [code EXCEPT ![r.code].status = "consumed"]
  /\ local' = IF r.found THEN local ELSE [local EXCEPT ![r.tenant][r.of] = Unnumbered]
  /\ Done(w)
  /\ UNCHANGED <<enrolled, account, link, referred, points, wallet, favorites>>

---------------------------------------------------------------------------
(* Alliances of tenants.                                                   *)

(* join_alliance                                                           *)
JoinAlliance(w, t, a) ==
  /\ enrolled[t] = {}
  /\ Begin(w, [op |-> "join", tenant |-> t, alliance |-> a])

CommitJoin(w) ==
  LET r == request[w] IN
  /\ Doing(w, "join")
  /\ r.alliance \notin enrolled[r.tenant]
  /\ enrolled' = [enrolled EXCEPT ![r.tenant] = @ \cup {r.alliance}]
  /\ Done(w)
  /\ UNCHANGED <<account, local, link, code, referred, points, wallet, favorites>>

(* ensure_tenant_in_marketplace_alliance, when a listing is approved.      *)
ApproveListing(t) ==
  /\ enrolled' = [enrolled EXCEPT ![t] = @ \cup {Market}]
  /\ AtOnce
  /\ UNCHANGED <<account, local, link, code, referred, points, wallet, favorites>>

---------------------------------------------------------------------------
(* Registration, referrals and the member centre.                          *)

HasReferral(q) == InMarket(q) # None /\ InMarket(q).referral

(* register_member; an unknown referral code is ignored.                   *)
Register(w, p, q) ==
  /\ InMarket(p) = None
  /\ q # None => q # p /\ HasReferral(q)
  /\ Begin(w, [op |-> "register", of |-> p, by |-> q,
               read |-> IF q = None THEN None ELSE InMarket(q)])

(* apply_referral *)
ApplyReferral(w, p, q) ==
  /\ InMarket(p) # None
  /\ referred[p] = None
  /\ q # p /\ HasReferral(q)
  /\ Begin(w, [op |-> "refer", of |-> p, by |-> q, mine |-> InMarket(p), read |-> InMarket(q)])

Paid(p, q) ==
  /\ referred' = [referred EXCEPT ![p] = q]
  /\ credit' = [credit EXCEPT ![p].signup = @ + 1, ![q].reward = @ + 1]
  /\ UNCHANGED owed

CommitRegister(w) ==
  LET r == request[w]
      new == [NewAccount EXCEPT !.points = IF r.by = None THEN 0 ELSE Reward]
  IN
  /\ Doing(w, "register")
  /\ InMarket(r.of) = None
  /\ IF r.by = None
     THEN /\ account' = [account EXCEPT ![Market][r.of] = new]
          /\ UNCHANGED <<referred, points>>
     ELSE /\ account' = [account EXCEPT ![Market][r.of] = new,
                                        ![Market][r.by].points = r.read.points + Reward]
          /\ Paid(r.of, r.by)
  /\ Done(w)
  /\ UNCHANGED <<enrolled, local, link, code, wallet, favorites>>

(* Mistaken: only the check before the reward keeps it from being repeated.*)
CommitReferralAnyway(w) ==
  LET r == request[w] IN
  /\ Doing(w, "refer")
  /\ account' = [account EXCEPT ![Market][r.by].points = r.read.points + Reward,
                                ![Market][r.of].points = r.mine.points + Reward,
                                ![Market][r.of].referral = TRUE]
  /\ Paid(r.of, r.by)
  /\ Done(w)
  /\ UNCHANGED <<enrolled, local, link, code, wallet, favorites>>

(* The referral of a member is under a unique key.                         *)
CommitReferral(w) ==
  LET r == request[w] IN
  /\ Doing(w, "refer")
  /\ referred[r.of] = None
  /\ account' = [account EXCEPT ![Market][r.by].points = r.read.points + Reward,
                                ![Market][r.of].points = r.mine.points + Reward,
                                ![Market][r.of].referral = TRUE]
  /\ Paid(r.of, r.by)
  /\ Done(w)
  /\ UNCHANGED <<enrolled, local, link, code, wallet, favorites>>

(* get_profile and update_profile make the referral code and the wallet.   *)
Profile(p) ==
  /\ InMarket(p) # None
  /\ account' = [account EXCEPT ![Market][p].referral = TRUE]
  /\ wallet' = [wallet EXCEPT ![p] = IF @ = None THEN 0 ELSE @]
  /\ AtOnce
  /\ UNCHANGED <<enrolled, local, link, code, referred, points, favorites>>

(* bind_line and unbind_line                                               *)
BindLine(w, p, l) ==
  /\ InMarket(p) # None
  /\ \A q \in Phones \ {p} : InMarket(q) # None => InMarket(q).line # l
  /\ Begin(w, [op |-> "line", of |-> p, line |-> l])

CommitLine(w) ==
  LET r == request[w] IN
  /\ Doing(w, "line")
  /\ account' = [account EXCEPT ![Market][r.of].line = r.line]
  /\ Done(w)
  /\ UNCHANGED <<enrolled, local, link, code, referred, points, wallet, favorites>>

UnbindLine(p) ==
  /\ InMarket(p) # None
  /\ account' = [account EXCEPT ![Market][p].line = None]
  /\ AtOnce
  /\ UNCHANGED <<enrolled, local, link, code, referred, points, wallet, favorites>>

(* topup_wallet *)
Topup(w, p) ==
  /\ InMarket(p) # None
  /\ Begin(w, [op |-> "topup", of |-> p, read |-> wallet[p]])

CommitTopup(w) ==
  LET r == request[w] IN
  /\ Doing(w, "topup")
  /\ r.read = None => wallet[r.of] = None
  /\ wallet' = [wallet EXCEPT ![r.of] = IF r.read = None THEN 1 ELSE r.read + 1]
  /\ Done(w)
  /\ UNCHANGED <<enrolled, account, local, link, code, referred, points, favorites>>

(* add_favorite and remove_favorite                                        *)
Favorite(p, t) ==
  /\ InMarket(p) # None
  /\ favorites' = IF <<p, t>> \in favorites THEN favorites \ {<<p, t>>}
                  ELSE favorites \cup {<<p, t>>}
  /\ AtOnce
  /\ UNCHANGED <<enrolled, account, local, link, code, referred, points, wallet>>

---------------------------------------------------------------------------
(* The counter and the jobs.                                               *)

Numbers(t) == {local[t][p] : p \in Phones} \ {None}

(* next_member_no *)
NextMemberNo(t) == Max(Numbers(t) \cup {0}) + 1

(* create_member; the phone and the number are under unique keys.          *)
CreateMember(w, t, p) ==
  /\ local[t][p] = None
  /\ Begin(w, [op |-> "create", tenant |-> t, of |-> p, no |-> NextMemberNo(t)])

CommitMember(w) ==
  LET r == request[w] IN
  /\ Doing(w, "create")
  /\ local[r.tenant][r.of] = None
  /\ r.no \notin Numbers(r.tenant)
  /\ local' = [local EXCEPT ![r.tenant][r.of] = r.no]
  /\ Done(w)
  /\ UNCHANGED <<enrolled, account, link, code, referred, points, wallet, favorites>>

(* earn_alliance_points of a member's sale, which upload_order comes to    *)
(* unless the tenant has two alliances: tenant_alliance fails then.        *)
Sale(w, t, p) ==
  \E a \in Alliances :
    /\ enrolled[t] = {a}
    /\ link[t][p] # None
    /\ LET of == link[t][p] IN
         Begin(w, [op |-> "points", of |-> p, alliance |-> of, take |-> 0, day |-> FALSE,
                   read |-> account[of][p].points])

(* settle_guest_order_loyalty of a paid order in the marketplace, which    *)
(* may take more points than the member still has.                         *)
Settle(w, t, p) ==
  \E n \in Redemptions :
    /\ link[t][p] = Market
    /\ Begin(w, [op |-> "points", of |-> p, alliance |-> Market, take |-> n, day |-> FALSE,
                 read |-> InMarket(p).points])

(* run_birthday_rewards, on the day.                                       *)
Greet(w, p) ==
  /\ InMarket(p) # None /\ ~InMarket(p).greeted
  /\ Begin(w, [op |-> "points", of |-> p, alliance |-> Market, take |-> 0, day |-> TRUE,
               read |-> InMarket(p).points])

(* One point for the purchase or the day, and what was redeemed.           *)
CommitPoints(w) ==
  LET r == request[w]
      left == IF r.take > r.read THEN 0 ELSE r.read - r.take
  IN
  /\ Doing(w, "points")
  /\ account' = [account EXCEPT ![r.alliance][r.of].points = left + 1,
                                ![r.alliance][r.of].greeted = @ \/ r.day]
  /\ IF r.alliance # Market THEN UNCHANGED points
     ELSE /\ credit' = [credit EXCEPT ![r.of].other = @ - r.take + 1]
          /\ owed' = [owed EXCEPT ![r.of] = @ + left - (r.read - r.take)]
  /\ Done(w)
  /\ UNCHANGED <<enrolled, local, link, code, referred, wallet, favorites>>

---------------------------------------------------------------------------
Handle(w) ==
  \/ \E p \in Phones :
       \/ VerifyOtp(w, p) \/ Topup(w, p) \/ Greet(w, p)
       \/ \E l \in LineIds : BindLine(w, p, l)
       \/ \E q \in Phones \cup {None} : Register(w, p, q)
       \/ \E q \in Phones : ApplyReferral(w, p, q)
       \/ \E t \in Tenants : OrderAt(w, t, p) \/ CreateMember(w, t, p)
                            \/ Sale(w, t, p) \/ Settle(w, t, p)
  \/ \E t \in Tenants, a \in Alliances : JoinAlliance(w, t, a)
  \/ CommitLogin(w) \/ CommitTable(w) \/ CommitJoin(w) \/ CommitRegister(w)
  \/ CommitReferral(w) \/ CommitLine(w) \/ CommitTopup(w) \/ CommitMember(w)
  \/ CommitPoints(w) \/ Abort(w)

Next ==
  \/ \E w \in Workers : Handle(w)
  \/ \E p \in Phones :
       \/ \E s \in Tenants \cup {Market} :
            \/ WrongCode(p, s)
            \/ \E k \in Codes : RequestOtp(k, p, s)
       \/ UnbindLine(p) \/ Profile(p)
       \/ \E t \in Tenants : Favorite(p, t)
  \/ \E k \in Codes : Lapse(k)
  \/ \E t \in Tenants : ApproveListing(t)

Spec == Init /\ [][Next]_membersVars

---------------------------------------------------------------------------
(* What the marketplace's ledger says that p has.                          *)
Balance(p) == Reward * (credit[p].signup + credit[p].reward) + credit[p].other

ReferralsAreEntered ==
  \A p \in Phones :
    /\ credit[p].signup = (IF referred[p] = None THEN 0 ELSE 1)
    /\ credit[p].reward = Cardinality({q \in Phones : referred[q] = p})
    /\ referred[p] # None => InMarket(p) # None /\ referred[p] # p

PointsAreEntered ==
  \A p \in Phones \ crossed :
    InMarket(p) # None => InMarket(p).points = Balance(p) + owed[p]

(* The rewards of apply_referral and register_member are entered for both, *)
(* and once for each member that was referred, however often and at once   *)
(* the codes are applied; and the points that a member can spend are those *)
(* of the ledger, but for points that orders redeemed and that were gone   *)
(* by then, unless two requests were changing them at once: a referrer     *)
(* whose friends come in at the same moment, or who buys while one does,   *)
(* may be paid for one of the two only.                                    *)
ReferralPaidOnce == ReferralsAreEntered /\ PointsAreEntered

(* marketplace_member.py: the cross-store identity is such that "POS /     *)
(* loyalty flows keep working unchanged".  tenant_alliance, which each     *)
(* upload of a member's sale asks, fails of a tenant with two alliances.   *)
SalesKeepWorking == \A t \in Tenants : Cardinality(enrolled[t]) <= 1

=============================================================================
