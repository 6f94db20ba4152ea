----------------------------- MODULE BackOffice -----------------------------
(***************************************************************************)
(* The parts of the server that keep rows of their own, side by side.      *)
(* What they keep has nothing in common, so a behaviour of the back office *)
(* is one of its parts at a time; the first state says of which.  The      *)
(* requests of most parts are kept in one variable, that of the part.      *)
(***************************************************************************)
EXTENDS Reports

CONSTANTS
  None,
  Goods, Untracked, Purchases, Transfers, Counts, TillMoves, MaxQty, Adjustments,
  OrderLines, Drawn, CountRows, StockRequests, OrderedAt(_), MoveOf(_), \* StoreStock
  Editors, Categories, MenuItems, Options, MaxDepth, Trees, Shelves, Groups, PriceOf,
  Overrides, MaxChanges, MenuStores, Fulfillments, Modules, OrderingPatches,
  FeedCategories, OldCategories, AliasOf, Other,               \* Storefront
  Uploaded, Days, Coupons, Uploads, Rules, Levels, RedeemPct, Bonus, ByHand,
  SaleRefunds, LoyaltyRequests,                                \* Loyalty
  Phones, MemberTenants, Alliances, Market, LoginCodes, LineIds, Known, Reward, Redemptions,
  MemberRequests,                                              \* Members
  Users, Tills, MaxFails, AccountRequests,                     \* Accounts
  TotalOf, InCash, Floats, ShiftRequests,                      \* Shifts
  Emails, TenantCodes, Plans, Limit, MaxAttempts, TenantRequests,  \* Tenants
  ProdIds, Scanned, Kind, Title, Canonical, ListPriceOf, Files, BookOrders, Totals,
  BookRefunds, Pcts, BookRequests,                             \* Books
  Rows, Writers, Pulls, PageSize, MaxClock, MaxWrites, MaxPulls,   \* DeltaPull
  SettingsPatches, FirstCode, Carts, Redeems, MaxRotations, ShopRequests, \* BookstoreShop
  Tickets, Capacities, Qtys, EventRequests,                    \* Events
  Jobs, Agents, Stations, Serves(_), MaxRetries, MaxFaults     \* PrintJobs

VARIABLES
  part,
  request, requests,                                  \* of most parts
  levels, purchase, transfer, recorded, moved, desk,  \* StoreStock
  category, product, group, choice, override, changes,
  enabled, listing, open, shut, ordering, feedOf, favorite,
  editing,                                            \* Storefront
  sales, lastSeq, member, entries, greeted, lapsed, usedBy,       \* Loyalty
  enrolled, account, local, link, code, referred, credit, owed, crossed,
  wallet, favorites,                                  \* Members
  user, token, terminal, signedIn, key, waiting, cause,           \* Accounts
  shift, rung, sale, drawer,                          \* Shifts
  app, otp, tenant,                                   \* Tenants
  book, codeOf, level, moves, roots, settings, bought, refunds, told, \* Books
  clock, server, began, till, since, pull, inFlight, skipped,
  writes, pulls,                                      \* DeltaPull
  json, newest, undone, presence, checkout, rows, invoices, excused,
  shopping,                                           \* BookstoreShop
  event, ticket, admitted, excuses,                   \* Events
  job, query, held, report, off, tried, printed, unprinted,
  faults                                              \* PrintJobs

Parts ==
  {"orders", "reports", "stock", "storefront", "loyalty", "members", "accounts",
   "shifts", "tenants", "books", "pulls", "shop", "events", "printing"}

---------------------------------------------------------------------------
(* The parts, each of parameters of its own.                               *)
Stock == INSTANCE StoreStock WITH
  Products <- Goods, Moves <- TillMoves, Amounts <- Adjustments, Lines <- OrderLines,
  MaxRequests <- StockRequests, StoreOf <- OrderedAt, Counted <- CountRows,
  onHand <- levels, booked <- moved, session <- desk

Front == INSTANCE Storefront WITH
  Workers <- Editors, Products <- MenuItems, Stores <- MenuStores,
  Patches <- OrderingPatches, request <- editing

Points == INSTANCE Loyalty WITH
  Orders <- Uploaded, Sale <- Uploads, Parts <- SaleRefunds,
  MaxRequests <- LoyaltyRequests, order <- sales

People == INSTANCE Members WITH
  Tenants <- MemberTenants, Codes <- LoginCodes, MaxRequests <- MemberRequests

SignIns == INSTANCE Accounts WITH MaxRequests <- AccountRequests, session <- signedIn

Drawers == INSTANCE Shifts WITH MaxRequests <- ShiftRequests

Platform == INSTANCE Tenants WITH MaxRequests <- TenantRequests

Consigned == INSTANCE Books WITH
  Prods <- ProdIds, Codes <- Scanned, Orders <- BookOrders, Parts <- BookRefunds,
  Listed <- ListPriceOf, MaxRequests <- BookRequests, order <- bought

Pulling == INSTANCE DeltaPull WITH excused <- skipped

Shop == INSTANCE BookstoreShop WITH
  Patches <- SettingsPatches, MaxRequests <- ShopRequests, request <- shopping

Hall == INSTANCE Events WITH MaxRequests <- EventRequests

Printing == INSTANCE PrintJobs WITH
  Tills <- Stations, session <- query, skipped <- unprinted

ASSUME ReportsParametersHold == ReportsParameters
ASSUME StockParametersHold == Stock!StockParameters
ASSUME StorefrontParametersHold == Front!StorefrontParameters
ASSUME LoyaltyParametersHold == Points!LoyaltyParameters
ASSUME MembersParametersHold == People!MembersParameters
ASSUME AccountsParametersHold == SignIns!AccountsParameters
ASSUME TenantsParametersHold == Platform!TenantsParameters
ASSUME BooksParametersHold == Consigned!BooksParameters
ASSUME DeltaParametersHold == Pulling!DeltaParameters
ASSUME ShopParametersHold == Shop!ShopParameters
ASSUME EventsParametersHold == Hall!EventsParameters

---------------------------------------------------------------------------
BackOfficeInit ==
  /\ part \in Parts
  /\ ReportsInit /\ Stock!Init /\ Front!StorefrontInit /\ Points!Init
  /\ People!Init /\ SignIns!Init /\ Drawers!Init /\ Platform!Init
  /\ Consigned!Init /\ Pulling!Init /\ Shop!Init /\ Hall!Init /\ Printing!Init

(* Reports are of requests one at a time.                                  *)
OneAtATime(s) == Cardinality({w \in Workers : s[w] # Idle}) <= 1

BackOfficeNext ==
  /\ UNCHANGED part
  /\ part \notin {"orders", "reports"} => UNCHANGED reportVars
  /\ part # "stock" => UNCHANGED <<levels, purchase, transfer, recorded, moved, desk>>
  /\ part # "storefront" =>
       UNCHANGED <<category, product, group, choice, override, changes,
                   enabled, listing, open, shut, ordering, feedOf, favorite, editing>>
  /\ part # "loyalty" =>
       UNCHANGED <<sales, lastSeq, member, entries, greeted, lapsed, usedBy>>
  /\ part # "members" =>
       UNCHANGED <<enrolled, account, local, link, code, referred, credit, owed, crossed,
                   wallet, favorites>>
  /\ part # "accounts" => UNCHANGED <<user, token, terminal, signedIn, key, waiting, cause>>
  /\ part # "shifts" => UNCHANGED <<shift, rung, sale, drawer>>
  /\ part # "tenants" => UNCHANGED <<app, otp, tenant>>
  /\ part # "books" =>
       UNCHANGED <<book, codeOf, level, moves, roots, settings, bought, refunds, told>>
  /\ part # "pulls" =>
       UNCHANGED <<clock, server, began, till, since, pull, inFlight, skipped, writes, pulls>>
  /\ part # "shop" =>
       UNCHANGED <<json, newest, undone, presence, checkout, rows, invoices, excused, shopping>>
  /\ part # "events" => UNCHANGED <<event, ticket, admitted, excuses>>
  /\ part # "printing" =>
       UNCHANGED <<job, query, held, report, off, tried, printed, unprinted, faults>>
  /\ part \in {"orders", "reports", "storefront", "pulls", "printing"} =>
       UNCHANGED requests
  /\ part \in {"orders", "reports", "stock", "storefront", "pulls", "shop", "printing"} =>
       UNCHANGED request
  /\ CASE part = "orders" -> Next /\ UNCHANGED <<gone, zone>>
       [] part = "reports" -> ReportsNext /\ OneAtATime(session')
       [] part = "stock" -> Stock!Next
       [] part = "storefront" -> Front!StorefrontNext
       [] part = "loyalty" -> Points!Next
       [] part = "members" -> People!Next
       [] part = "accounts" -> SignIns!Next
       [] part = "shifts" -> Drawers!Next
       [] part = "tenants" -> Platform!Next
       [] part = "books" -> Consigned!Next
       [] part = "pulls" -> Pulling!Next
       [] part = "shop" -> Shop!Next
       [] part = "events" -> Hall!Next
       [] part = "printing" -> Printing!Next

backOfficeVars ==
  <<part, reportVars, Stock!vars, Front!storefrontVars, Points!loyaltyVars,
    People!membersVars, SignIns!accountVars, Drawers!shiftVars, Platform!tenantVars,
    Consigned!bookVars, Pulling!deltaVars, Shop!shopVars, Hall!eventVars, Printing!vars>>

BackOfficeSpec == BackOfficeInit /\ [][BackOfficeNext]_backOfficeVars

---------------------------------------------------------------------------
(* The properties of the parts, which their modules state.                 *)

(* Every part's variables keep their types.                                *)
BackOfficeTypeOK ==
  /\ part \in Parts
  /\ part = "orders" => TypeOK
  /\ part = "reports" => ReportsTypeOK
  /\ part = "stock" => Stock!TypeOK
  /\ part = "storefront" => Front!StorefrontTypeOK
  /\ part = "loyalty" => Points!LoyaltyTypeOK
  /\ part = "members" => People!MembersTypeOK
  /\ part = "accounts" => SignIns!AccountsTypeOK
  /\ part = "shifts" => Drawers!ShiftsTypeOK
  /\ part = "tenants" => Platform!TenantsTypeOK
  /\ part = "books" => Consigned!BooksTypeOK
  /\ part = "pulls" => Pulling!DeltaTypeOK
  /\ part = "shop" => Shop!ShopTypeOK
  /\ part = "events" => Hall!EventsTypeOK
  /\ part = "printing" => Printing!TypeOK

(* The documents of a store's stock and its ledger agree.                  *)
StockIsBooked == part = "stock" => Stock!StockIsBooked

(* What menus and feeds show can be ordered at the price shown.            *)
ShownCanBeOrdered == part = "storefront" => Front!ShownCanBeOrdered

(* Stored sales are numbered without a gap and posted once.                *)
SaleIsNumberedAndPosted == part = "loyalty" => Points!SaleIsNumberedAndPosted

(* A referral is entered once, for both, and points agree with entries.    *)
ReferralPaidOnce == part = "members" => People!ReferralPaidOnce

(* A till loses its session for a cause only.                              *)
SignedOutForCause == part = "accounts" => SignIns!SignedOutForCause

(* A tenant came of an application whose own code was entered.             *)
TenantWasVerified == part = "tenants" => Platform!TenantWasVerified

(* Reports agree with what the till kept, of requests one at a time.       *)
TakingsAreReportedOneAtATime == part = "reports" => TakingsAreReported

(* Books are received as the answers say.                                  *)
AnsweredIsBooked == part = "books" => Consigned!AnsweredIsBooked

(* The settlement of books comes to what was kept of their sales.          *)
SettlementIsNetSales == part = "books" => Consigned!SettlementIsNetSales

(* A till misses a change for four causes only.                            *)
MissedForCause == part = "pulls" => Pulling!MissedForCause

(* The door's code outlives the writes of the other settings.              *)
DoorCodeKept == part = "shop" => Shop!DoorCodeKept

(* The items of a sale's invoice make up its total; of one that the staff  *)
(* issue, they exceed it by the discount.                                  *)
InvoiceItemsMakeTotal == part = "shop" => Shop!InvoiceItemsMakeTotal

(* A refunded sale keeps an issued invoice for a cause only.               *)
InvoiceOutlivesSaleForCause == part = "shop" => Shop!InvoiceOutlivesSaleForCause

(* A hall is overfull for a cause only.                                    *)
FullForCause == part = "events" => Hall!FullForCause

=============================================================================
