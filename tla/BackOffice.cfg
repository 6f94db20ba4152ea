SPECIFICATION MCSpec
CONSTANTS
  w1 = w1
  w2 = w2
  None = None
  Workers = {w1, w2}
  Orders = {"o1", "o2"}
  Refunds = {"r1", "r2"}
  Stores = {"s1", "s2"}
  Zones = {0, 4}
  Total <- MCTotal
  OrderOf <- MCOrderOf
  Amount <- MCAmount
  SaleTime <- MCSaleTime
  StoreOf <- MCStoreOf
  MethodOf <- MCMethodOf
  ProductOf <- MCProductOf
  CategoryOf <- MCCategoryOf
  Discount <- MCDiscount
  FromGuest = {"o2"}
  Second = 2
  Hour = 4
  Day = 96
  Limits = {0, 1}
  Ceiling = 2
  Ranges <- MCRanges
  Goods = {"p", "u"}
  Untracked = {"u"}
  Purchases = {"o"}
  Transfers = {"t"}
  Counts = {"c"}
  TillMoves = {"m1", "m2"}
  MaxQty = 2
  Adjustments <- MCAdjustments
  OrderLines <- MCWritten
  Drawn <- OneTransfer
  CountRows <- OneCount
  StockRequests = 3
  OrderedAt <- MCOrderedAt
  MoveOf <- MCMoveOf
  Editors = {"w"}
  Categories = {"c", "d", "e"}
  MenuItems = {"p"}
  Options = {"x", "y"}
  MaxDepth = 2
  Trees <- MCTrees
  Shelves <- Stocked
  Groups <- MCGroups
  PriceOf <- Prices
  Overrides <- MCOverrides
  MaxChanges = 3
  MenuStores = {"s1"}
  Fulfillments <- Ways
  Modules = {"marketplace", "online_ordering"}
  OrderingPatches <- MCPatches
  FeedCategories = {"k1", "k2"}
  OldCategories = {"k3"}
  AliasOf <- Aliases
  Other = "k1"
  Uploaded = {"o1", "o2", "o3", "o4", "o5"}
  Days = {"d1", "d2"}
  Coupons = {"c"}
  Uploads <- MCUploads
  Rules <- OneRule
  Levels <- ThreeLevels
  RedeemPct = 50
  Bonus = 1
  ByHand <- MCByHand
  SaleRefunds = {100}
  LoyaltyRequests = 3
  Phones = {"p1", "p2", "p3"}
  MemberTenants = {"t1"}
  Alliances = {"market", "a1"}
  Market = "market"
  LoginCodes = {"k1"}
  LineIds = {"l1"}
  Known = {"p1"}
  Reward = 2
  Redemptions = {0, 1}
  MemberRequests = 4
  Users = {"u1"}
  Tills = {"c1"}
  MaxFails = 2
  AccountRequests = 5
  TotalOf <- Amounts
  InCash = {"o1"}
  Floats = {0, 1}
  ShiftRequests = 5
  Emails = {"e1"}
  TenantCodes = {"k1"}
  Plans = {"small", "large"}
  Limit <- Allowed
  MaxAttempts = 2
  TenantRequests = 4
  ProdIds = {"p", "q", "s"}
  Scanned = {"p", "q", "s", "c"}
  Kind <- Kinds
  Title <- Titles
  Canonical <- Canonicals
  ListPriceOf <- ListPrices
  Files <- TwoFiles
  BookOrders = {"o"}
  Totals = {2}
  BookRefunds = {1, 2}
  Pcts = {50, 60}
  BookRequests = 4
  Rows = {"r", "s"}
  Writers = {"w"}
  Pulls = {"p1", "p2"}
  PageSize = 1
  MaxClock = 2
  MaxWrites = 2
  MaxPulls = 2
  SettingsPatches <- Changed
  FirstCode = 1
  Carts <- Basket
  Redeems = {0, 5}
  MaxRotations = 2
  ShopRequests = 3
  Tickets = {"t1", "t2"}
  Capacities = {0, 2, 3}
  Qtys = {1, 2}
  EventRequests = 5
  Jobs = {"j"}
  Agents = {w1, w2}
  Stations = {w1, w2}
  Serves <- AnyJob
  MaxRetries = 3
  MaxFaults = 2
SYMMETRY Symmetry
INVARIANTS
  BackOfficeTypeOK
  NothingBookedWhilePaid
  ApprovedIsBooked
  TakingsAreReportedOneAtATime
  StockIsBooked
  ShownCanBeOrdered
  SaleIsNumberedAndPosted
  ReferralPaidOnce
  SignedOutForCause
  TenantWasVerified
  AnsweredIsBooked
  SettlementIsNetSales
  MissedForCause
  DoorCodeKept
  InvoiceItemsMakeTotal
  InvoiceOutlivesSaleForCause
  FullForCause
CHECK_DEADLOCK FALSE
