----------------------------- MODULE Storefront -----------------------------
(***************************************************************************)
(* The catalogue of a tenant as the market place and the shopping pages    *)
(* show it: the listings of its stores (api/v1/marketplace_admin.py,       *)
(* platform.py), their settings for online orders (stores.py,              *)
(* services/online_ordering.py), the lists of stores and products that     *)
(* customers browse (api/v1/public_marketplace.py, public_shopping.py,     *)
(* services/marketplace_category.py), a member's favourites                *)
(* (public_member_center.py), what a press on a product puts in the cart   *)
(* (marketplace_web ProductCard.vue, shopping_web OptionSheet.vue), and    *)
(* the checks of the order that follows (services/marketplace_order.py).   *)
(*                                                                         *)
(* Pages of a list, search words, distance, sorting, least sums and fees   *)
(* are left out.                                                           *)
(***************************************************************************)
EXTENDS Catalog

CONSTANTS
  Stores,           \* the tenant's stores
  Fulfillments,     \* FULFILLMENT_TYPES
  Modules,          \* the tenant's modules that are of interest
  Patches,          \* the online_ordering_json that a request may carry
  FeedCategories,   \* the platform's categories that are active
  OldCategories,    \* and those that are not any more
  AliasOf,          \* AliasOf[c]: the platform's category for a root like c, or None
  Other             \* OTHER_CATEGORY_SLUG

VARIABLES
  enabled,    \* the modules the tenant has
  listing,    \* listing[s]: the row of store s's listing
  open,       \* open[s]: whether the business hours of s's listing cover the hour
  shut,       \* the stores that are deleted
  ordering,   \* ordering[s]: online_ordering_json of store s
  feedOf,     \* marketplace_category_id of each product
  favorite    \* the stores whose listings are favourites of a member

shopVars == <<enabled, listing, open, shut, ordering, feedOf, favorite>>
storefrontVars == <<catalogVars, shopVars>>

Listing == [status : {"draft", "pending", "approved", "suspended"},
            supports : SUBSET Fulfillments]

Payments == {"counter", "online"}

(* DEFAULT_ENABLED_SETTINGS, with the amounts left out.                    *)
OnlineOrdering == [on : BOOLEAN, supports : SUBSET Fulfillments, pays : SUBSET Payments]

StorefrontTypeOK ==
  /\ CatalogTypeOK
  /\ enabled \subseteq Modules
  /\ listing \in [Stores -> Listing \cup {None}]
  /\ open \in [Stores -> BOOLEAN]
  /\ shut \subseteq Stores
  /\ ordering \in [Stores -> OnlineOrdering \cup {None}]
  /\ feedOf \in [Products -> FeedCategories \cup OldCategories \cup {None}]
  /\ favorite \subseteq Stores

(* What the constants stand for: a way to fetch an order is among those    *)
(* there are, and what is in no other category of the feed is in one.      *)
StorefrontParameters ==
  /\ IsFiniteSet(Categories) /\ IsFiniteSet(Options)
  /\ Groups \subseteq OptionGroup
  /\ Patches \subseteq OnlineOrdering \cup {None} /\ None \notin OnlineOrdering
  /\ Fulfillments \subseteq {"pickup", "delivery", "dine_in"}
  /\ Fulfillments \cap {"pickup", "dine_in"} # {}
  /\ Other \in FeedCategories

(* Stores that have been approved at first: what else there may be follows.*)
StorefrontInit ==
  /\ Init
  /\ enabled = Modules
  /\ listing = [s \in Stores |-> [status |-> "approved", supports |-> Fulfillments]]
  /\ open = [s \in Stores |-> TRUE]
  /\ shut = {}
  /\ ordering = [s \in Stores |-> None]
  /\ feedOf = [p \in Products |-> None]
  /\ favorite = {}

---------------------------------------------------------------------------
(* Requests about listings and stores, each of them one step here: they    *)
(* change one row, and what overlaps in Tenants does not matter to what is *)
(* shown.                                                                  *)

Manage ==
  /\ changes < MaxChanges
  /\ changes' = changes + 1
  /\ UNCHANGED <<rows, request>>

(* apply_modules_patch *)
SetModule(m, on) ==
  /\ enabled' = IF on THEN enabled \cup {m} ELSE enabled \ {m}
  /\ Manage /\ UNCHANGED <<listing, open, shut, ordering, feedOf, favorite>>

Relist(s, row) ==
  /\ listing' = [listing EXCEPT ![s] = row]
  /\ Manage /\ UNCHANGED <<enabled, open, shut, ordering, feedOf, favorite>>

CreateListing(s) ==
  /\ "marketplace" \in enabled /\ s \notin shut /\ listing[s] = None
  /\ Relist(s, [status |-> "draft", supports |-> Fulfillments])

UpdateListing(s, supports) ==
  /\ "marketplace" \in enabled /\ listing[s] # None
  /\ listing[s].status # "approved"
  /\ Relist(s, [listing[s] EXCEPT !.supports = supports])

SubmitListing(s) ==
  /\ "marketplace" \in enabled /\ listing[s] # None
  /\ listing[s].status \in {"draft", "suspended"}
  /\ Relist(s, [listing[s] EXCEPT !.status = "pending"])

ApproveListing(s) ==
  /\ listing[s] # None /\ listing[s].status = "pending"
  /\ Relist(s, [listing[s] EXCEPT !.status = "approved"])

SuspendListing(s) ==
  /\ listing[s] # None
  /\ Relist(s, [listing[s] EXCEPT !.status = "suspended"])

(* delete_store leaves the listing as it is.                               *)
DeleteStore(s) ==
  /\ s \notin shut
  /\ shut' = shut \cup {s}
  /\ Manage /\ UNCHANGED <<enabled, listing, open, ordering, feedOf, favorite>>

(* The hour passes, and is_store_open answers something else.              *)
HourPasses(s) ==
  /\ open' = [open EXCEPT ![s] = ~@]
  /\ Manage /\ UNCHANGED <<enabled, listing, shut, ordering, feedOf, favorite>>

(* normalize_online_ordering_patch: a store that takes orders has a way of *)
(* delivery and of payment.                                                *)
Normalised(patch) ==
  IF patch = None \/ ~patch.on THEN patch
  ELSE [patch EXCEPT
          !.supports = IF @ = {} THEN Fulfillments \cap {"pickup", "dine_in"} ELSE @,
          !.pays = IF @ = {} THEN {"counter"} ELSE @]

(* update_store                                                            *)
SetOnlineOrdering(s, patch) ==
  /\ s \notin shut
  /\ ordering' = [ordering EXCEPT ![s] = Normalised(patch)]
  /\ Manage /\ UNCHANGED <<enabled, listing, open, shut, feedOf, favorite>>

(* update_product, of the platform's category of p.                        *)
PlaceInFeed(p, k) ==
  /\ OnFile(p)
  /\ feedOf' = [feedOf EXCEPT ![p] = k]
  /\ Manage /\ UNCHANGED <<enabled, listing, open, shut, ordering, favorite>>

Approved(s) == listing[s] # None /\ listing[s].status = "approved"

AddFavorite(s) ==
  /\ Approved(s)
  /\ favorite' = favorite \cup {s}
  /\ Manage /\ UNCHANGED <<enabled, listing, open, shut, ordering, feedOf>>

RemoveFavorite(s) ==
  /\ listing[s] # None
  /\ favorite' = favorite \ {s}
  /\ Manage /\ UNCHANGED <<enabled, listing, open, shut, ordering, feedOf>>

StorefrontNext ==
  \/ Next /\ UNCHANGED shopVars
  \/ \E m \in Modules, on \in BOOLEAN : SetModule(m, on)
  \/ \E s \in Stores :
       \/ CreateListing(s) \/ SubmitListing(s) \/ ApproveListing(s)
       \/ SuspendListing(s) \/ DeleteStore(s) \/ HourPasses(s)
       \/ AddFavorite(s) \/ RemoveFavorite(s)
       \/ \E supports \in SUBSET Fulfillments : UpdateListing(s, supports)
       \/ \E patch \in Patches : SetOnlineOrdering(s, patch)
  \/ \E p \in Products, k \in FeedCategories \cup OldCategories \cup {None} :
       PlaceInFeed(p, k)

StorefrontSpec == StorefrontInit /\ [][StorefrontNext]_storefrontVars

---------------------------------------------------------------------------
(* What a customer is shown.                                               *)

(* root_category_name, up to a category whose parent is not there.         *)
Root(c) ==
  CHOOSE r \in Ancestors(category, c) : category[r].parent \notin Live(category)

(* MarketplaceTaxonomy.resolve                                             *)
FeedCategory(p) ==
  LET c == product[p].category IN
  IF feedOf[p] \in FeedCategories THEN feedOf[p]
  ELSE IF c \in Live(category) /\ Answers(category, c) /\ AliasOf[Root(c)] \in FeedCategories
       THEN AliasOf[Root(c)]
       ELSE Other

(* list_stores, of those that offer f.                                     *)
Listed(s, f) ==
  Approved(s) /\ s \notin shut /\ "marketplace" \in enabled /\ f \in listing[s].supports

(* Mistaken: the tenant's module is not asked for.                         *)
CardOfAnyTenant(s, p, f) ==
  /\ Approved(s) /\ s \notin shut /\ f \in listing[s].supports
  /\ open[s] /\ Orderable(p)

(* _list_marketplace_products with open_only: the card of product p in the *)
(* window of store s.                                                      *)
Card(s, p, f) ==
  /\ Approved(s) /\ s \notin shut /\ f \in listing[s].supports
  /\ "marketplace" \in enabled /\ open[s]
  /\ Orderable(p)

(* The sections of the feed in which the card is.                          *)
Sections(s, p, f) == {k \in FeedCategories : Card(s, p, f) /\ FeedCategory(p) = k}

(* build_public_menu_for_tenant                                            *)
StoreMenu == {p \in Products : OnMenu(p)}

(* What the button of a card may put in the cart (onAdd): nothing is asked *)
(* when no group is linked to the product; otherwise the menu of the store *)
(* is looked at, and without a product there is nothing to add.            *)
Adds(p, picked) ==
  IF product[p].link = "none" THEN picked = {}
  ELSE p \in StoreMenu /\ IF Shown(p) = {} THEN picked = {} ELSE Confirms(p, picked)

(* _resolve_listing                                                        *)
Answering(s) == Approved(s) /\ s \notin shut /\ "marketplace" \in enabled

(* build_marketplace_order, of one product.                                *)
Takes(s, p, f, picked) ==
  /\ Answering(s) /\ open[s] /\ f \in listing[s].supports
  /\ Orderable(p)
  /\ Accepts(p, picked)

---------------------------------------------------------------------------
(* The shopping pages, of stores that need no listing.                     *)

(* read_online_ordering: what is not set is as DEFAULT_DISABLED_SETTINGS.  *)
Ordering(s) ==
  IF ordering[s] = None
  THEN [on |-> FALSE, supports |-> Fulfillments \cap {"pickup", "dine_in"},
        pays |-> {"counter"}]
  ELSE ordering[s]

(* list_shopping_stores                                                    *)
OnPicker(s) ==
  "online_ordering" \in enabled /\ s \notin shut /\ Ordering(s).on

(* _resolve_shopping_store, which the menu and the order ask.              *)
AnswersShopping(s) ==
  s \notin shut /\ "online_ordering" \in enabled /\ Ordering(s).on

(* get_shopping_menu                                                       *)
ShoppingMenu(s) == {p \in StoreMenu : AnswersShopping(s)}

(* defaultMode of StorePickerView, and clampModeToStore once the menu is   *)
(* there.                                                                  *)
PickedWay(s) ==
  CASE "pickup" \in Ordering(s).supports -> "pickup"
    [] "dine_in" \in Ordering(s).supports -> "dine_in"
    [] "delivery" \in Ordering(s).supports -> "delivery"
    [] OTHER -> "pickup"

(* The buttons of the checkout in a way f, and the method each of them     *)
(* sends (paymentMethod).                                                  *)
Sends(s, f, button) ==
  LET pays == Ordering(s).pays IN
  IF button = "cash" THEN f # "delivery" /\ "counter" \in pays ELSE pays # {}

SentMethod(s, button) ==
  IF button = "cash"
  THEN IF "counter" \in Ordering(s).pays THEN "counter" ELSE "online"
  ELSE IF "online" \in Ordering(s).pays THEN "online" ELSE "counter"

(* OptionSheet: one of a required single group is picked from the start;   *)
(* of several, the sheet counts the most, and the least only as one.       *)
SheetConfirms(p, picked) ==
  /\ picked \subseteq Shown(p)
  /\ Shown(p) # {} =>
       /\ Required(p) => picked # {}
       /\ group.type = "single" => Cardinality(picked) <= 1
       /\ group.type = "multi" /\ group.max # None => Cardinality(picked) <= group.max

(* submit_shopping_order: profile_from_store has no business hours.        *)
TakesShopping(s, p, f, method, picked) ==
  /\ AnswersShopping(s)
  /\ f \in Ordering(s).supports /\ method \in Ordering(s).pays
  /\ Orderable(p)
  /\ Accepts(p, picked)

---------------------------------------------------------------------------
(* Whatever is hidden, suspended, deleted or renamed, every page that a    *)
(* customer is looking at was right when it was loaded: a store of the     *)
(* list has a page; a card is in one section of the feed; and what the     *)
(* button of a card puts in the cart is taken as an order by the store,    *)
(* in the way of delivery the list was asked for.  The lists and the order *)
(* each have their own queries and loops over listings, hours, modules,    *)
(* categories and options.  Left out is what is not Answerable.            *)
CardCanBeOrdered ==
  \A s \in Stores, f \in Fulfillments :
    /\ Listed(s, f) => Answering(s)
    /\ \A p \in Products :
         Card(s, p, f) =>
           /\ Cardinality(Sections(s, p, f)) = 1
           /\ Answerable(p) =>
                \A picked \in SUBSET Options :
                  Adds(p, picked) => Takes(s, p, f, picked)

(* A store that may be picked has a menu and a checkout that work without  *)
(* touching the way of delivery: whatever its settings were patched to,    *)
(* every button of the checkout sends a payment that the store takes, and  *)
(* every choice that the sheet confirms is taken.  Left out, besides what  *)
(* is not Answerable, is a group whose least number of choices is more     *)
(* than "required" says: the sheet does not count it, and the order is     *)
(* refused.                                                                *)
ShoppingCanBeOrdered ==
  \A s \in Stores : OnPicker(s) =>
    /\ ShoppingMenu(s) = StoreMenu
    /\ \E button \in {"cash", "card"} : Sends(s, PickedWay(s), button)
    /\ \A p \in ShoppingMenu(s), button \in {"cash", "card"}, picked \in SUBSET Options :
         /\ Answerable(p)
         /\ group.type = "multi" => AtLeast(p) <= IF Required(p) THEN 1 ELSE 0
         /\ Sends(s, PickedWay(s), button)
         /\ SheetConfirms(p, picked)
         => TakesShopping(s, p, PickedWay(s), SentMethod(s, button), picked)

(* And so is what the menu at a table shows.                               *)
ShownCanBeOrdered == MenuCanBeOrdered /\ CardCanBeOrdered /\ ShoppingCanBeOrdered

=============================================================================
