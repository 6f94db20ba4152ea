------------------------------- MODULE Catalog -------------------------------
(***************************************************************************)
(* The catalogue of a tenant and what customers are shown of it: the tree  *)
(* of categories (api/v1/categories.py, services/category_tree.py),        *)
(* products (api/v1/products.py, services/product_import.py), options      *)
(* (api/v1/options.py), the public menu (api/v1/public_orders.py,          *)
(* services/public_menu.py, public_options.py), the dialogue in which a    *)
(* customer picks options (customer_order_web OptionModal.vue), and the    *)
(* checks of the order that follows (services/option_validation.py).       *)
(*                                                                         *)
(* A request about a category reads the whole tree, checks it, and commits *)
(* the columns it changes.  Requests about products and options check      *)
(* nothing that another request could change meanwhile, and are one step.  *)
(* One group of options stands for all: a line checks them one by one.     *)
(***************************************************************************)
EXTENDS Integers, FiniteSets

CONSTANTS
  Categories, Products, Options, Workers,
  MaxDepth,       \* MAX_CATEGORY_DEPTH
  Trees,          \* the categories there may be at first
  Shelves,        \* and the products
  Groups,         \* the settings a group of options may be given
  PriceOf,        \* price_delta_cents of each choice
  Overrides,      \* what a product may say of a choice
  MaxChanges,     \* bound on the requests
  None

VARIABLES
  category,   \* category[c]: the row of category c
  product,    \* product[p]: the row of product p, with its link to the group
  group,      \* the row of the group
  choice,     \* choice[x]: whether choice x of the group is active or deleted
  override,   \* override[p][x]: the row of product p about choice x
  request,    \* request[w]: what worker w is at
  changes

catalogVars == <<category, product, group, choice, override, request, changes>>

rows == <<category, product, group, choice, override>>

---------------------------------------------------------------------------
Category == [parent : Categories \cup {None}, hidden : BOOLEAN, gone : BOOLEAN]

Product == [category : Categories \cup {None}, hidden : BOOLEAN, active : BOOLEAN,
            gone : BOOLEAN, link : {"none", "inherit", "required", "optional"}]

OptionGroup == [type : {"single", "multi"}, required : BOOLEAN, min : Nat,
                max : Nat \cup {None}, gone : BOOLEAN]

Idle == [op |-> "none"]

CatalogTypeOK ==
  /\ category \in [Categories -> Category \cup {None}]
  /\ product \in [Products -> Product \cup {None}]
  /\ group \in OptionGroup
  /\ choice \in [Options -> {"active", "inactive", "gone"}]
  /\ override \in [Products -> [Options -> Overrides \cup {None}]]
  /\ changes \in 0..MaxChanges

Init ==
  /\ category \in Trees
  /\ product \in Shelves
  /\ group \in Groups
  /\ choice = [x \in Options |-> "active"]
  /\ override = [p \in Products |-> [x \in Options |-> None]]
  /\ request = [w \in Workers |-> Idle]
  /\ changes = 0

---------------------------------------------------------------------------
(* The tree, of the categories that are not deleted.                       *)

Live(tree) == {c \in Categories : tree[c] # None /\ ~tree[c].gone}

(* The categories on the way up from c, itself included.                   *)
Ancestors(tree, c) ==
  LET up[n \in 0..Cardinality(Categories)] ==
        IF n = 0 THEN {c} \cap Live(tree)
        ELSE LET near == up[n - 1]
             IN near \cup ({tree[d].parent : d \in near} \cap Live(tree))
  IN up[Cardinality(Categories)]

(* compute_path; going up for ever, it answers for no category of a cycle. *)
OnCycle(tree, c) ==
  tree[c].parent \in Live(tree) /\ c \in Ancestors(tree, tree[c].parent)

Answers(tree, c) == \A d \in Ancestors(tree, c) : ~OnCycle(tree, d)

Depth(tree, c) == Cardinality(Ancestors(tree, c)) - 1

Descendants(tree, c) == {d \in Live(tree) : c \in Ancestors(tree, d)}

(* validate_parent_assignment, for a category c or, None, a new one.       *)
MayHold(tree, c, parent) ==
  parent = None \/
    /\ parent # c
    /\ parent \in Live(tree) /\ Answers(tree, parent)
    /\ Depth(tree, parent) < MaxDepth
    /\ c # None => parent \notin Descendants(tree, c)

---------------------------------------------------------------------------
(* Requests about categories.                                              *)

Begin(w, r) ==
  /\ request[w] = Idle
  /\ changes < MaxChanges
  /\ changes' = changes + 1
  /\ request' = [request EXCEPT ![w] = r]
  /\ UNCHANGED rows

CreateCategory(w, c, parent) ==
  /\ category[c] = None
  /\ Begin(w, [op |-> "create", of |-> c,
               row |-> [parent |-> parent, hidden |-> FALSE, gone |-> FALSE]])
  /\ MayHold(category, None, parent)

(* update_category, which checks the parent there will be.                 *)
UpdateCategory(w, c, parent, hidden) ==
  /\ c \in Live(category)
  /\ Begin(w, [op |-> "update", of |-> c, read |-> category[c],
               row |-> [parent |-> parent, hidden |-> hidden, gone |-> FALSE]])
  /\ MayHold(category, c, parent)

(* delete_category and assert_category_deletable                           *)
DeleteCategory(w, c) ==
  /\ category[c] # None
  /\ \A d \in Live(category) : category[d].parent # c
  /\ \A p \in Products :
       product[p] # None /\ ~product[p].gone => product[p].category # c
  /\ Begin(w, [op |-> "delete", of |-> c])

Written(new, read, now) == IF new = read THEN now ELSE new

CommitCategory(w) ==
  LET r == request[w] IN
  /\ request[w] # Idle
  /\ r.op = "create" => category[r.of] = None
  /\ category' = [category EXCEPT ![r.of] =
       CASE r.op = "create" -> r.row
         [] r.op = "update" ->
              [parent |-> Written(r.row.parent, r.read.parent, @.parent),
               hidden |-> Written(r.row.hidden, r.read.hidden, @.hidden),
               gone |-> @.gone]
         [] r.op = "delete" -> [@ EXCEPT !.gone = TRUE]]
  /\ request' = [request EXCEPT ![w] = Idle]
  /\ UNCHANGED <<product, group, choice, override, changes>>

Abort(w) ==
  /\ request[w] # Idle
  /\ request' = [request EXCEPT ![w] = Idle]
  /\ UNCHANGED <<rows, changes>>

---------------------------------------------------------------------------
(* Products and options.                                                   *)

Change ==
  /\ changes < MaxChanges
  /\ changes' = changes + 1
  /\ UNCHANGED <<category, request>>

OnFile(p) == product[p] # None /\ ~product[p].gone

(* create_product takes any category, a deleted one too.                   *)
CreateProduct(p, c) ==
  /\ product[p] = None
  /\ c # None => category[c] # None
  /\ product' = [product EXCEPT ![p] =
       [category |-> c, hidden |-> FALSE, active |-> TRUE, gone |-> FALSE, link |-> "none"]]
  /\ Change /\ UNCHANGED <<group, choice, override>>

UpdateProduct(p, c, hidden, active) ==
  /\ OnFile(p)
  /\ c # None => category[c] # None
  /\ product' = [product EXCEPT ![p].category = c, ![p].hidden = hidden, ![p].active = active]
  /\ Change /\ UNCHANGED <<group, choice, override>>

DeleteProduct(p) ==
  /\ product[p] # None
  /\ product' = [product EXCEPT ![p].gone = TRUE]
  /\ Change /\ UNCHANGED <<group, choice, override>>

(* A row of import_products_from_csv about a product there is: a deleted   *)
(* one is written too, and stays deleted.                                  *)
ImportProduct(p, c) ==
  /\ product[p] # None
  /\ c \in Live(category) \cup {None}
  /\ \A d \in Live(category) : Answers(category, d)
  /\ product' = [product EXCEPT ![p].category = c, ![p].active = TRUE]
  /\ Change /\ UNCHANGED <<group, choice, override>>

UpdateGroup(row) ==
  /\ ~group.gone
  /\ group' = row
  /\ Change /\ UNCHANGED <<product, choice, override>>

DeleteGroup ==
  /\ ~group.gone
  /\ group' = [group EXCEPT !.gone = TRUE]
  /\ Change /\ UNCHANGED <<product, choice, override>>

UpdateChoice(x, status) ==
  /\ ~group.gone /\ choice[x] # "gone"
  /\ choice' = [choice EXCEPT ![x] = status]
  /\ Change /\ UNCHANGED <<product, group, override>>

DeleteChoice(x) ==
  /\ choice[x] # "gone"
  /\ choice' = [choice EXCEPT ![x] = "gone"]
  /\ Change /\ UNCHANGED <<product, group, override>>

(* set_product_option_groups                                               *)
SetGroups(p, link) ==
  /\ OnFile(p)
  /\ link # "none" => ~group.gone
  /\ product' = [product EXCEPT ![p].link = link]
  /\ Change /\ UNCHANGED <<group, choice, override>>

(* set_product_option_overrides                                            *)
SetOverride(p, x, row) ==
  /\ OnFile(p)
  /\ override' = [override EXCEPT ![p][x] = row]
  /\ Change /\ UNCHANGED <<product, group, choice>>

Next ==
  \/ \E w \in Workers :
       \/ \E c \in Categories :
            \/ \E parent \in Categories \cup {None} :
                 \/ CreateCategory(w, c, parent)
                 \/ \E hidden \in BOOLEAN : UpdateCategory(w, c, parent, hidden)
            \/ DeleteCategory(w, c)
       \/ CommitCategory(w) \/ Abort(w)
  \/ \E p \in Products :
       \/ \E c \in Categories \cup {None} :
            \/ CreateProduct(p, c) \/ ImportProduct(p, c)
            \/ \E hidden, active \in BOOLEAN : UpdateProduct(p, c, hidden, active)
       \/ DeleteProduct(p)
       \/ \E link \in {"none", "inherit", "required", "optional"} : SetGroups(p, link)
       \/ \E x \in Options, row \in Overrides \cup {None} : SetOverride(p, x, row)
  \/ \E row \in Groups : UpdateGroup(row)
  \/ DeleteGroup
  \/ \E x \in Options : DeleteChoice(x) \/ \E s \in {"active", "inactive"} : UpdateChoice(x, s)

Spec == Init /\ [][Next]_catalogVars

---------------------------------------------------------------------------
(* What a customer is shown, and what is taken as an order.                *)

ForSale(p) == OnFile(p) /\ product[p].active /\ ~product[p].hidden

(* product_visible_on_public_menu: hidden with any category above it.      *)
OnMenu(p) ==
  /\ ForSale(p)
  /\ \A c \in Ancestors(category, product[p].category) : ~category[c].hidden

(* product_orderable_via_public_menu: hidden with its own category.        *)
Orderable(p) ==
  /\ ForSale(p)
  /\ product[p].category \in Live(category) => ~category[product[p].category].hidden

Required(p) ==
  \/ product[p].link = "required"
  \/ product[p].link = "inherit" /\ group.required

Visible(p, x) ==
  /\ override[p][x] # None => ~override[p][x].hidden
  /\ choice[x] = "active"

(* Mistaken: the product's own price of a choice is forgotten.             *)
PriceOfChoice(p, x) == PriceOf[x]

Price(p, x) ==
  IF override[p][x] = None THEN PriceOf[x]
  ELSE IF override[p][x].price = None THEN PriceOf[x] ELSE override[p][x].price

(* load_public_product_options: a group without a choice is left out.      *)
ShownPrice(p, x) ==
  IF override[p][x] # None /\ override[p][x].price # None
  THEN override[p][x].price ELSE PriceOf[x]

Shown(p) ==
  IF product[p].link = "none" \/ group.gone THEN {}
  ELSE {x \in Options : /\ choice[x] = "active"
                        /\ ~(override[p][x] # None /\ override[p][x].hidden)}

AtLeast(p) == IF group.min # 0 THEN group.min ELSE IF Required(p) THEN 1 ELSE 0

(* OptionModal: one of a single group is picked from the start; of several *)
(* the dialogue lets no more than max be picked, and counts the least.     *)
Confirms(p, picked) ==
  /\ picked \subseteq Shown(p)
  /\ Shown(p) # {} =>
       IF group.type = "single" THEN Cardinality(picked) = 1
       ELSE /\ Cardinality(picked) >= AtLeast(p)
            /\ group.max # None => Cardinality(picked) <= group.max

(* validate_line_options, of choices at the prices that were shown.        *)
Accepts(p, picked) ==
  IF product[p].link = "none" THEN picked = {}
  ELSE IF group.gone THEN picked = {}
  ELSE /\ IF group.type = "single"
          THEN /\ Required(p) => Cardinality(picked) = 1
               /\ Cardinality(picked) <= 1
          ELSE /\ Cardinality(picked) >= AtLeast(p)
               /\ group.max # None => Cardinality(picked) <= group.max
       /\ \A x \in picked : Visible(p, x) /\ ShownPrice(p, x) = Price(p, x)

---------------------------------------------------------------------------
Asks(p) ==
  /\ product[p].link # "none" /\ ~group.gone
  /\ IF group.type = "single" THEN Required(p) ELSE AtLeast(p) > 0

Answerable(p) == Asks(p) => Shown(p) # {}

(* What the menu shows can be ordered: the server takes every choice of    *)
(* options that the dialogue confirms, at the price it showed, whatever    *)
(* categories, groups, choices and overrides have been changed to.  Left   *)
(* out is a group that asks for choices and has none that is visible: the  *)
(* menu does not show it and the order must have it.                       *)
MenuCanBeOrdered ==
  \A p \in Products :
    OnMenu(p) =>
      /\ Orderable(p)
      /\ Answerable(p) =>
           \A picked \in SUBSET Options : Confirms(p, picked) => Accepts(p, picked)

=============================================================================
