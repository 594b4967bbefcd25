----------------------------- MODULE Catalogue -----------------------------
(***************************************************************************)
(* One product of the catalogue, its options and variants, and the cart    *)
(* and order lines that refer to them.                                     *)
(*                                                                         *)
(* A product without options is sold as itself (the unit Simple); one with *)
(* options only through its variants, here named by the value of its one   *)
(* option. Variant administration, checkout and restocking hold the lock   *)
(* of the product row from their first read to their commit and are one    *)
(* step each; product edits, additions to a cart and the cart a checkout   *)
(* starts from are read without a lock, in a step of their own. Lines have *)
(* quantity one.                                                           *)
(***************************************************************************)
EXTENDS Common, Integers, FiniteSets, FiniteSetsExt, Functions

CONSTANTS
    Values,         \* option values
    Carts, Purchases,
    Prices,         \* prices of the product
    OverridePrices, \* price overrides of its variants
    MaxStock        \* bound: stock an administrator gives a unit

Simple == "simple"

\* A variant is not mistaken for the product itself: its lines name it, theirs have no variant.
ASSUME ValuesAssumption == Simple \notin Values /\ IsFiniteSet(Values)
ASSUME PurchasesAssumption == IsFiniteSet(Purchases)

VARIABLES
    product,  \* the product row
    values,   \* the values of its option
    variants, \* its variants
    cart,     \* lines of each cart
    orders,   \* orders of the product
    edit,     \* the product row an administrator's edit has read
    adding,   \* the unit a request is about to add to a cart
    supplied  \* history: what the writes of administrators have changed the stock by, as the stock ledger records it

catalogueVars == <<product, values, variants, cart, orders, edit, adding, supplied>>

Statuses == {"draft", "active", "archived"}

NewProduct(status, price, stock) ==
    [status |-> status, options |-> FALSE, price |-> price, stock |-> stock, from |-> price, to |-> price]

\* moved: the stock ledger has rows of the variant.
Variant(status, override, stock) == [status |-> status, override |-> override, stock |-> stock, moved |-> stock # 0]

\* stock_ledger_write: a change of stock leaves a row in the ledger.
Moved(variant, after) == [variant EXCEPT !.stock = after, !.moved = @ \/ after # variant.stock]

NoOrder == [status |-> "none", cart |-> None, lines |-> {}, back |-> {}]

Active(vs) == {v \in DOMAIN vs : vs[v].status = "active"}
EffectivePrice(base, variant) == IF variant.override = None THEN base ELSE variant.override

CatalogueInit ==
    /\ \E status \in {"draft", "active"}, price \in Prices, stock \in 0 .. MaxStock :
          product = NewProduct(status, price, stock) /\ supplied = stock
    /\ values = {} /\ variants = << >>
    /\ cart = [c \in Carts |-> {}] /\ adding = [c \in Carts |-> None]
    /\ orders = [o \in Purchases |-> NoOrder]
    /\ edit = None

-----------------------------------------------------------------------------
(* The rules of the database.                                              *)

\* product_price_range: over the active variants, in stock or not.
PriceRange(p, vs) ==
    LET effective == {EffectivePrice(p.price, vs[v]) : v \in Active(vs)} IN
    IF ~p.options \/ effective = {} THEN <<p.price, p.price>> ELSE <<Min(effective), Max(effective)>>

Summarised(p, vs) == [p EXCEPT !.from = PriceRange(p, vs)[1], !.to = PriceRange(p, vs)[2]]

\* products_price_summary, before the price or the options of a product change.
ProductPriceSummary(p, vs) == Summarised(p, vs)

\* variants_price_summary, after the price or the status of a variant changes.
VariantPriceSummary(p, vs) == Summarised(p, vs)

\* check_active_variant_rule, at commit: an active product with options needs an active variant.
ActiveVariantRule(p, vs) == p.options /\ p.status = "active" => Active(vs) # {}

\* ck_products_stock_zero_with_options, ck_products_stock_non_negative.
StockRule(p) == p.stock >= 0 /\ (p.options => p.stock = 0)

\* Mutant: only the foreign key protects a line.
LineRuleForeignKey(u) == u = Simple \/ u \in DOMAIN variants

\* enforce_line_variant_rule and the foreign key of the line's variant.
LineRule(u) == IF u = Simple THEN ~product.options ELSE product.options /\ u \in DOMAIN variants

\* A cart or an order refers to unit u; to the product.
Refers(u) == (\E c \in Carts : u \in cart[c]) \/ (\E o \in Purchases : u \in orders[o].lines)
Referred == \E u \in {Simple} \cup Values : Refers(u)

-----------------------------------------------------------------------------
(* Product administration: read, then write.                               *)

ReadForEdit ==
    /\ edit = None
    /\ edit' = [row |-> [product EXCEPT !.from = 0, !.to = 0], sellable |-> Active(variants) # {}]
    /\ UNCHANGED <<product, values, variants, cart, orders, adding, supplied>>

\* What an administrator sends, one field at a time; None: not sent.
Edits ==
    {e \in [status : Statuses \cup {None}, price : Prices \cup {None}, stock : (0 .. MaxStock) \cup {None}] :
        Cardinality({field \in DOMAIN e : e[field] # None}) = 1}

\* The ORM writes a column that was sent and differs from the row it has loaded.
Column(new, loaded, now) == IF new # None /\ new # loaded THEN new ELSE now

\* The row after the edit e: written over what is there now, and summarised when its price is written.
Edited(e) ==
    LET p == [product EXCEPT !.status = Column(e.status, edit.row.status, @),
                             !.price = Column(e.price, edit.row.price, @),
                             !.stock = Column(e.stock, edit.row.stock, @)]
    IN IF p.price # product.price THEN ProductPriceSummary(p, variants) ELSE p

FinalStatus(e) == IF e.status # None THEN e.status ELSE edit.row.status

\* update_product. It refuses what it knows to be wrong, the database what it finds at the commit. A stock that is sent is
\* written as it is; the difference from the stock of that moment, units sold since the row was loaded included, is supply.
UpdateProduct(e) ==
    LET accepted == /\ ~(FinalStatus(e) = "active" /\ edit.row.options /\ ~edit.sellable)
                    /\ StockRule(Edited(e)) /\ ActiveVariantRule(Edited(e), variants)
    IN
    /\ edit # None
    /\ edit' = None
    /\ product' = IF accepted THEN Edited(e) ELSE product
    /\ supplied' = supplied + product'.stock - product.stock
    /\ UNCHANGED <<values, variants, cart, orders, adding>>

\* archive_product
Archive ==
    /\ product' = [product EXCEPT !.status = "archived"]
    /\ UNCHANGED <<values, variants, cart, orders, edit, adding, supplied>>

-----------------------------------------------------------------------------
(* Variant administration: one step, under the product's lock.             *)

\* _install_options: the product declares as many options as it has.
WithOptions(p, vals) == ProductPriceSummary([p EXCEPT !.options = vals # {}], variants)

\* set_options: only before there are variants, and for a product nothing refers to.
SetOptions(vals) ==
    /\ DOMAIN variants = {}
    /\ vals # {} => product.stock = 0 /\ ~Referred
    /\ product' = WithOptions(product, vals)
    /\ ActiveVariantRule(product', variants)
    /\ values' = vals
    /\ UNCHANGED <<variants, cart, orders, edit, adding, supplied>>

AddValue(v) ==
    /\ product.options /\ v \notin values
    /\ values' = values \cup {v}
    /\ UNCHANGED <<product, variants, cart, orders, edit, adding, supplied>>

\* delete_value: not one that a variant has, nor the last.
DeleteValue(v) ==
    /\ v \in values \ DOMAIN variants /\ Cardinality(values) > 1
    /\ values' = values \ {v}
    /\ UNCHANGED <<product, variants, cart, orders, edit, adding, supplied>>

\* _create_variants: every combination is one of the product's, and new.
NewVariants(p, vals, new) == p.options /\ DOMAIN new \subseteq vals \ DOMAIN variants

\* The variants become vs, and the product's range follows.
SetVariants(vs) ==
    /\ variants' = vs
    /\ product' = VariantPriceSummary(product, vs)
    /\ ActiveVariantRule(product', vs)

Plus(vs, v, variant) == [x \in (DOMAIN vs) \cup {v} |-> IF x = v THEN variant ELSE vs[x]]

CreateVariant(v, variant) ==
    /\ NewVariants(product, values, [x \in {v} |-> variant])
    /\ SetVariants(Plus(variants, v, variant))
    /\ supplied' = supplied + variant.stock
    /\ UNCHANGED <<values, cart, orders, edit, adding>>

\* update_variant: the price and the status.
UpdateVariant(v, status, override) ==
    /\ v \in DOMAIN variants
    /\ SetVariants([variants EXCEPT ![v].status = status, ![v].override = override])
    /\ UNCHANGED <<values, cart, orders, edit, adding, supplied>>

\* Mutant: only lines protect a variant.
UnusedByLines(v) == ~Refers(v)

\* Nothing refers to the variant, the stock ledger included.
Unused(v) == ~Refers(v) /\ ~variants[v].moved

DeleteVariant(v) ==
    /\ v \in DOMAIN variants /\ Unused(v)
    /\ SetVariants(Restrict(variants, (DOMAIN variants) \ {v}))
    /\ UNCHANGED <<values, cart, orders, edit, adding, supplied>>

\* adjust_stock: to the number given, or by the difference given.
AdjustStock(u, after) ==
    /\ IF u = Simple
       THEN /\ ~product.options /\ after # product.stock
            /\ product' = [product EXCEPT !.stock = after]
            /\ supplied' = supplied + after - product.stock
            /\ UNCHANGED variants
       ELSE /\ u \in DOMAIN variants /\ after # variants[u].stock
            /\ variants' = [variants EXCEPT ![u] = Moved(@, after)]
            /\ supplied' = supplied + after - variants[u].stock
            /\ UNCHANGED product
    /\ UNCHANGED <<values, cart, orders, edit, adding>>

\* Orders that keep a product from being converted.
OpenOrders == {o \in Purchases : orders[o].status \in {"pending", "paid"} /\ orders[o].lines # {}}

\* The variants take over the stock exactly.
Allocates(new) == SumFunction([v \in DOMAIN new |-> new[v].stock]) = product.stock

\* convert_to_variants: moves the stock, creates options and variants, removes the cart lines.
Convert(vals, new) ==
    LET p == WithOptions([product EXCEPT !.stock = 0], vals) IN
    /\ ~product.options /\ product.status # "archived"
    /\ Allocates(new) /\ OpenOrders = {}
    /\ NewVariants(p, vals, new)
    /\ values' = vals /\ variants' = new
    /\ product' = VariantPriceSummary(p, new)
    /\ ActiveVariantRule(product', new)
    /\ cart' = [c \in Carts |-> {}]
    /\ UNCHANGED <<orders, edit, adding, supplied>>

-----------------------------------------------------------------------------
(* The shop.                                                               *)

Stock(u) == IF u = Simple THEN product.stock ELSE variants[u].stock

\* _resolve_unit: what is sold now.
Sellable(u) ==
    /\ product.status = "active"
    /\ IF u = Simple THEN ~product.options ELSE u \in Active(variants)
    /\ Stock(u) >= 1

\* add_item finds the unit; later it stores the line, unless the database refuses it.
ResolveUnit(c, u) ==
    /\ adding[c] = None /\ Sellable(u)
    /\ adding' = [adding EXCEPT ![c] = u]
    /\ UNCHANGED <<product, values, variants, cart, orders, edit, supplied>>

AddItem(c) ==
    /\ adding[c] # None
    /\ cart' = IF LineRule(adding[c]) THEN [cart EXCEPT ![c] = @ \cup {adding[c]}] ELSE cart
    /\ adding' = [adding EXCEPT ![c] = None]
    /\ UNCHANGED <<product, values, variants, orders, edit, supplied>>

RemoveItem(c, u) ==
    /\ u \in cart[c]
    /\ cart' = [cart EXCEPT ![c] = @ \ {u}]
    /\ UNCHANGED <<product, values, variants, orders, edit, adding, supplied>>

\* checkout reads the cart ...
ReadCart(o, c) ==
    /\ orders[o].status = "none" /\ cart[c] # {}
    /\ orders' = [orders EXCEPT ![o] = [NoOrder EXCEPT !.status = "reading", !.cart = c, !.back = cart[c]]]
    /\ UNCHANGED <<product, values, variants, cart, edit, adding, supplied>>

\* adjust_stock_many, adjust_variant_stock_many: n units of every unit in S.
Adjusted(S, n) ==
    /\ product' = IF Simple \in S THEN [product EXCEPT !.stock = @ + n] ELSE product
    /\ variants' = [v \in DOMAIN variants |->
                       IF v \in S THEN Moved(variants[v], variants[v].stock + n) ELSE variants[v]]

\* ... and locks the units: all of them are sold, or none. The cart's lines go.
Checkout(o) ==
    LET units == orders[o].back
        c == orders[o].cart
    IN
    /\ orders[o].status = "reading"
    /\ IF \A u \in units : Sellable(u)
       THEN /\ Adjusted(units, -1)
            /\ cart' = [cart EXCEPT ![c] = @ \ units]
            /\ orders' = [orders EXCEPT ![o] = [NoOrder EXCEPT !.status = "pending", !.lines = units]]
       ELSE /\ orders' = [orders EXCEPT ![o] = NoOrder]
            /\ UNCHANGED <<product, variants, cart>>
    /\ UNCHANGED <<values, edit, adding, supplied>>

Move(o, from, to) ==
    /\ orders[o].status = from
    /\ orders' = [orders EXCEPT ![o].status = to]
    /\ UNCHANGED <<product, values, variants, cart, edit, adding, supplied>>

\* _restock_once, with the cancellation of a pending or refunded order: it cannot put a simple line back on a product with options.
Cancel(o) ==
    /\ orders[o].status \in {"pending", "paid"}
    /\ ~(Simple \in orders[o].lines /\ product.options)
    /\ Adjusted(orders[o].lines, 1)
    /\ orders' = [orders EXCEPT ![o].status = "cancelled", ![o].back = orders[o].lines]
    /\ UNCHANGED <<values, cart, edit, adding, supplied>>

\* A line of a fulfilled order comes back (ReturnService._restock), unless a rule of the database refuses the stock.
Return(o, u) ==
    /\ orders[o].status = "fulfilled" /\ u \in orders[o].lines \ orders[o].back
    /\ Adjusted({u}, 1) /\ StockRule(product')
    /\ orders' = [orders EXCEPT ![o].back = @ \cup {u}]
    /\ UNCHANGED <<values, cart, edit, adding, supplied>>

-----------------------------------------------------------------------------
Overrides == OverridePrices \cup {None}
VariantSpecs == {Variant(s, p, n) : s \in {"active", "inactive"}, p \in Overrides, n \in 0 .. MaxStock}

\* What a conversion may ask for: variants at the product's price.
Conversions(vals) == [vals -> {Variant("active", None, n) : n \in 0 .. MaxStock}]

ProductEndpoints == ReadForEdit \/ Archive \/ (edit # None /\ \E e \in Edits : UpdateProduct(e))

VariantEndpoints ==
    \/ \E vals \in SUBSET Values : SetOptions(vals) \/ (vals # {} /\ \E new \in Conversions(vals) : Convert(vals, new))
    \/ \E v \in Values :
          \/ AddValue(v) \/ DeleteValue(v) \/ DeleteVariant(v)
          \/ \E spec \in VariantSpecs : CreateVariant(v, spec)
          \/ \E status \in {"active", "inactive"}, override \in Overrides : UpdateVariant(v, status, override)
    \/ \E u \in {Simple} \cup Values, n \in 0 .. MaxStock : AdjustStock(u, n)

CartEndpoints ==
    \E c \in Carts : AddItem(c) \/ \E u \in {Simple} \cup Values : ResolveUnit(c, u) \/ RemoveItem(c, u)

PurchaseEndpoints ==
    \E o \in Purchases :
        \/ \E c \in Carts : ReadCart(o, c)
        \/ Checkout(o) \/ Cancel(o) \/ Move(o, "pending", "paid") \/ Move(o, "paid", "fulfilled")
        \/ \E u \in {Simple} \cup Values : Return(o, u)

CatalogueNext == ProductEndpoints \/ VariantEndpoints \/ CartEndpoints \/ PurchaseEndpoints

CatalogueSpec == CatalogueInit /\ [][CatalogueNext]_catalogueVars

-----------------------------------------------------------------------------
\* Units that were sold and have not come back.
Sold == SumFunction([o \in Purchases |-> Cardinality(orders[o].lines \ orders[o].back)])

\* Sales, cancellations, returns, deleted variants and the conversion to variants neither lose nor
\* invent stock: what is in stock and what is sold is what administrators have supplied. Supply is what their writes changed
\* the stock by, so this says nothing about a stock that update_product writes over a sale the administrator had not seen.
UnitsConserved == product.stock + SumFunction([v \in DOMAIN variants |-> variants[v].stock]) + Sold = supplied

Fits(u) == IF u = Simple THEN ~product.options ELSE u \in DOMAIN variants

\* Every cart line, and every line of an order that can still be cancelled, names a unit that the product
\* is sold as, so that it can be bought or put back; although the line was chosen before a conversion.
LinesFit ==
    /\ \A c \in Carts : \A u \in cart[c] : Fits(u)
    /\ \A o \in Purchases : orders[o].status \in {"pending", "paid"} => \A u \in orders[o].lines : Fits(u)

\* An active product with options has an active variant, although an administrator may activate the
\* product while another deactivates or deletes the variants the first one has seen.
SellableHasUnit == product.options /\ product.status = "active" => Active(variants) # {}

\* The price range that the catalogue filters and sorts by is that of the units it sells.
PriceRangeTrue == <<product.from, product.to>> = PriceRange(product, variants)

\* However the editing of a product interleaves with carts, orders and returns, its stock is accounted for, every line
\* names a unit it is sold as, and its availability and price range are those of its variants (variant_admin_service.py
\* and the triggers of the product_variants migrations).
CatalogueConsistent == UnitsConserved /\ LinesFit /\ SellableHasUnit /\ PriceRangeTrue
=============================================================================
