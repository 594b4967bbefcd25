------------------------------ MODULE Checkout ------------------------------
(***************************************************************************)
(* OrderService.checkout: concurrent requests turn carts into orders while *)
(* customers edit carts, administrators edit the catalogue and the coupon, *)
(* and orders are cancelled (stock and coupon use go back) or refunded     *)
(* after shipping (only the coupon use goes back).                         *)
(*                                                                         *)
(* A request takes the advisory lock of its (owner, idempotency key) and   *)
(* reads the cart without any row lock; locks the rows of what is sold and *)
(* checks that copy against them; locks the coupon row and counts its      *)
(* uses; and then moves stock, creates the order and empties the cart.     *)
(* Whatever is not locked may change between these steps.                  *)
(***************************************************************************)
EXTENDS Integers, FiniteSets, Functions

CONSTANTS
    Requests,       \* checkout requests
    Owners,         \* cart owners: a registered account or a guest's token
    Buyer,          \* who a coupon counts an owner as: the account, or the guest's e-mail address
    Keys,           \* Idempotency-Key values
    Units,          \* what is sold: simple products and variants
    None,           \* absence of an owner, key, price or answer
    Prices,         \* prices a unit may have
    Limits,         \* values of the coupon's two limits
    MaxStock,       \* stock of each unit at the start
    MaxCartEdits,   \* bound: changes of carts by customers
    MaxShopEdits    \* bound: changes of prices, of availability and of the coupon by administrators

\* How a request can end other than with an order.
Refusals == {"conflict", "refused", "price_changed", "error"}

ASSUME RequestsAssumption ==
    IsFiniteSet(Requests) /\ None \notin Requests /\ (Requests \cup {None}) \cap Refusals = {}
ASSUME LimitsAssumption == Limits \subseteq Nat
ASSUME StockAssumption == MaxStock \in Nat /\ MaxCartEdits \in Nat /\ MaxShopEdits \in Nat

VARIABLES
    stock,      \* products.stock / product_variants.stock
    price,      \* the effective price of each unit
    onSale,     \* units whose product (and variant) is active
    coupon,     \* the coupon row: active, max_uses_total, max_uses_per_customer
    cart,       \* cart_items of each owner: quantity (0: no row), price snapshot, row id
    order,      \* the order each request created
    req,        \* checkout requests
    cartEdits, shopEdits

vars == <<stock, price, onSale, coupon, cart, order, req, cartEdits, shopEdits>>
shopVars == <<stock, price, onSale, coupon>>

NoLine == [qty |-> 0, snap |-> None, id |-> 0]
Idle == [pc |-> "idle", owner |-> None, key |-> None, code |-> FALSE,
         lines |-> [u \in Units |-> NoLine], answer |-> None]
NoOrder == [status |-> "none", owner |-> None, key |-> None, code |-> FALSE,
            qty |-> [u \in Units |-> 0]]

\* Carts that customers have filled at the current prices.
Init ==
    /\ stock = [u \in Units |-> MaxStock]
    /\ price \in [Units -> Prices]
    /\ onSale = Units
    /\ coupon \in [on : {TRUE}, total : Limits, each : Limits]
    /\ \E filled \in SUBSET (Owners \X Units) :
         cart = [o \in Owners |-> [u \in Units |->
                    IF <<o, u>> \in filled THEN [qty |-> 1, snap |-> price[u], id |-> 1] ELSE NoLine]]
    /\ order = [r \in Requests |-> NoOrder]
    /\ req = [r \in Requests |-> Idle]
    /\ cartEdits = 0 /\ shopEdits = 0

-----------------------------------------------------------------------------
\* The orders that exist, and those that still count as a use of the coupon (ALIVE).
Orders == {r \in Requests : order[r].status # "none"}
Alive == {r \in Requests : order[r].status = "open"}

\* get_by_idempotency_key: the order of this owner made with this key.
Existing(o, k) == {r \in Orders : order[r].owner = o /\ order[r].key = k}

\* uses(): live orders that carry the coupon, of everybody or of one buyer.
Uses == {r \in Alive : order[r].code}
UsesBy(b) == {r \in Uses : Buyer[order[r].owner] = b}

\* What cart_digest and the order lines tell apart: units and quantities, not prices.
Quantities(lines) == [u \in Units |-> lines[u].qty]
Empty(lines) == \A u \in Units : lines[u].qty = 0

-----------------------------------------------------------------------------
(* A checkout request.                                                     *)

\* The request arrives and waits for the advisory lock of its (owner, key).
Arrive(r, o, k, code) ==
    /\ req[r].pc = "idle"
    /\ req' = [req EXCEPT ![r] = [Idle EXCEPT !.pc = "wait", !.owner = o, !.key = k, !.code = code]]
    /\ UNCHANGED <<shopVars, cart, order, cartEdits, shopEdits>>

\* Requests whose transaction is open, and those that hold row locks on what they buy.
Inside == {r \in Requests : req[r].pc \in {"inside", "locked", "priced"}}
Holding == {r \in Requests : req[r].pc \in {"locked", "priced"}}

\* What a request buys.
Bought(r) == {u \in Units : req[r].lines[u].qty > 0}

\* Mutant: requests with the same key do not take turns.
KeyFreeAlways(r) == TRUE

\* pg_advisory_xact_lock: nobody else is inside with the same owner and key.
KeyFree(r) == \A s \in Inside \ {r} : req[s].owner # req[r].owner \/ req[s].key # req[r].key

\* No request holds the rows of these units.
UnitsFree(units) == \A s \in Holding : Bought(s) \cap units = {}

\* Mutant: the coupon is read without FOR UPDATE.
CouponFreeAlways == TRUE

\* No request holds the coupon row.
CouponFree == \A s \in Requests : req[s].pc # "priced"

\* The request is answered and its transaction ends, which releases the advisory lock.
Answered(r, answer) ==
    req' = [req EXCEPT ![r] = [@ EXCEPT !.pc = "done", !.answer = answer, !.lines = Idle.lines]]

\* A retry: the original order, unless the request or a waiting non-empty cart differs. Of
\* the request's fingerprint the coupon is modelled; address and e-mail may differ anyway.
Replay(r) ==
    /\ req[r].pc = "wait" /\ KeyFree(r)
    /\ \E e \in Existing(req[r].owner, req[r].key) :
         LET waiting == cart[req[r].owner] IN
         \/ /\ order[e].code = req[r].code
            /\ Empty(waiting) \/ Quantities(waiting) = order[e].qty
            /\ Answered(r, e)
         \/ Answered(r, "conflict")
    /\ UNCHANGED <<shopVars, cart, order, cartEdits, shopEdits>>

\* A new purchase: the cart is read, without a lock, and must not be empty.
ReadCart(r) ==
    /\ req[r].pc = "wait" /\ KeyFree(r)
    /\ Existing(req[r].owner, req[r].key) = {}
    /\ IF Empty(cart[req[r].owner])
       THEN Answered(r, "refused")
       ELSE req' = [req EXCEPT ![r].pc = "inside", ![r].lines = cart[req[r].owner]]
    /\ UNCHANGED <<shopVars, cart, order, cartEdits, shopEdits>>

\* Every line can be sold, by the rows now locked.
Enough(r) == \A u \in Bought(r) : u \in onSale /\ stock[u] >= req[r].lines[u].qty

\* Lines whose price is no longer the one the customer saw.
Repriced(r) == {u \in Bought(r) : req[r].lines[u].snap # price[u]}

\* The row read into the request is still in the cart.
StillThere(r, u) == cart[req[r].owner][u].qty > 0 /\ cart[req[r].owner][u].id = req[r].lines[u].id

\* evaluate(), with the coupon row locked.
CouponApplies(r) ==
    /\ coupon.on
    /\ Cardinality(Uses) < coupon.total
    /\ Cardinality(UsesBy(Buyer[req[r].owner])) < coupon.each

\* A line is unavailable or short, the coupon does not apply, or anything else fails
\* (configuration, address, tax, a lost connection): everything rolls back.
Refuse(r) ==
    /\ r \in Inside
    /\ Answered(r, "refused")
    /\ UNCHANGED <<shopVars, cart, order, cartEdits, shopEdits>>

\* get_many_for_update and get_variants_for_update, then the checks of every line.
LockUnits(r) ==
    /\ req[r].pc = "inside"
    /\ UnitsFree(Bought(r))
    /\ Enough(r)
    /\ Repriced(r) = {}
    /\ req' = [req EXCEPT ![r].pc = "locked"]
    /\ UNCHANGED <<shopVars, cart, order, cartEdits, shopEdits>>

\* Prices changed: the cart rows are brought up to date and that is committed (the
\* router returns the 409 instead of raising it); a row deleted meanwhile is an error.
PriceChanged(r) ==
    /\ req[r].pc = "inside"
    /\ UnitsFree(Bought(r))
    /\ Enough(r)
    /\ Repriced(r) # {}
    /\ \A u \in Repriced(r) : StillThere(r, u)
    /\ cart' = [cart EXCEPT ![req[r].owner] =
                   [u \in Units |-> IF u \in Repriced(r) THEN [@[u] EXCEPT !.snap = price[u]] ELSE @[u]]]
    /\ Answered(r, "price_changed")
    /\ UNCHANGED <<shopVars, order, cartEdits, shopEdits>>

\* find_by_code(lock=True) and evaluate(), when the request names the coupon.
LockCoupon(r) ==
    /\ req[r].pc = "locked"
    /\ req[r].code
    /\ CouponFree
    /\ CouponApplies(r)
    /\ req' = [req EXCEPT ![r].pc = "priced"]
    /\ UNCHANGED <<shopVars, cart, order, cartEdits, shopEdits>>

\* Stock, order and cart change together; only the rows that were read are deleted. The
\* unique constraint on (owner, key) would refuse a second order: an unexpected error.
PlaceOrder(r) ==
    LET o == req[r].owner IN
    /\ req[r].pc = IF req[r].code THEN "priced" ELSE "locked"
    /\ IF Existing(o, req[r].key) # {}
       THEN Answered(r, "error") /\ UNCHANGED <<stock, order, cart>>
       ELSE /\ stock' = [u \in Units |-> stock[u] - req[r].lines[u].qty]
            /\ order' = [order EXCEPT ![r] = [status |-> "open", owner |-> o, key |-> req[r].key,
                                              code |-> req[r].code, qty |-> Quantities(req[r].lines)]]
            /\ cart' = [cart EXCEPT ![o] =
                           [u \in Units |-> IF StillThere(r, u) THEN [@[u] EXCEPT !.qty = 0] ELSE @[u]]]
            /\ Answered(r, r)
    /\ UNCHANGED <<price, onSale, coupon, cartEdits, shopEdits>>

-----------------------------------------------------------------------------
(* Everybody else.                                                         *)

\* add_item, update_item_quantity, remove_item: a new row takes the current price, an
\* existing one keeps its snapshot; more than is in stock or on sale is refused.
EditCart(o, u, q) ==
    LET line == cart[o][u] IN
    /\ cartEdits < MaxCartEdits
    /\ cartEdits' = cartEdits + 1
    /\ q # line.qty
    /\ q > 0 => u \in onSale /\ q <= stock[u]
    /\ cart' = [cart EXCEPT ![o][u] =
           IF line.qty = 0 THEN [qty |-> q, snap |-> price[u], id |-> line.id + 1] ELSE [line EXCEPT !.qty = q]]
    /\ UNCHANGED <<shopVars, order, req, shopEdits>>

\* An administrator changes a price, takes a unit off sale (or back), or changes the coupon's
\* switch and limits: each an UPDATE that waits for the row.
EditShop ==
    /\ shopEdits < MaxShopEdits
    /\ shopEdits' = shopEdits + 1
    /\ \/ \E u \in Units, p \in Prices :
            UnitsFree({u}) /\ price' = [price EXCEPT ![u] = p] /\ UNCHANGED <<onSale, coupon>>
       \/ \E u \in Units :
            UnitsFree({u}) /\ onSale' \in {onSale \ {u}, onSale \cup {u}} /\ UNCHANGED <<price, coupon>>
       \/ CouponFree /\ coupon' \in [on : BOOLEAN, total : Limits, each : Limits] /\ UNCHANGED <<price, onSale>>
    /\ UNCHANGED <<stock, cart, order, req, cartEdits>>

\* Mutant: a cancellation does not see that the order was cancelled before.
ReleasableAgain == {r \in Requests : order[r].status \in {"open", "cancelled"}}

\* Orders that cancel_order (or a cancelling refund) finds alive under the order lock.
Releasable == Alive

\* _restock_once with the status change: the units are locked and every line goes back.
Release(r) ==
    /\ r \in Releasable
    /\ UnitsFree({u \in Units : order[r].qty[u] > 0})
    /\ order' = [order EXCEPT ![r].status = "cancelled"]
    /\ stock' = [u \in Units |-> stock[u] + order[r].qty[u]]
    /\ UNCHANGED <<price, onSale, coupon, cart, req, cartEdits, shopEdits>>

\* A shipped order is refunded: nothing returns to stock.
RefundShipped(r) ==
    /\ r \in Alive
    /\ order' = [order EXCEPT ![r].status = "refunded"]
    /\ UNCHANGED <<shopVars, cart, req, cartEdits, shopEdits>>

-----------------------------------------------------------------------------
RequestStep(r) ==
    Replay(r) \/ ReadCart(r) \/ LockUnits(r) \/ LockCoupon(r) \/ Refuse(r) \/ PriceChanged(r) \/ PlaceOrder(r)

Next ==
    \/ \E r \in Requests : \/ RequestStep(r) \/ Release(r) \/ RefundShipped(r)
                           \/ \E o \in Owners, k \in Keys, code \in BOOLEAN : Arrive(r, o, k, code)
    \/ \E o \in Owners, u \in Units, q \in 0..MaxStock : EditCart(o, u, q)
    \/ EditShop

Spec == Init /\ [][Next]_vars

-----------------------------------------------------------------------------
LineType == [qty : Nat, snap : Prices \cup {None}, id : Nat]

\* The values the tables and the requests can hold; no stock is ever below zero.
TypeOK ==
    /\ stock \in [Units -> Nat]
    /\ price \in [Units -> Prices]
    /\ onSale \subseteq Units
    /\ coupon \in [on : BOOLEAN, total : Limits, each : Limits]
    /\ cart \in [Owners -> [Units -> LineType]]
    /\ order \in [Requests -> [status : {"none", "open", "cancelled", "refunded"},
                              owner : Owners \cup {None}, key : Keys \cup {None},
                              code : BOOLEAN, qty : [Units -> Nat]]]
    /\ req \in [Requests -> [pc : {"idle", "wait", "inside", "locked", "priced", "done"},
                            owner : Owners \cup {None}, key : Keys \cup {None},
                            code : BOOLEAN, lines : [Units -> LineType],
                            answer : Requests \cup Refusals \cup {None}]]
    /\ cartEdits \in Nat /\ shopEdits \in Nat

\* What each order took of a unit and did not give back.
Taken(u) == [r \in Requests |-> IF order[r].status \in {"open", "refunded"} THEN order[r].qty[u] ELSE 0]

\* No unit is sold twice or lost: stock is never negative, and with what orders took and did not
\* give back it always adds up, however checkouts, cancellations and refunds interleave.
StockConserved == \A u \in Units : stock[u] >= 0 /\ stock[u] + SumFunction(Taken(u)) = MaxStock

\* Simultaneous requests with one key make one order and none of them fails on the unique
\* constraint (docs/STATUS.md: "serialized (advisory lock) and return one order").
KeyNamesOneOrder ==
    /\ \A r, s \in Orders : order[r].owner = order[s].owner /\ order[r].key = order[s].key => r = s
    /\ \A r \in Requests : req[r].answer # "error"

\* A request is only ever answered with its own owner's order for its own key and coupon
\* (checkout: no "cross-identity leak" when two callers use the same key value).
AnswersAreOwn ==
    \A r \in Requests : req[r].answer \in Requests =>
        LET e == order[req[r].answer] IN
        e.status # "none" /\ e.owner = req[r].owner /\ e.key = req[r].key /\ e.code = req[r].code

\* An Idempotency-Key does what it promises (checkout, lock_idempotency_key): one order, and only for its owner.
KeysHold == KeyNamesOneOrder /\ AnswersAreOwn

\* An order that takes a use of the coupon keeps within the limits in force when it is
\* created, in total and for its buyer, although the uses were counted in an earlier step
\* (coupon_service: "two simultaneous orders cannot both take the last use").
CouponWithinLimits ==
    [][\A r \in Requests : r \in Uses' \ Uses =>
          /\ Cardinality(Uses') <= coupon.total
          /\ Cardinality(UsesBy(Buyer[req[r].owner])') <= coupon.each]_vars
=============================================================================
