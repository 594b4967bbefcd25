------------------------------ MODULE Shopper ------------------------------
(***************************************************************************)
(* What a customer keeps with the store: saved addresses                   *)
(* (app/modules/addresses), reviews of products bought (reviews) and the   *)
(* wishlist (wishlist), for one customer with several requests in flight   *)
(* and an administrator who moderates.  A request reads rows without a     *)
(* lock and writes later; the ORM writes the columns the request changed,  *)
(* and ends it when a row it wants to change is gone.                      *)
(***************************************************************************)
EXTENDS Common, Naturals, FiniteSets

CONSTANTS
    Products,
    WISHLIST_LIMIT,
    MAX_ADDRESSES_PER_USER,
    MaxReviews, \* bound: reviews at a time
    MaxIds      \* bound: addresses and reviews ever created

\* A customer has some requests at a time, and both lists have room.
ASSUME LimitsAreSet == IsFiniteSet(Requests) /\ WISHLIST_LIMIT \in Nat \ {0} /\ MAX_ADDRESSES_PER_USER \in Nat \ {0}

VARIABLES
    addresses, \* the rows: [id, is_default]; a larger id was created later
    doing,     \* what each request in flight has read
    onSale,    \* the active products
    bought,    \* the products in a paid or fulfilled order
    review,    \* the customer's review of each product, or None
    wishlist,  \* the saved products
    ids        \* the last id given out

shopperVars == <<addresses, doing, onSale, bought, review, wishlist, ids>>

Address(id, is_default) == [id |-> id, is_default |-> is_default]
Review(id, text) == [id |-> id, status |-> "published", text |-> text]
Texts == {"first", "edited"}
NotDoing == [op |-> "idle"]

ShopperInit ==
    /\ addresses = {} /\ review = [p \in Products |-> None] /\ wishlist = {} /\ ids = 0
    /\ onSale = Products /\ bought = {}
    /\ doing = [r \in Requests |-> NotDoing]

Begin(r, op) ==
    /\ doing[r] = NotDoing
    /\ doing' = [doing EXCEPT ![r] = op]
    /\ UNCHANGED <<addresses, onSale, bought, review, wishlist, ids>>

End(r) == doing' = [doing EXCEPT ![r] = NotDoing]

-----------------------------------------------------------------------------
(* Addresses                                                               *)

\* A row as this request has it: as it read it, or as it is when it reads it for the first time.
SeenByRequest(seen) == {a \in addresses : \A s \in seen : s.id # a.id} \cup {s \in seen : \E a \in addresses : a.id = s.id}

\* The rows are written with is_default where the request changed it; one of them may be gone.
Write(r, changes) ==
    /\ IF \A c \in changes : \E a \in addresses : a.id = c.id
       THEN addresses' = {IF \E c \in changes : c.id = a.id THEN CHOOSE c \in changes : c.id = a.id ELSE a : a \in addresses}
       ELSE UNCHANGED addresses
    /\ End(r)
    /\ UNCHANGED <<onSale, bought, review, wishlist, ids>>

\* clear_default_for_user
Cleared(seen) == {Address(a.id, FALSE) : a \in {x \in SeenByRequest(seen) : x.is_default}}

\* Mutant: the limit is passed by one before it is noticed.
FullLate(seen) == Cardinality(seen) > MAX_ADDRESSES_PER_USER

Full(seen) == Cardinality(seen) >= MAX_ADDRESSES_PER_USER

LoadCreate(r, is_default) == Begin(r, [op |-> "create", seen |-> addresses, is_default |-> is_default])

\* create_address. The first address is the default, whatever was asked.
CreateAddress(r) ==
    LET q == doing[r]
        default == q.is_default \/ q.seen = {}
        cleared == IF default /\ q.seen # {} THEN Cleared(q.seen) ELSE {} IN
    /\ q.op = "create" /\ ids < MaxIds
    /\ End(r)
    /\ UNCHANGED <<onSale, bought, review, wishlist>>
    /\ IF Full(q.seen)
       THEN UNCHANGED <<addresses, ids>>
       ELSE /\ ids' = ids + 1
            /\ addresses' = {a \in addresses : \A c \in cleared : c.id # a.id} \cup cleared \cup {Address(ids + 1, default)}

LoadAddress(r, op, a, is_default) ==
    /\ a \in addresses
    /\ Begin(r, [op |-> op, seen |-> a, is_default |-> is_default])

\* update_address refuses to switch off the default of a customer with one address.
MaySwitchOff(seen) == seen.is_default /\ Cardinality(addresses) > 1

UpdateAddress(r) ==
    LET q == doing[r] IN
    /\ q.op = "update"
    /\ Write(r, IF q.is_default
                THEN IF q.seen.is_default THEN {} ELSE Cleared({q.seen}) \cup {Address(q.seen.id, TRUE)}
                ELSE IF MaySwitchOff(q.seen) THEN {Address(q.seen.id, FALSE)} ELSE {})

\* The address list_for_user puts first: a default before the others, the latest before the earlier.
FirstListed(S) == CHOOSE a \in S : \A b \in S : \/ a.is_default /\ ~b.is_default
                                                \/ a.is_default = b.is_default /\ a.id >= b.id

\* delete_address: when the default goes, the first of the others takes its place.
DeleteAddress(r) ==
    LET q == doing[r]
        rest == {a \in addresses : a.id # q.seen.id} IN
    /\ q.op = "delete"
    /\ addresses' = IF q.seen.is_default /\ rest # {}
                    THEN (rest \ {FirstListed(rest)}) \cup {Address(FirstListed(rest).id, TRUE)}
                    ELSE rest
    /\ End(r)
    /\ UNCHANGED <<onSale, bought, review, wishlist, ids>>

\* get_default_for_user, for a checkout without an address: none, the default, or an error when there are two.
DefaultForUser ==
    LET defaults == {a \in addresses : a.is_default} IN
    IF Cardinality(defaults) > 1 THEN "MultipleResultsFound" ELSE IF defaults = {} THEN "none" ELSE "default"

-----------------------------------------------------------------------------
(* Reviews                                                                 *)

\* An order of the product is paid, or cancelled or refunded.
Pay(p) ==
    /\ bought' = IF p \in bought THEN bought \ {p} ELSE bought \cup {p}
    /\ UNCHANGED <<addresses, doing, onSale, review, wishlist, ids>>

SetReview(p, row) ==
    /\ review' = [review EXCEPT ![p] = row]
    /\ UNCHANGED <<addresses, onSale, bought, wishlist>>

\* create: _bought, and one review of each product (uq_product_reviews_product_user).
CreateReview(p) ==
    /\ p \in bought /\ review[p] = None /\ ids < MaxIds /\ Cardinality({q \in Products : review[q] # None}) < MaxReviews
    /\ SetReview(p, Review(ids + 1, "first"))
    /\ ids' = ids + 1
    /\ UNCHANGED doing

\* update_mine reads the review, which must not be hidden ...
LoadReview(r, p) ==
    /\ review[p] # None /\ review[p].status # "hidden"
    /\ Begin(r, [op |-> "edit", product |-> p, seen |-> review[p]])

\* Mutant: the whole row is written as it was read.
EditedRow(seen, now) == [seen EXCEPT !.text = "edited"]

\* ... and writes the fields it was sent, unless the row is gone.
Edited(seen, now) == [now EXCEPT !.text = "edited"]

UpdateMine(r) ==
    LET q == doing[r]
        now == review[q.product] IN
    /\ q.op = "edit"
    /\ SetReview(q.product, IF now # None /\ now.id = q.seen.id THEN Edited(q.seen, now) ELSE now)
    /\ End(r)
    /\ UNCHANGED ids

\* delete_mine, admin_delete
DeleteReview(p) ==
    /\ review[p] # None
    /\ SetReview(p, None)
    /\ UNCHANGED <<doing, ids>>

Moderate(p, status) ==
    /\ review[p] # None
    /\ SetReview(p, [review[p] EXCEPT !.status = status])
    /\ UNCHANGED <<doing, ids>>

-----------------------------------------------------------------------------
(* Wishlist                                                                *)

Withdraw(p) ==
    /\ onSale' = IF p \in onSale THEN onSale \ {p} ELSE onSale \cup {p}
    /\ UNCHANGED <<addresses, doing, bought, review, wishlist, ids>>

\* add reads whether the product is saved and how many are ...
LoadSave(r, p) ==
    /\ p \in onSale /\ p \notin wishlist /\ Cardinality(wishlist) < WISHLIST_LIMIT
    /\ Begin(r, [op |-> "save", product |-> p])

\* ... and inserts, on conflict doing nothing.
Save(r) ==
    /\ doing[r].op = "save"
    /\ wishlist' = wishlist \cup {doing[r].product}
    /\ End(r)
    /\ UNCHANGED <<addresses, onSale, bought, review, ids>>

Remove(p) ==
    /\ wishlist' = wishlist \ {p}
    /\ UNCHANGED <<addresses, doing, onSale, bought, review, ids>>

-----------------------------------------------------------------------------
AddressEndpoints ==
    \E r \in Requests :
        \/ \E is_default \in BOOLEAN : LoadCreate(r, is_default)
        \/ \E op \in {"update", "delete"}, a \in addresses, is_default \in BOOLEAN : LoadAddress(r, op, a, is_default)
        \/ CreateAddress(r) \/ UpdateAddress(r) \/ DeleteAddress(r)

ReviewEndpoints ==
    \/ \E p \in Products : CreateReview(p) \/ DeleteReview(p) \/ \E status \in {"published", "hidden"} : Moderate(p, status)
    \/ \E r \in Requests : UpdateMine(r) \/ \E p \in Products : LoadReview(r, p)

WishlistEndpoints ==
    \/ \E r \in Requests : Save(r) \/ \E p \in Products : LoadSave(r, p)
    \/ \E p \in Products : Remove(p)

Store == \E p \in Products : Pay(p) \/ Withdraw(p)

ShopperNext == AddressEndpoints \/ ReviewEndpoints \/ WishlistEndpoints \/ Store

ShopperSpec == ShopperInit /\ [][ShopperNext]_shopperVars

-----------------------------------------------------------------------------
\* A review the store hid is seen again only when the store publishes it: a customer's edit under way when it was
\* hidden changes its text, never its status (review_service.py, update_mine).
HiddenStaysHidden ==
    \A p \in Products :
        review[p] # None /\ review[p].status = "hidden" /\ review'[p] # None /\ review'[p].status = "published"
            => Moderate(p, "published")

\* The addresses and the wishlist of a customer are "capped", up to the requests that counted before the others inserted
\* ("the point is to keep it bounded, not to count exactly", address_service.py; wishlist_service.py, add).
ListsStayBounded ==
    /\ Cardinality(addresses) < MAX_ADDRESSES_PER_USER + Cardinality(Requests)
    /\ Cardinality(wishlist) < WISHLIST_LIMIT + Cardinality(Requests)
=============================================================================
