-------------------------------- MODULE Cart --------------------------------
(***************************************************************************)
(* The cart of one shopper, signed in on one device and still a guest on   *)
(* another: app/modules/cart and the merge at sign-in.  A request reads    *)
(* the rows it needs, decides, and writes them all in one transaction at   *)
(* the end; nothing is locked in between.  A write to a row that is gone,  *)
(* or against a unique index, ends the request with nothing written.       *)
(*                                                                         *)
(* What a unit costs and whether it is on sale is Catalogue's and          *)
(* Pricing's; here every unit is on sale with Stock pieces.                *)
(***************************************************************************)
EXTENDS Common, Naturals, FiniteSets, Functions

CONSTANTS
    Units,    \* what can be bought: simple products and variants
    Stock,    \* pieces of each unit
    MaxLines, \* MAX_CART_LINES
    MaxRows,  \* bound: cart and line rows ever created
    MaxAsked, \* bound: pieces ever asked for
    MaxLogins \* bound: sign-ins in flight at one time

ASSUME CartAssumption == Stock \in Nat /\ None \notin Nat

VARIABLES
    carts,   \* the rows of carts: [id, owner]
    lines,   \* the rows of cart_items: [id, cart, unit, qty]
    request, \* what each request in flight has read
    rows,    \* the last id given out
    asked,   \* history: the pieces of each unit the shopper has asked for so far
    twice    \* history: units merged from a guest cart that another sign-in had merged

cartVars == <<carts, lines, request, rows, asked, twice>>

Owners == {"user", "guest"}
CartRow(id, owner) == [id |-> id, owner |-> owner]
Line(id, cart, unit, qty) == [id |-> id, cart |-> cart, unit |-> unit, qty |-> qty]

NoRequest == [op |-> "idle"]
Of(c) == {l \in lines : l.cart = c}

\* The cart of an owner, or None (ux on user_id and on guest_token: one at most).
CartOf(owner) == IF \E c \in carts : c.owner = owner THEN (CHOOSE c \in carts : c.owner = owner).id ELSE None
Seen(owner) == Of(CartOf(owner))

CartInit ==
    /\ carts = {} /\ lines = {} /\ rows = 0
    /\ request = [r \in Requests |-> NoRequest]
    /\ asked = [u \in Units |-> 0] /\ twice = {}

Total(f) == FoldFunction(+, 0, f)

\* A request has read what it needs.
Load(r, op) ==
    /\ request[r] = NoRequest
    /\ request' = [request EXCEPT ![r] = op]
    /\ UNCHANGED <<carts, lines, rows, asked, twice>>

\* A request ends, with what it has written or refused.
Done(r) == request' = [request EXCEPT ![r] = NoRequest]

Refused(r) == Done(r) /\ UNCHANGED <<carts, lines, rows, asked, twice>>

-----------------------------------------------------------------------------
(* add_item                                                                *)

LoadAdd(r, owner, unit, qty) ==
    /\ qty <= Stock /\ Total(asked) + qty <= MaxAsked
    /\ Load(r, [op |-> "add", owner |-> owner, cart |-> CartOf(owner), seen |-> Seen(owner), unit |-> unit, qty |-> qty])

\* get_or_create_cart: the row is inserted with the line; another request may have created it since.
Insertable(owner, cart) ==
    IF cart = None THEN CartOf(owner) = None ELSE \E c \in carts : c.id = cart

\* Mutant: the indexes are missing.
LineFreeAlways(cart, unit) == TRUE

\* ux_cart_items_cart_product_simple, ux_cart_items_cart_variant
LineFree(cart, unit) == \A l \in Of(cart) : l.unit # unit

\* A unit that is in the cart: its quantity as read, and more. The row is written with the sum.
AddMore(r) ==
    LET q == request[r] IN
    \E seen \in {l \in q.seen : l.unit = q.unit} :
        IF seen.qty + q.qty <= Stock /\ \E l \in lines : l.id = seen.id
        THEN /\ lines' = {IF l.id = seen.id THEN [l EXCEPT !.qty = seen.qty + q.qty] ELSE l : l \in lines}
             /\ asked' = [asked EXCEPT ![q.unit] = @ + q.qty]
             /\ Done(r)
             /\ UNCHANGED <<carts, rows, twice>>
        ELSE Refused(r)

AddLine(r) ==
    LET q == request[r]
        cart == IF q.cart = None THEN rows + 1 ELSE q.cart
        id == IF q.cart = None THEN rows + 2 ELSE rows + 1 IN
    /\ \A l \in q.seen : l.unit # q.unit
    /\ IF Cardinality(q.seen) < MaxLines /\ Insertable(q.owner, q.cart) /\ LineFree(cart, q.unit) /\ id <= MaxRows
       THEN /\ carts' = carts \cup (IF q.cart = None THEN {CartRow(cart, q.owner)} ELSE {})
            /\ lines' = lines \cup {Line(id, cart, q.unit, q.qty)}
            /\ rows' = id
            /\ asked' = [asked EXCEPT ![q.unit] = @ + q.qty]
            /\ Done(r)
            /\ UNCHANGED twice
       ELSE Refused(r)

AddItem(r) == request[r].op = "add" /\ (AddMore(r) \/ AddLine(r))

-----------------------------------------------------------------------------
(* update_item_quantity, remove_item, clear_cart                           *)

LoadUpdate(r, owner, line, qty) ==
    /\ line \in Seen(owner) /\ qty <= Stock /\ Total(asked) + qty <= MaxAsked
    /\ Load(r, [op |-> "update", line |-> line, qty |-> qty])

\* The shopper asks for qty pieces, whatever there were.
UpdateItem(r) ==
    LET q == request[r] IN
    /\ q.op = "update"
    /\ IF \E l \in lines : l.id = q.line.id
       THEN /\ lines' = {IF l.id = q.line.id THEN [l EXCEPT !.qty = q.qty] ELSE l : l \in lines}
            /\ asked' = [asked EXCEPT ![q.line.unit] = @ + q.qty]
            /\ Done(r)
            /\ UNCHANGED <<carts, rows, twice>>
       ELSE Refused(r)

LoadRemove(r, owner, seen) ==
    /\ seen \in {Seen(owner)} \cup {{l} : l \in Seen(owner)}
    /\ seen # {}
    /\ Load(r, [op |-> "remove", seen |-> seen])

\* The rows that were read are deleted: one line, or every line (clear, also the end of a checkout).
RemoveItems(r) ==
    /\ request[r].op = "remove"
    /\ lines' = {l \in lines : \A seen \in request[r].seen : l.id # seen.id}
    /\ Done(r)
    /\ UNCHANGED <<carts, rows, asked, twice>>

-----------------------------------------------------------------------------
(* merge_guest_cart_into_user, after a sign-in that brought a guest cookie *)

SigningIn == {r \in Requests : request[r].op \in {"login", "merge"}}

LoadGuest(r) ==
    /\ CartOf("guest") # None /\ Cardinality(SigningIn) < MaxLogins
    /\ Load(r, [op |-> "login", guest |-> CartOf("guest"), seen |-> Seen("guest")])

LoadUser(r) ==
    /\ request[r].op = "login"
    /\ request' = [request EXCEPT ![r] = [op |-> "merge", guest |-> @.guest, seen |-> @.seen,
                                          user |-> CartOf("user"), own |-> Seen("user")]]
    /\ UNCHANGED <<carts, lines, rows, asked, twice>>

\* The user has no cart: the guest's becomes theirs.
Reassign(r) ==
    LET q == request[r] IN
    /\ q.op = "merge" /\ q.user = None
    /\ IF (\E c \in carts : c.id = q.guest) /\ CartOf("user") \in {None, q.guest}
       THEN /\ carts' = {IF c.id = q.guest THEN CartRow(c.id, "user") ELSE c : c \in carts}
            /\ Done(r)
            /\ UNCHANGED <<lines, rows, asked, twice>>
       ELSE Refused(r)

\* The guest's lines are added to the user's as read, and the guest cart goes with whatever is in it by now; if it is
\* gone already, deleting it again does nothing. When another sign-in has made the guest cart the user's since it was
\* read, it is both: it goes with all its lines.
Common(q) == {pair \in q.own \X q.seen : pair[1].unit = pair[2].unit}
Fresh(q) == {g \in q.seen : \A l \in q.own : l.unit # g.unit}

MergeItems(q) ==
    {IF \E pair \in Common(q) : pair[1].id = l.id
     THEN LET pair == CHOOSE pair \in Common(q) : pair[1].id = l.id IN [l EXCEPT !.qty = pair[1].qty + pair[2].qty]
     ELSE l : l \in lines}

Mergeable(q) ==
    /\ \A pair \in Common(q) : \E l \in lines : l.id = pair[1].id
    /\ \A g \in Fresh(q) : LineFree(q.user, g.unit)
    /\ Fresh(q) # {} => \E c \in carts : c.id = q.user
    /\ rows + Cardinality(Fresh(q)) <= MaxRows

\* The guest cart is gone: another sign-in has merged it.
Gone(q) == \A c \in carts : c.id # q.guest

Without(ls, cart) == {l \in ls : l.cart # cart}

Merge(r) ==
    LET q == request[r] IN
    /\ q.op = "merge" /\ q.user # None
    /\ IF q.user = q.guest \/ Mergeable(q)
       THEN \E ids \in [Fresh(q) -> rows + 1 .. rows + Cardinality(Fresh(q))] :
            /\ \A g, h \in Fresh(q) : ids[g] = ids[h] => g = h
            /\ lines' = IF q.user = q.guest THEN Without(lines, q.guest)
                        ELSE Without(MergeItems(q), q.guest) \cup {Line(ids[g], q.user, g.unit, g.qty) : g \in Fresh(q)}
            /\ carts' = {c \in carts : c.id # q.guest}
            /\ rows' = rows + Cardinality(Fresh(q))
            /\ twice' = IF q.user # q.guest /\ Gone(q) THEN twice \cup {g.unit : g \in q.seen} ELSE twice
            /\ Done(r)
            /\ UNCHANGED asked
       ELSE Refused(r)

-----------------------------------------------------------------------------
CartEndpoints ==
    \E r \in Requests, owner \in Owners :
        \/ \E unit \in Units, qty \in 1 .. Stock : LoadAdd(r, owner, unit, qty)
        \/ AddItem(r)
        \/ \E line \in Seen(owner), qty \in 1 .. Stock : LoadUpdate(r, owner, line, qty)
        \/ UpdateItem(r)
        \/ \E seen \in SUBSET Seen(owner) : LoadRemove(r, owner, seen)
        \/ RemoveItems(r)

SignIn == \E r \in Requests : LoadGuest(r) \/ LoadUser(r) \/ Reassign(r) \/ Merge(r)

CartNext == CartEndpoints \/ SignIn

CartSpec == CartInit /\ [][CartNext]_cartVars

-----------------------------------------------------------------------------
\* No quantity of unit u, nor two of them together, exceeds what was asked for.
InCartsOnce(u) ==
    LET of == {l \in lines : l.unit = u} IN
    /\ \A l, m \in of : l # m => l.qty + m.qty <= asked[u]
    /\ \A l \in of : l.qty <= asked[u]

\* A cart has one line of a unit, and the carts never hold more pieces of it than were asked for: neither a merge nor an
\* addition to a quantity read before is counted twice, whatever overlaps. The one exception is a unit that two
\* overlapping sign-ins merged from the same guest cart (NothingDuplicated below; cart_service.py).
CountedOnce ==
    /\ \A l, m \in lines : l.unit = m.unit /\ l.cart = m.cart => l = m
    /\ \A u \in Units \ twice : InCartsOnce(u)

\* "nothing is duplicated beyond summing quantities for a product already in both carts" (merge_guest_cart_into_user):
\* no unit is in the carts with more pieces than were asked for, however many sign-ins bring the same guest cart.
NothingDuplicated == \A u \in Units : InCartsOnce(u)

Held == {l.unit : l \in lines}

\* "Anything they added anonymously ends up in their real cart; nothing is lost" (merge_guest_cart_into_user): the
\* end of a sign-in leaves every unit that was in one of the carts in one of them.
NothingLost == [][(\E r \in Requests : Reassign(r) \/ Merge(r)) => Held \subseteq Held']_cartVars
=============================================================================
