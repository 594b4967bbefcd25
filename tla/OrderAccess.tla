---------------------------- MODULE OrderAccess -----------------------------
(***************************************************************************)
(* Whose order it is: the identity side of checkout (the idempotency key's *)
(* scope, the request's fingerprint, where the order ships) and who may    *)
(* read, pay and cancel it (app/modules/orders/services/order_service.py,  *)
(* app/modules/orders/api, POST /payments).                                *)
(*                                                                         *)
(* A signed-in user owns orders by user_id.  A guest's browser owns them   *)
(* by its guest cookie, and pays with a capability that checkout sends in  *)
(* a cookie of that order; every replay of the checkout replaces it, and   *)
(* answers can reach the browser in another order than they were sent in.  *)
(* Stock, coupons and prices are Checkout's.                               *)
(***************************************************************************)
EXTENDS Common, Naturals

CONSTANTS
    Browsers,  \* each with its own guest cookie
    Customers,
    Support,   \* users with orders.read and orders.manage
    Addresses, \* saved addresses
    AddressOf, \* AddressOf[a]: the user it belongs to
    Keys,      \* idempotency keys
    OrderIds,
    MaxTokens, \* bound: capabilities issued
    MaxCookies \* bound: guest cookies of one browser

\* A guest's identity is no user's.
ASSUME GuestsAssumption == None \notin Customers /\ Customers \cap (Browsers \X Nat) = {}

VARIABLES
    login,  \* the user a browser is signed in as, or None
    cookie, \* the guest cookie of a browser: which one since it first came
    order,  \* the orders, None where there is none
    issued, \* capabilities issued so far
    sent,   \* answers on their way: [to, order, token]
    jar,    \* jar[b][o]: the payment cookie a browser holds for an order
    act     \* the last thing done with an order

orderAccessVars == <<login, cookie, order, issued, sent, jar, act>>

\* CartOwner: the user, or the guest cookie of the browser.
Identity(b) == IF login[b] = None THEN <<b, cookie[b]>> ELSE login[b]
IsGuest(b) == login[b] = None

\* What the customer sent that shapes the order: an address given inline, or a saved one.
Request == {"inline"} \cup Addresses

\* The rows of orders; None is none of them.
OrderRows ==
    [owner : Customers \cup (Browsers \X Nat), key : Keys, hash : Request, shipTo : Request, token : Nat \cup {None},
     status : {"pending", "closed"}, expired : BOOLEAN]

ASSUME NoRowAssumption == None \notin OrderRows

\* _request_fingerprint: equal exactly for equal requests.
Fingerprint(request) == request

\* create_order: a user's order or a guest's, with the request's fingerprint and its shipping snapshot.
NewOrder(identity, key, request, shipTo, token) ==
    [owner |-> identity, key |-> key, hash |-> Fingerprint(request), shipTo |-> shipTo, token |-> token,
     status |-> "pending", expired |-> FALSE]

Placed == {o \in OrderIds : order[o] # None}

OrderAccessInit ==
    /\ login = [b \in Browsers |-> None] /\ cookie = [b \in Browsers |-> 1]
    /\ order = [o \in OrderIds |-> None]
    /\ issued = 0 /\ sent = {}
    /\ jar = [b \in Browsers |-> [o \in OrderIds |-> None]]
    /\ act = None

\* login: the guest cart is merged and its cookie deleted; after signing out the browser is a new guest.
LogIn(b, u) ==
    /\ login[b] # u
    /\ login' = [login EXCEPT ![b] = u]
    /\ cookie' = IF IsGuest(b) THEN [cookie EXCEPT ![b] = @ + 1] ELSE cookie
    /\ cookie'[b] <= MaxCookies
    /\ UNCHANGED <<order, issued, sent, jar, act>>

LogOut(b) ==
    /\ ~IsGuest(b)
    /\ login' = [login EXCEPT ![b] = None]
    /\ UNCHANGED <<cookie, order, issued, sent, jar, act>>

-----------------------------------------------------------------------------
\* _resolve_shipping_snapshot: an inline address wins; a guest must give one; a saved one must be the user's own. (The
\* request names one or the other, so that the default address is never resorted to.)
ShipTo(b, request) ==
    IF request = "inline" THEN "inline"
    ELSE IF ~IsGuest(b) /\ AddressOf[request] = login[b] THEN request ELSE None

\* get_by_idempotency_key: within the caller's identity.
Existing(b, key) == {o \in Placed : order[o].owner = Identity(b) /\ order[o].key = key}

\* issue_guest_payment_token: a new capability for a pending guest order, in place of the one before. The answer
\* carries it.
Issue(b, o, written) ==
    IF IsGuest(b) /\ written.status = "pending"
    THEN /\ issued' = issued + 1
         /\ order' = [order EXCEPT ![o] = [written EXCEPT !.token = issued + 1]]
         /\ sent' = sent \cup {[to |-> b, order |-> o, token |-> issued + 1]}
    ELSE order' = [order EXCEPT ![o] = written] /\ UNCHANGED <<issued, sent>>

\* checkout: a repetition finds the order it made, and must ask for the same.
Replay(b, key, request) ==
    /\ issued < MaxTokens
    /\ \E o \in Existing(b, key) : order[o].hash = Fingerprint(request) /\ Issue(b, o, order[o])
    /\ UNCHANGED <<login, cookie, jar, act>>

\* checkout: a new order, shipped to where the customer asked.
Checkout(b, key, request, o) ==
    /\ issued < MaxTokens
    /\ Existing(b, key) = {} /\ o \notin Placed
    /\ ShipTo(b, request) # None
    /\ Issue(b, o, NewOrder(Identity(b), key, request, ShipTo(b, request), None))
    /\ UNCHANGED <<login, cookie, jar, act>>

\* The answer reaches the browser, which keeps the cookie: answers may overtake each other, or be lost.
Deliver(m) ==
    /\ sent' = sent \ {m}
    /\ \/ jar' = [jar EXCEPT ![m.to][m.order] = m.token]
       \/ UNCHANGED jar
    /\ UNCHANGED <<login, cookie, order, issued, act>>

\* The order is paid, or the unpaid-order window passes; the worker that expires orders may not run.
Close(o) ==
    /\ order[o].status = "pending"
    /\ order' = [order EXCEPT ![o].status = "closed"]
    /\ UNCHANGED <<login, cookie, issued, sent, jar, act>>

WindowPasses(o) ==
    /\ ~order[o].expired
    /\ order' = [order EXCEPT ![o].expired = TRUE]
    /\ UNCHANGED <<login, cookie, issued, sent, jar, act>>

-----------------------------------------------------------------------------
\* Mutant: having been given a capability for the order is enough.
CapabilityAny(b, o) == order[o].owner \notin Customers /\ jar[b][o] # None /\ ~order[o].expired

\* authorize_guest_payment: the live capability of exactly this guest order, within the window.
Capability(b, o) ==
    /\ order[o].owner \notin Customers
    /\ order[o].token # None /\ jar[b][o] = order[o].token
    /\ ~order[o].expired

\* get_order: the owner, or staff with the permission.
MayRead(b, o) == login[b] # None /\ (login[b] = order[o].owner \/ login[b] \in Support)

Did(b, o, what, allowedBy) ==
    act' = [by |-> Identity(b), order |-> o, what |-> what, token |-> allowedBy]

\* create_payment: a signed-in user's own order, whatever role they have and whatever cookie the browser holds; a guest
\* needs the capability.
CreatePayment(b, o) ==
    /\ IF IsGuest(b) THEN Capability(b, o) ELSE order[o].owner = login[b]
    /\ order[o].status = "pending"
    /\ Did(b, o, "pay", IF IsGuest(b) THEN jar[b][o] ELSE None)
    /\ UNCHANGED <<login, cookie, order, issued, sent, jar>>

\* cancel_order of the customer or of staff.
CancelOrder(b, o) ==
    /\ MayRead(b, o) /\ order[o].status = "pending"
    /\ order' = [order EXCEPT ![o].status = "closed"]
    /\ Did(b, o, "cancel", None)
    /\ UNCHANGED <<login, cookie, issued, sent, jar>>

\* get_guest_order: the order that carries the browser's guest cookie, whoever is signed in.
GetGuestOrder(b, o) ==
    /\ order[o].owner = <<b, cookie[b]>>
    /\ Did(b, o, "read", None)
    /\ UNCHANGED <<login, cookie, order, issued, sent, jar>>

\* get_order
GetOrder(b, o) ==
    /\ MayRead(b, o)
    /\ Did(b, o, "read", None)
    /\ UNCHANGED <<login, cookie, order, issued, sent, jar>>

\* list_my_orders, list_all_orders
ListOrders(b, o) ==
    /\ ~IsGuest(b)
    /\ o \in (IF login[b] \in Support THEN Placed ELSE {p \in Placed : order[p].owner = login[b]})
    /\ Did(b, o, "read", None)
    /\ UNCHANGED <<login, cookie, order, issued, sent, jar>>

-----------------------------------------------------------------------------
OrderEndpoints(b) ==
    \E o \in OrderIds :
        \/ \E key \in Keys, request \in Request : Checkout(b, key, request, o)
        \/ /\ o \in Placed
           /\ CreatePayment(b, o) \/ CancelOrder(b, o) \/ GetGuestOrder(b, o) \/ GetOrder(b, o) \/ ListOrders(b, o)

OrderAccessNext ==
    \/ \E b \in Browsers :
           \/ OrderEndpoints(b)
           \/ \E key \in Keys, request \in Request : Replay(b, key, request)
           \/ \E u \in Customers : LogIn(b, u)
           \/ LogOut(b)
    \/ \E m \in sent : Deliver(m)
    \/ \E o \in Placed : Close(o) \/ WindowPasses(o)

OrderAccessSpec == OrderAccessInit /\ [][OrderAccessNext]_orderAccessVars

-----------------------------------------------------------------------------
\* Nobody pays for another's order, staff included, and a guest only from the browser that ordered and with the
\* capability issued last, even when retried checkouts answer out of order; others' orders are read and cancelled by
\* staff only
\* (create_payment: "cannot be used to start a payment on another user's order, even by an admin";
\* issue_guest_payment_token: "an earlier capability stops working").
OnlyOwnersAct ==
    act' # act =>
          LET o == order[act'.order] IN
          \/ act'.by = o.owner /\ (act'.what = "pay" => act'.token = o.token)
          \/ act'.by \notin Customers /\ o.owner \notin Customers /\ act'.by[1] = o.owner[1]
             /\ act'.what = "pay" /\ act'.token = o.token
          \/ act'.by \in Support /\ act'.what # "pay"
=============================================================================
