---------------------------- MODULE MCAccounts ------------------------------
(***************************************************************************)
(* Customers and staff for TLC: an account's sessions, who administers the *)
(* shop, what a customer keeps, who may act on an order, and carts. Their  *)
(* models share no state, so a behaviour exercises one of them.            *)
(***************************************************************************)
EXTENDS Sessions, Staff, Shopper, OrderAccess, Cart, TLC

CONSTANTS a1, u1

VARIABLE part   \* the component exercised

\* Three tokens (a rotation and a replay) with one link, or one token with two links.
SmallBounds == {[tokens |-> 3, links |-> 1], [tokens |-> 1, links |-> 2]}

MCAddressOf == (a1 :> u1)

vars == <<part, sessionsVars, staffVars, shopperVars, orderAccessVars, cartVars>>

\* A component that is not exercised has no state.
NoSessions == user = None /\ rt = None /\ link = None /\ req = None /\ bound = None /\ survivors = None /\
              proven = None /\ stale = None
NoStaff == member = None /\ perms = None /\ edit = None /\ changes = None /\ granted = None /\
           reliedOnOld = None
NoShopper == addresses = None /\ doing = None /\ onSale = None /\ bought = None /\ review = None /\
             wishlist = None /\ ids = None
NoOrderAccess == login = None /\ cookie = None /\ order = None /\ issued = None /\ sent = None /\
                 jar = None /\ act = None
NoCart == carts = None /\ lines = None /\ request = None /\ rows = None /\ asked = None /\ twice = None

Init ==
    \/ part = "sessions" /\ SessionsInit /\ NoStaff /\ NoShopper /\ NoOrderAccess /\ NoCart
    \/ part = "staff" /\ StaffInit /\ NoSessions /\ NoShopper /\ NoOrderAccess /\ NoCart
    \/ part = "shopper" /\ ShopperInit /\ NoSessions /\ NoStaff /\ NoOrderAccess /\ NoCart
    \/ part = "access" /\ OrderAccessInit /\ NoSessions /\ NoStaff /\ NoShopper /\ NoCart
    \/ part = "cart" /\ CartInit /\ NoSessions /\ NoStaff /\ NoShopper /\ NoOrderAccess

Next ==
    /\ UNCHANGED part
    /\ \/ /\ part = "sessions" /\ SessionsNext
          /\ UNCHANGED <<staffVars, shopperVars, orderAccessVars, cartVars>>
       \/ /\ part = "staff" /\ StaffNext
          /\ UNCHANGED <<sessionsVars, shopperVars, orderAccessVars, cartVars>>
       \/ /\ part = "shopper" /\ ShopperNext
          /\ UNCHANGED <<sessionsVars, staffVars, orderAccessVars, cartVars>>
       \/ /\ part = "access" /\ OrderAccessNext
          /\ UNCHANGED <<sessionsVars, staffVars, shopperVars, cartVars>>
       \/ /\ part = "cart" /\ CartNext
          /\ UNCHANGED <<sessionsVars, staffVars, shopperVars, orderAccessVars>>

Spec == Init /\ [][Next]_vars

\* Requests are interchangeable.
Symmetry == Permutations(Requests)

-----------------------------------------------------------------------------
\* What an account's credentials promise: a refresh token is exchanged once, an e-mailed link works once, a new password
\* signs out every older session, and a verified address was proven.
Sessions_CredentialsHold == part = "sessions" => CredentialsHold

\* However the changes of administrators interleave, somebody can manage roles and nobody holds what they were not given.
Staff_ShopIsAdministered == part = "staff" => ShopIsAdministered

\* Neither the merge at sign-in nor two requests at once put a unit in a cart twice, unless two sign-ins merge one cart.
Cart_CountedOnce == part = "cart" => CountedOnce

\* A session that was shut down never comes back, not even by a replay in the grace window.
Sessions_DeadStaysDead == [][part = "sessions" => DeadStaysDead]_sessionsVars

\* A review the store hid is seen again only when the store publishes it, whatever edits are under way.
Shopper_HiddenStaysHidden == [][part = "shopper" => HiddenStaysHidden]_shopperVars

\* Addresses and saved products are capped, up to the requests that counted them before the others inserted.
Shopper_ListsStayBounded == part = "shopper" => ListsStayBounded

\* Nobody pays for another's order, and a guest only from the browser that ordered, with the capability issued last.
OrderAccess_OnlyOwnersAct == [][part = "access" => OnlyOwnersAct]_orderAccessVars
=============================================================================
