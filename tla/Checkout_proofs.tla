--------------------------- MODULE Checkout_proofs ---------------------------
(***************************************************************************)
(* For any number of requests, owners, keys, units and edits: stock never  *)
(* falls below zero, a key names one order and is answered with that       *)
(* order, and an order that takes a coupon use keeps within its limits.    *)
(*                                                                         *)
(* None of these is inductive. What carries them are the locks: whoever is *)
(* inside is alone with its owner and key, and no order has them yet;      *)
(* whoever holds rows holds enough stock of units that nobody else holds;  *)
(* and whoever holds the coupon still has a use left.                      *)
(***************************************************************************)
EXTENDS Checkout, Sums_proofs

\* A request that has arrived has an owner and a key.
RequestsAreOwned ==
    \A r \in Requests : req[r].pc # "idle" => req[r].owner \in Owners /\ req[r].key \in Keys

\* Only a finished request has created an order.
OrdersAreFinished == \A r \in Orders : req[r].pc = "done"

\* Nobody is inside for a key that has an order, and nobody is inside twice.
InsideIsExclusive ==
    \A r \in Inside : Existing(req[r].owner, req[r].key) = {} /\ KeyFree(r)

\* Whoever holds the rows of a unit holds enough of it, and holds it alone.
HoldersHaveStock ==
    \A r \in Holding :
        /\ \A u \in Bought(r) : stock[u] >= req[r].lines[u].qty
        /\ \A s \in Holding \ {r} : Bought(s) \cap Bought(r) = {}

\* Whoever holds the coupon holds it alone, and one more use is within its limits.
PricedHasUseLeft ==
    \A r \in Requests : req[r].pc = "priced" =>
        /\ \A s \in Requests \ {r} : req[s].pc # "priced"
        /\ CouponApplies(r)

Inv ==
    /\ TypeOK /\ RequestsAreOwned /\ OrdersAreFinished
    /\ InsideIsExclusive /\ HoldersHaveStock /\ PricedHasUseLeft
    /\ KeyNamesOneOrder /\ AnswersAreOwn

OrderType == [status : {"none", "open", "cancelled", "refunded"},
              owner : Owners \cup {None}, key : Keys \cup {None}, code : BOOLEAN, qty : [Units -> Nat]]
RequestType == [pc : {"idle", "wait", "inside", "locked", "priced", "done"},
                owner : Owners \cup {None}, key : Keys \cup {None},
                code : BOOLEAN, lines : [Units -> LineType], answer : Requests \cup Refusals \cup {None}]

\* An absent row and an idle request are well formed.
LEMMA IdleTypes == NoLine \in LineType /\ Idle \in RequestType /\ NoOrder \in OrderType
<1>1. NoLine \in LineType
  BY DEF NoLine, LineType
<1> QED BY <1>1 DEF Idle, NoOrder, RequestType, OrderType

\* Changing the quantity or the price snapshot of a row leaves a row.
LEMMA LineUpdates ==
    ASSUME NEW l \in LineType, NEW n \in Nat, NEW p \in Prices
    PROVE  [l EXCEPT !.qty = n] \in LineType /\ [l EXCEPT !.snap = p] \in LineType
BY DEF LineType

\* The initial state: carts, no requests and no orders.
LEMMA InitInv == Init => Inv
<1> SUFFICES ASSUME Init PROVE Inv
  OBVIOUS
<1>1. cart \in [Owners -> [Units -> LineType]]
  <2>1. PICK filled \in SUBSET (Owners \X Units) :
          cart = [o \in Owners |-> [u \in Units |->
                    IF <<o, u>> \in filled THEN [qty |-> 1, snap |-> price[u], id |-> 1] ELSE NoLine]]
    BY DEF Init
  <2>2. \A u \in Units : [qty |-> 1, snap |-> price[u], id |-> 1] \in LineType
    BY DEF Init, LineType
  <2> QED BY IdleTypes, <2>1, <2>2
<1>2. TypeOK
  <2>1. stock \in [Units -> Nat] /\ cartEdits \in Nat /\ shopEdits \in Nat
    BY StockAssumption DEF Init
  <2>2. order \in [Requests -> OrderType] /\ req \in [Requests -> RequestType]
    BY IdleTypes DEF Init
  <2>3. coupon \in [on : BOOLEAN, total : Limits, each : Limits]
    BY DEF Init
  <2> QED BY <1>1, <2>1, <2>2, <2>3 DEF Init, TypeOK, RequestType, OrderType
<1>3. Orders = {} /\ Inside = {} /\ Holding = {} /\ \A r \in Requests : req[r].pc = "idle" /\ req[r].answer = None
  BY DEF Init, Orders, Inside, Holding, NoOrder, Idle
<1>4. RequestsAreOwned /\ OrdersAreFinished /\ InsideIsExclusive /\ HoldersHaveStock /\ PricedHasUseLeft
  BY <1>3 DEF RequestsAreOwned, OrdersAreFinished, InsideIsExclusive, HoldersHaveStock, PricedHasUseLeft
<1>5. KeyNamesOneOrder /\ AnswersAreOwn
  BY <1>3, RequestsAssumption DEF KeyNamesOneOrder, AnswersAreOwn, Refusals
<1> QED BY <1>2, <1>4, <1>5 DEF Inv

-----------------------------------------------------------------------------
\* What a request may become while no order, stock or coupon changes: owned; inside only
\* alone with its key; holding only stock that is there and free; answered with its own order.
Becomes(r, q) ==
    /\ q \in RequestType
    /\ req[r].pc # "done"
    /\ q.pc # "idle" => q.owner \in Owners /\ q.key \in Keys
    /\ q.pc \in {"inside", "locked", "priced"} =>
         /\ Existing(q.owner, q.key) = {}
         /\ \A s \in Inside \ {r} : req[s].owner # q.owner \/ req[s].key # q.key
    /\ q.pc \in {"locked", "priced"} =>
         /\ \A u \in Units : q.lines[u].qty > 0 => stock[u] >= q.lines[u].qty
         /\ \A s \in Holding \ {r} : \A u \in Bought(s) : ~(q.lines[u].qty > 0)
    /\ q.pc = "priced" =>
         /\ \A s \in Requests \ {r} : req[s].pc # "priced"
         /\ coupon.on /\ Cardinality(Uses) < coupon.total
         /\ Cardinality(UsesBy(Buyer[q.owner])) < coupon.each
    /\ q.answer # "error"
    /\ q.answer \in Requests =>
         LET e == order[q.answer] IN
         e.status # "none" /\ e.owner = q.owner /\ e.key = q.key /\ e.code = q.code

\* A step that only advances one request (and may refresh carts) keeps the invariant.
LEMMA RequestAdvances ==
    ASSUME Inv, NEW r \in Requests, NEW q, Becomes(r, q),
           req' = [req EXCEPT ![r] = q],
           cart' \in [Owners -> [Units -> LineType]],
           UNCHANGED <<shopVars, order, cartEdits, shopEdits>>
    PROVE  Inv'
<1> USE DEF Inv
<1>1. /\ req \in [Requests -> RequestType]
      /\ req' \in [Requests -> RequestType]
      /\ req'[r] = q
      /\ \A s \in Requests : s # r => req'[s] = req[s]
  BY DEF TypeOK, RequestType, Becomes
<1>2. order' = order /\ stock' = stock /\ coupon' = coupon
  BY DEF shopVars
<1>3. TypeOK'
  BY <1>1 DEF TypeOK, RequestType, shopVars
<1>4. /\ Orders' = Orders /\ Uses' = Uses
      /\ \A o, k : Existing(o, k)' = Existing(o, k)
      /\ \A b : UsesBy(b)' = UsesBy(b)
  BY <1>2 DEF Orders, Uses, Alive, Existing, UsesBy
<1>5. RequestsAreOwned'
  BY <1>1 DEF RequestsAreOwned, Becomes
<1>6. OrdersAreFinished'
  BY <1>1, <1>4 DEF OrdersAreFinished, Becomes, Orders
<1>7. InsideIsExclusive'
  <2> SUFFICES ASSUME NEW s \in Inside', NEW t \in Inside' \ {s}
               PROVE  /\ Existing(req'[s].owner, req'[s].key) = {}
                      /\ req'[t].owner # req'[s].owner \/ req'[t].key # req'[s].key
    <3>1. \A s \in Inside' : Existing(req'[s].owner, req'[s].key) = {}
      BY <1>1 DEF InsideIsExclusive, Inside, Becomes
    <3> QED BY <3>1, <1>4 DEF InsideIsExclusive, KeyFree
  <2>1. Existing(req'[s].owner, req'[s].key) = {}
    BY <1>1 DEF InsideIsExclusive, Inside, Becomes
  <2>2. req'[t].owner # req'[s].owner \/ req'[t].key # req'[s].key
    BY <1>1 DEF InsideIsExclusive, Inside, Becomes, KeyFree
  <2> QED BY <2>1, <2>2
<1>8. HoldersHaveStock'
  BY <1>1, <1>2 DEF HoldersHaveStock, Holding, Bought, Becomes
<1>9. PricedHasUseLeft'
  <2> SUFFICES ASSUME NEW s \in Requests, req'[s].pc = "priced"
               PROVE  /\ \A t \in Requests \ {s} : req'[t].pc # "priced"
                      /\ coupon.on /\ Cardinality(Uses) < coupon.total
                      /\ Cardinality(UsesBy(Buyer[req'[s].owner])) < coupon.each
    BY <1>2, <1>4 DEF PricedHasUseLeft, CouponApplies
  <2> QED BY <1>1 DEF PricedHasUseLeft, CouponApplies, Becomes
<1>10. KeyNamesOneOrder'
  BY <1>1, <1>2, <1>4 DEF KeyNamesOneOrder, Becomes
<1>11. AnswersAreOwn'
  BY <1>1, <1>2 DEF AnswersAreOwn, Becomes
<1> QED BY <1>3, <1>5, <1>6, <1>7, <1>8, <1>9, <1>10, <1>11

\* A request that ends with an answer of its own meets these conditions.
LEMMA Answering ==
    ASSUME Inv, NEW r \in Requests, req[r].pc \notin {"idle", "done"},
           NEW answer \in Requests \cup Refusals, answer # "error",
           answer \in Requests =>
             LET e == order[answer] IN
             e.status # "none" /\ e.owner = req[r].owner /\ e.key = req[r].key /\ e.code = req[r].code
    PROVE  Becomes(r, [req[r] EXCEPT !.pc = "done", !.answer = answer, !.lines = Idle.lines])
<1> DEFINE q == [req[r] EXCEPT !.pc = "done", !.answer = answer, !.lines = Idle.lines]
<1>1. req[r] \in RequestType
  BY DEF Inv, TypeOK, RequestType
<1>2. Idle.lines \in [Units -> LineType]
  BY IdleTypes DEF RequestType
<1>3. /\ q \in RequestType /\ q.pc = "done" /\ q.answer = answer
      /\ q.owner = req[r].owner /\ q.key = req[r].key /\ q.code = req[r].code
  BY <1>1, <1>2 DEF RequestType
<1>4. q.owner \in Owners /\ q.key \in Keys
  BY <1>3 DEF Inv, RequestsAreOwned
<1> HIDE DEF q
<1>5. Becomes(r, q)
  BY <1>3, <1>4 DEF Becomes
<1> QED BY <1>5 DEF q

\* An answered request keeps the invariant when only carts change besides.
LEMMA AnsweredInv ==
    ASSUME Inv, NEW r \in Requests, req[r].pc \notin {"idle", "done"},
           NEW answer \in Requests \cup Refusals, answer # "error",
           answer \in Requests =>
             LET e == order[answer] IN
             e.status # "none" /\ e.owner = req[r].owner /\ e.key = req[r].key /\ e.code = req[r].code,
           Answered(r, answer),
           cart' \in [Owners -> [Units -> LineType]],
           UNCHANGED <<shopVars, order, cartEdits, shopEdits>>
    PROVE  Inv'
<1> DEFINE q == [req[r] EXCEPT !.pc = "done", !.answer = answer, !.lines = Idle.lines]
<1>1. Becomes(r, q)
  BY Answering
<1>2. req' = [req EXCEPT ![r] = q]
  BY DEF Answered
<1> HIDE DEF q
<1> QED BY <1>1, <1>2, RequestAdvances

\* A request arrives.
LEMMA ArriveInv ==
    ASSUME Inv, NEW r \in Requests, NEW o \in Owners, NEW k \in Keys, NEW code \in BOOLEAN,
           Arrive(r, o, k, code)
    PROVE  Inv'
<1> DEFINE q == [Idle EXCEPT !.pc = "wait", !.owner = o, !.key = k, !.code = code]
<1>1. q \in RequestType /\ q.pc = "wait" /\ q.owner = o /\ q.key = k /\ q.answer = None
  BY IdleTypes DEF RequestType, Idle
<1>2. req' = [req EXCEPT ![r] = q] /\ req[r].pc = "idle"
  BY DEF Arrive
<1>3. cart' \in [Owners -> [Units -> LineType]] /\ UNCHANGED <<shopVars, order, cartEdits, shopEdits>>
  BY DEF Arrive, Inv, TypeOK
<1> HIDE DEF q
<1>4. Becomes(r, q)
  BY <1>1, <1>2, RequestsAssumption DEF Becomes, Refusals
<1> QED BY <1>2, <1>3, <1>4, RequestAdvances

\* A retry is answered with the order made earlier, or refused.
LEMMA ReplayInv == ASSUME Inv, NEW r \in Requests, Replay(r) PROVE Inv'
<1>1. PICK e \in Existing(req[r].owner, req[r].key) :
        (order[e].code = req[r].code /\ Answered(r, e)) \/ Answered(r, "conflict")
  BY DEF Replay
<1>2. e \in Requests /\ order[e].status # "none" /\ order[e].owner = req[r].owner /\ order[e].key = req[r].key
  BY DEF Existing, Orders
<1>3. PICK answer \in {e, "conflict"} : Answered(r, answer) /\ (answer = e => order[e].code = req[r].code \/ e = "conflict")
  BY <1>1
<1>4. "conflict" \notin Requests /\ "error" \notin Requests /\ {"conflict", "error"} \subseteq Refusals
  BY RequestsAssumption DEF Refusals
<1>5. /\ req[r].pc \notin {"idle", "done"}
      /\ cart' \in [Owners -> [Units -> LineType]]
      /\ UNCHANGED <<shopVars, order, cartEdits, shopEdits>>
  BY DEF Replay, Inv, TypeOK
<1>6. /\ answer \in Requests \cup Refusals
      /\ answer # "error"
      /\ answer \in Requests => answer = e /\ order[e].code = req[r].code
  BY <1>2, <1>3, <1>4
<1> QED BY <1>2, <1>3, <1>5, <1>6, AnsweredInv

\* A new purchase enters: it is the only one inside with its key, and no order has the key.
LEMMA ReadCartInv == ASSUME Inv, NEW r \in Requests, ReadCart(r) PROVE Inv'
<1> DEFINE q == [req[r] EXCEPT !.pc = "inside", !.lines = cart[req[r].owner]]
<1>1. /\ req[r].pc = "wait" /\ cart' \in [Owners -> [Units -> LineType]]
      /\ UNCHANGED <<shopVars, order, cartEdits, shopEdits>>
  BY DEF ReadCart, Inv, TypeOK
<1>2. CASE Answered(r, "refused")
  <2>1. "refused" \notin Requests /\ "refused" \in Refusals
    BY RequestsAssumption DEF Refusals
  <2> QED BY <1>1, <1>2, <2>1, AnsweredInv
<1>3. CASE req' = [req EXCEPT ![r].pc = "inside", ![r].lines = cart[req[r].owner]]
  <2>1. req[r] \in RequestType /\ req[r].owner \in Owners /\ req[r].key \in Keys
    BY <1>1 DEF Inv, TypeOK, RequestType, RequestsAreOwned
  <2>2. cart[req[r].owner] \in [Units -> LineType]
    BY <2>1 DEF Inv, TypeOK
  <2>3. /\ q \in RequestType /\ q.pc = "inside" /\ q.answer = req[r].answer
        /\ q.owner = req[r].owner /\ q.key = req[r].key /\ q.code = req[r].code
    BY <2>1, <2>2 DEF RequestType
  <2>4. req' = [req EXCEPT ![r] = q]
    BY <1>3 DEF Inv, TypeOK
  <2>5. Existing(req[r].owner, req[r].key) = {} /\ KeyFree(r)
    BY DEF ReadCart
  <2> HIDE DEF q
  <2>6. Becomes(r, q)
    BY <1>1, <2>1, <2>3, <2>5 DEF Becomes, KeyFree, Inv, AnswersAreOwn, KeyNamesOneOrder
  <2> QED BY <1>1, <2>4, <2>6, RequestAdvances
<1> QED BY <1>2, <1>3 DEF ReadCart

\* A refused request leaves nothing behind.
LEMMA RefuseInv == ASSUME Inv, NEW r \in Requests, Refuse(r) PROVE Inv'
<1>1. "refused" \notin Requests /\ "refused" \in Refusals
  BY RequestsAssumption DEF Refusals
<1>2. /\ req[r].pc \notin {"idle", "done"} /\ Answered(r, "refused")
      /\ cart' \in [Owners -> [Units -> LineType]]
      /\ UNCHANGED <<shopVars, order, cartEdits, shopEdits>>
  BY DEF Refuse, Inside, Inv, TypeOK
<1> QED BY <1>1, <1>2, AnsweredInv

\* New prices reach the cart and nothing else.
LEMMA PriceChangedInv == ASSUME Inv, NEW r \in Requests, PriceChanged(r) PROVE Inv'
<1>1. "price_changed" \notin Requests /\ "price_changed" \in Refusals
  BY RequestsAssumption DEF Refusals
<1>2. /\ req[r].pc = "inside" /\ Answered(r, "price_changed")
      /\ UNCHANGED <<shopVars, order, cartEdits, shopEdits>>
  BY DEF PriceChanged
<1>3. cart' \in [Owners -> [Units -> LineType]]
  <2>1. \A o \in Owners, u \in Units : cart[o][u] \in LineType /\ price[u] \in Prices
    BY DEF Inv, TypeOK
  <2>2. \A o \in Owners, u \in Units : [cart[o][u] EXCEPT !.snap = price[u]] \in LineType
    BY <2>1, LineUpdates
  <2> QED BY <2>2 DEF PriceChanged, Inv, TypeOK
<1> QED BY <1>1, <1>2, <1>3, AnsweredInv

\* A request that locks its units finds enough of each, and nobody else holds them.
LEMMA LockUnitsInv == ASSUME Inv, NEW r \in Requests, LockUnits(r) PROVE Inv'
<1> DEFINE q == [req[r] EXCEPT !.pc = "locked"]
<1>1. /\ req[r].pc = "inside" /\ cart' \in [Owners -> [Units -> LineType]]
      /\ UNCHANGED <<shopVars, order, cartEdits, shopEdits>>
      /\ r \in Inside
  BY DEF LockUnits, Inv, TypeOK, Inside
<1>2. req[r] \in RequestType /\ req[r].owner \in Owners /\ req[r].key \in Keys
  BY <1>1 DEF Inv, TypeOK, RequestType, RequestsAreOwned
<1>3. /\ q \in RequestType /\ q.pc = "locked" /\ q.answer = req[r].answer /\ q.lines = req[r].lines
      /\ q.owner = req[r].owner /\ q.key = req[r].key /\ q.code = req[r].code
  BY <1>2 DEF RequestType
<1>4. req' = [req EXCEPT ![r] = q]
  BY DEF LockUnits, Inv, TypeOK
<1>5. Existing(req[r].owner, req[r].key) = {} /\ KeyFree(r)
  BY <1>1 DEF Inv, InsideIsExclusive
<1>6. /\ \A u \in Units : req[r].lines[u].qty > 0 => stock[u] >= req[r].lines[u].qty
      /\ \A s \in Holding \ {r} : \A u \in Bought(s) : ~(req[r].lines[u].qty > 0)
  BY DEF LockUnits, Enough, UnitsFree, Bought
<1> HIDE DEF q
<1>7. Becomes(r, q)
  BY <1>1, <1>2, <1>3, <1>5, <1>6 DEF Becomes, KeyFree, Inv, AnswersAreOwn, KeyNamesOneOrder
<1> QED BY <1>1, <1>4, <1>7, RequestAdvances

\* A request that locks the coupon finds a use left.
LEMMA LockCouponInv == ASSUME Inv, NEW r \in Requests, LockCoupon(r) PROVE Inv'
<1> DEFINE q == [req[r] EXCEPT !.pc = "priced"]
<1>1. /\ req[r].pc = "locked" /\ cart' \in [Owners -> [Units -> LineType]]
      /\ UNCHANGED <<shopVars, order, cartEdits, shopEdits>>
      /\ r \in Inside /\ r \in Holding
  BY DEF LockCoupon, Inv, TypeOK, Inside, Holding
<1>2. req[r] \in RequestType /\ req[r].owner \in Owners /\ req[r].key \in Keys
  BY <1>1 DEF Inv, TypeOK, RequestType, RequestsAreOwned
<1>3. /\ q \in RequestType /\ q.pc = "priced" /\ q.answer = req[r].answer /\ q.lines = req[r].lines
      /\ q.owner = req[r].owner /\ q.key = req[r].key /\ q.code = req[r].code
  BY <1>2 DEF RequestType
<1>4. req' = [req EXCEPT ![r] = q]
  BY DEF LockCoupon, Inv, TypeOK
<1>5. Existing(req[r].owner, req[r].key) = {} /\ KeyFree(r)
  BY <1>1 DEF Inv, InsideIsExclusive
<1>6. /\ \A u \in Units : req[r].lines[u].qty > 0 => stock[u] >= req[r].lines[u].qty
      /\ \A s \in Holding \ {r} : \A u \in Bought(s) : ~(req[r].lines[u].qty > 0)
  BY <1>1 DEF Inv, HoldersHaveStock, Bought
<1>7. /\ \A s \in Requests \ {r} : req[s].pc # "priced"
      /\ coupon.on /\ Cardinality(Uses) < coupon.total
      /\ Cardinality(UsesBy(Buyer[req[r].owner])) < coupon.each
  BY DEF LockCoupon, CouponFree, CouponApplies
<1> HIDE DEF q
<1>8. Becomes(r, q)
  BY <1>1, <1>2, <1>3, <1>5, <1>6, <1>7 DEF Becomes, KeyFree, Inv, AnswersAreOwn, KeyNamesOneOrder
<1> QED BY <1>1, <1>4, <1>8, RequestAdvances

-----------------------------------------------------------------------------
\* PlaceOrder never meets the unique constraint: it creates the order.
LEMMA PlacesOrder ==
    ASSUME Inv, NEW r \in Requests, PlaceOrder(r)
    PROVE  /\ r \in Inside /\ r \in Holding /\ r \notin Orders
           /\ req[r].owner \in Owners /\ req[r].key \in Keys
           /\ req[r].code => req[r].pc = "priced"
           /\ Existing(req[r].owner, req[r].key) = {}
           /\ stock' = [u \in Units |-> stock[u] - req[r].lines[u].qty]
           /\ order' = [order EXCEPT ![r] = [status |-> "open", owner |-> req[r].owner, key |-> req[r].key,
                                             code |-> req[r].code, qty |-> Quantities(req[r].lines)]]
           /\ cart' = [cart EXCEPT ![req[r].owner] =
                          [u \in Units |-> IF StillThere(r, u) THEN [@[u] EXCEPT !.qty = 0] ELSE @[u]]]
           /\ Answered(r, r)
<1>1. req[r].pc \in {"locked", "priced"} /\ (req[r].code => req[r].pc = "priced")
  BY DEF PlaceOrder
<1>2. r \in Inside /\ r \in Holding /\ r \notin Orders
  BY <1>1 DEF Inside, Holding, Inv, OrdersAreFinished
<1>3. Existing(req[r].owner, req[r].key) = {}
  BY <1>2 DEF Inv, InsideIsExclusive
<1>4. req[r].owner \in Owners /\ req[r].key \in Keys
  BY <1>1 DEF Inv, RequestsAreOwned
<1> QED BY <1>1, <1>2, <1>3, <1>4 DEF PlaceOrder

\* Creating an order: stock stays natural, and the key, the units and the coupon use that
\* it takes are nobody else's.
LEMMA PlaceOrderInv == ASSUME Inv, NEW r \in Requests, PlaceOrder(r) PROVE Inv'
<1> DEFINE q == [req[r] EXCEPT !.pc = "done", !.answer = r, !.lines = Idle.lines]
           new == [status |-> "open", owner |-> req[r].owner, key |-> req[r].key,
                   code |-> req[r].code, qty |-> Quantities(req[r].lines)]
<1>a. /\ r \in Inside /\ r \in Holding /\ r \notin Orders
      /\ req[r].owner \in Owners /\ req[r].key \in Keys
      /\ req[r].code => req[r].pc = "priced"
      /\ Existing(req[r].owner, req[r].key) = {}
  BY PlacesOrder
<1>b. stock' = [u \in Units |-> stock[u] - req[r].lines[u].qty]
  BY PlacesOrder
<1>c. cart' = [cart EXCEPT ![req[r].owner] =
                 [u \in Units |-> IF StillThere(r, u) THEN [@[u] EXCEPT !.qty = 0] ELSE @[u]]]
  BY PlacesOrder
<1>1. req[r] \in RequestType /\ req \in [Requests -> RequestType] /\ order \in [Requests -> OrderType]
  BY DEF Inv, TypeOK, RequestType, OrderType
<1>2. \A u \in Units : req[r].lines[u].qty \in Nat
  BY <1>1 DEF RequestType, LineType
<1>3. /\ q \in RequestType /\ q.pc = "done" /\ q.answer = r
      /\ q.owner = req[r].owner /\ q.key = req[r].key /\ q.code = req[r].code
  BY <1>1, IdleTypes DEF RequestType
<1>4. /\ new \in OrderType /\ new.status = "open" /\ new.owner = req[r].owner
      /\ new.key = req[r].key /\ new.code = req[r].code
  BY <1>1, <1>2 DEF OrderType, RequestType, Quantities
<1>5. req' = [req EXCEPT ![r] = q] /\ order' = [order EXCEPT ![r] = new]
  BY PlacesOrder DEF Answered
<1> HIDE DEF q, new
<1>6. /\ req'[r] = q /\ \A s \in Requests : s # r => req'[s] = req[s]
      /\ order'[r] = new /\ \A s \in Requests : s # r => order'[s] = order[s]
      /\ req' \in [Requests -> RequestType] /\ order' \in [Requests -> OrderType]
  BY <1>1, <1>3, <1>4, <1>5
<1>7. Orders' = Orders \cup {r}
  BY <1>4, <1>6 DEF Orders
<1>8. TypeOK'
  <2>1. \A u \in Units : stock[u] - req[r].lines[u].qty \in Nat
    <3> SUFFICES ASSUME NEW u \in Units PROVE stock[u] - req[r].lines[u].qty \in Nat
      OBVIOUS
    <3>1. stock[u] \in Nat /\ req[r].lines[u].qty \in Nat
      BY <1>2 DEF Inv, TypeOK
    <3>2. req[r].lines[u].qty > 0 => stock[u] >= req[r].lines[u].qty
      BY <1>a DEF Inv, HoldersHaveStock, Bought
    <3> QED BY <3>1, <3>2
  <2>2. stock' \in [Units -> Nat]
    BY <1>b, <2>1
  <2>3. \A o \in Owners, u \in Units : cart[o][u] \in LineType /\ price[u] \in Prices
    BY DEF Inv, TypeOK
  <2>4. \A o \in Owners, u \in Units : [cart[o][u] EXCEPT !.qty = 0] \in LineType
    BY <2>3, LineUpdates
  <2>5. cart' \in [Owners -> [Units -> LineType]]
    BY <1>a, <1>c, <2>3, <2>4 DEF Inv, TypeOK
  <2> QED BY <1>6, <2>2, <2>5 DEF Inv, TypeOK, PlaceOrder, RequestType, OrderType
<1>9. RequestsAreOwned' /\ OrdersAreFinished'
  <2>1. RequestsAreOwned'
    BY <1>a, <1>3, <1>6 DEF Inv, RequestsAreOwned
  <2>2. OrdersAreFinished'
    BY <1>3, <1>6, <1>7 DEF Inv, OrdersAreFinished, Orders
  <2> QED BY <2>1, <2>2
<1>10. Inside' = Inside \ {r} /\ Holding' = Holding \ {r}
  BY <1>3, <1>6 DEF Inside, Holding
<1>11. InsideIsExclusive'
  <2> SUFFICES ASSUME NEW s \in Inside'
               PROVE  Existing(req[s].owner, req[s].key)' = {} /\ KeyFree(s)'
    BY <1>6, <1>10 DEF InsideIsExclusive, Inside, Existing
  <2>1. s \in Inside /\ s # r /\ s \in Requests /\ req'[s] = req[s]
    BY <1>6, <1>10 DEF Inside
  <2>2. req[s].owner # req[r].owner \/ req[s].key # req[r].key
    BY <2>1, <1>a DEF Inv, InsideIsExclusive, KeyFree
  <2>3. Existing(req[s].owner, req[s].key) = {} /\ KeyFree(s)
    BY <2>1 DEF Inv, InsideIsExclusive
  <2>4. Existing(req[s].owner, req[s].key)' = {}
    BY <1>4, <1>6, <1>7, <2>1, <2>2, <2>3 DEF Existing, Orders
  <2>5. KeyFree(s)'
    BY <1>6, <1>10, <2>1, <2>3 DEF KeyFree, Inside
  <2> QED BY <2>4, <2>5
<1>12. HoldersHaveStock'
  <2>1. \A s \in Holding' : s \in Holding /\ s # r /\ s \in Requests /\ Bought(s)' = Bought(s) /\ req'[s] = req[s]
    BY <1>6, <1>10 DEF Holding, Bought
  <2>2. \A s \in Holding' : \A u \in Bought(s) : stock'[u] = stock[u]
    <3> SUFFICES ASSUME NEW s \in Holding', NEW u \in Bought(s) PROVE stock'[u] = stock[u]
      OBVIOUS
    <3>1. u \in Units /\ u \notin Bought(r)
      BY <2>1, <1>a DEF Inv, HoldersHaveStock, Bought
    <3>2. req[r].lines[u].qty = 0
      BY <1>2, <3>1 DEF Bought
    <3>3. stock[u] \in Nat /\ stock'[u] = stock[u] - req[r].lines[u].qty
      BY <1>b, <3>1 DEF Inv, TypeOK
    <3> QED BY <3>2, <3>3
  <2> QED BY <1>10, <2>1, <2>2 DEF Inv, HoldersHaveStock
<1>13. PricedHasUseLeft'
  <2> SUFFICES ASSUME NEW s \in Requests, req'[s].pc = "priced"
               PROVE  /\ \A t \in Requests \ {s} : req'[t].pc # "priced"
                      /\ CouponApplies(s)'
    BY DEF PricedHasUseLeft
  <2>1. s # r /\ req'[s] = req[s] /\ req[s].pc = "priced"
    BY <1>3, <1>6
  <2>2. \A t \in Requests \ {s} : req[t].pc # "priced"
    BY <2>1 DEF Inv, PricedHasUseLeft
  <2>3. ~req[r].code
    BY <1>a, <2>1, <2>2
  <2>4. Uses' = Uses
    BY <1>4, <1>6, <2>3, <1>a DEF Uses, Alive, Orders
  <2>5. \A b : UsesBy(b)' = UsesBy(b)
    BY <1>4, <1>6, <2>3, <2>4, <1>a DEF UsesBy, Uses, Alive, Orders
  <2>6. CouponApplies(s)
    BY <2>1 DEF Inv, PricedHasUseLeft
  <2>7. coupon' = coupon
    BY DEF PlaceOrder
  <2>8. CouponApplies(s)'
    BY <2>1, <2>4, <2>5, <2>6, <2>7 DEF CouponApplies
  <2>9. \A t \in Requests \ {s} : req'[t].pc # "priced"
    BY <1>3, <1>6, <2>2
  <2> QED BY <2>8, <2>9
<1>14. KeyNamesOneOrder'
  <2>1. \A s \in Orders : order[s].owner # req[r].owner \/ order[s].key # req[r].key
    BY <1>a DEF Existing
  <2>2. \A s \in Requests : req'[s].answer # "error"
    BY <1>3, <1>6, RequestsAssumption DEF Inv, KeyNamesOneOrder, Refusals
  <2>3. \A s, t \in Orders' : order'[s].owner = order'[t].owner /\ order'[s].key = order'[t].key => s = t
    BY <1>4, <1>6, <1>7, <2>1 DEF Inv, KeyNamesOneOrder, Orders
  <2> QED BY <2>2, <2>3 DEF KeyNamesOneOrder
<1>15. AnswersAreOwn'
  <2> SUFFICES ASSUME NEW s \in Requests, req'[s].answer \in Requests
               PROVE  LET e == order'[req'[s].answer] IN
                      /\ e.status # "none" /\ e.owner = req'[s].owner
                      /\ e.key = req'[s].key /\ e.code = req'[s].code
    BY DEF AnswersAreOwn
  <2>1. CASE s = r
    BY <1>3, <1>4, <1>6, <2>1
  <2>2. CASE s # r
    <3>1. req'[s] = req[s] /\ req[s].answer \in Orders
      BY <1>6, <2>2 DEF Inv, AnswersAreOwn, Orders
    <3>2. order'[req[s].answer] = order[req[s].answer]
      BY <1>a, <1>6, <3>1 DEF Orders
    <3> QED BY <3>1, <3>2 DEF Inv, AnswersAreOwn, Orders
  <2> QED BY <2>1, <2>2
<1> QED BY <1>8, <1>9, <1>11, <1>12, <1>13, <1>14, <1>15 DEF Inv

-----------------------------------------------------------------------------
\* A step of somebody else: the requests stay, stock does not fall, no order appears or
\* changes hands, and no order becomes a use of the coupon again.
LEMMA OthersKeepInv ==
    ASSUME Inv, TypeOK', req' = req,
           \A u \in Units : stock'[u] >= stock[u],
           \A r \in Requests : /\ (order'[r].status = "none") <=> (order[r].status = "none")
                               /\ order'[r].status = "open" => order[r].status = "open"
                               /\ order'[r].owner = order[r].owner /\ order'[r].key = order[r].key
                               /\ order'[r].code = order[r].code,
           coupon' = coupon \/ CouponFree
    PROVE  Inv'
<1> USE DEF Inv
<1>1. /\ Orders' = Orders /\ Inside' = Inside /\ Holding' = Holding
      /\ \A o, k : Existing(o, k)' = Existing(o, k)
      /\ \A r : Bought(r)' = Bought(r)
  BY DEF Orders, Inside, Holding, Existing, Bought
<1>2. RequestsAreOwned' /\ OrdersAreFinished'
  BY <1>1 DEF RequestsAreOwned, OrdersAreFinished
<1>3. InsideIsExclusive'
  BY <1>1 DEF InsideIsExclusive, KeyFree
<1>4. HoldersHaveStock'
  <2> SUFFICES ASSUME NEW r \in Holding, NEW u \in Bought(r) PROVE stock'[u] >= req[r].lines[u].qty
    BY <1>1 DEF HoldersHaveStock
  <2>1. stock[u] >= req[r].lines[u].qty /\ u \in Units /\ r \in Requests
    BY DEF HoldersHaveStock, Holding, Bought
  <2>2. stock[u] \in Nat /\ stock'[u] \in Nat /\ stock'[u] >= stock[u]
    BY <2>1 DEF TypeOK
  <2>3. req[r].lines[u].qty \in Nat
    BY <2>1 DEF TypeOK, LineType
  <2> QED BY <2>1, <2>2, <2>3
<1>5. PricedHasUseLeft'
  <2> SUFFICES ASSUME NEW r \in Requests, req[r].pc = "priced" PROVE CouponApplies(r)'
    BY DEF PricedHasUseLeft
  <2>1. coupon' = coupon /\ CouponApplies(r)
    BY DEF PricedHasUseLeft, CouponFree
  <2>2. Uses' \subseteq Uses /\ UsesBy(Buyer[req[r].owner])' \subseteq UsesBy(Buyer[req[r].owner])
    BY DEF Uses, UsesBy, Alive
  <2>3. IsFiniteSet(Uses) /\ IsFiniteSet(UsesBy(Buyer[req[r].owner]))
    BY RequestsAssumption, FS_Subset DEF Uses, UsesBy, Alive
  <2>4. /\ Cardinality(Uses') <= Cardinality(Uses)
        /\ Cardinality(UsesBy(Buyer[req[r].owner])') <= Cardinality(UsesBy(Buyer[req[r].owner]))
        /\ Cardinality(Uses) \in Nat /\ Cardinality(Uses') \in Nat
        /\ Cardinality(UsesBy(Buyer[req[r].owner])) \in Nat
        /\ Cardinality(UsesBy(Buyer[req[r].owner])') \in Nat
    BY <2>2, <2>3, FS_Subset, FS_CardinalityType
  <2>5. coupon.total \in Nat /\ coupon.each \in Nat
    BY LimitsAssumption DEF TypeOK
  <2> QED BY <2>1, <2>4, <2>5 DEF CouponApplies
<1>6. KeyNamesOneOrder'
  BY <1>1 DEF KeyNamesOneOrder, Orders
<1>7. AnswersAreOwn'
  BY DEF AnswersAreOwn
<1> QED BY <1>2, <1>3, <1>4, <1>5, <1>6, <1>7

\* A customer edits a cart.
LEMMA EditCartInv ==
    ASSUME Inv, NEW o \in Owners, NEW u \in Units, NEW n \in 0..MaxStock, EditCart(o, u, n)
    PROVE  Inv'
<1>1. cart[o][u] \in LineType /\ price[u] \in Prices /\ n \in Nat
  BY StockAssumption DEF Inv, TypeOK
<1>2. [cart[o][u] EXCEPT !.qty = n] \in LineType
  BY <1>1, LineUpdates
<1>3. [qty |-> n, snap |-> price[u], id |-> cart[o][u].id + 1] \in LineType
  BY <1>1 DEF LineType
<1>4. cart' \in [Owners -> [Units -> LineType]]
  BY <1>2, <1>3 DEF EditCart, Inv, TypeOK
<1>5. TypeOK'
  BY <1>4 DEF EditCart, Inv, TypeOK, shopVars
<1>6. req' = req /\ stock' = stock /\ order' = order /\ coupon' = coupon
  BY DEF EditCart, shopVars
<1>7. \A v \in Units : stock'[v] >= stock[v]
  BY <1>6 DEF Inv, TypeOK
<1> QED BY <1>5, <1>6, <1>7, OthersKeepInv

\* An administrator edits the catalogue or the coupon.
LEMMA EditShopInv == ASSUME Inv, EditShop PROVE Inv'
<1>1. req' = req /\ stock' = stock /\ order' = order /\ cart' = cart /\ cartEdits' = cartEdits
  BY DEF EditShop
<1>2. price' \in [Units -> Prices] /\ onSale' \subseteq Units
  <2>1. price' = price \/ \E u \in Units, p \in Prices : price' = [price EXCEPT ![u] = p]
    BY DEF EditShop
  <2>2. onSale' = onSale \/ \E u \in Units : onSale' = onSale \ {u} \/ onSale' = onSale \cup {u}
    BY DEF EditShop
  <2> QED BY <2>1, <2>2 DEF Inv, TypeOK
<1>3. coupon' \in [on : BOOLEAN, total : Limits, each : Limits] /\ (coupon' = coupon \/ CouponFree)
  BY DEF EditShop, Inv, TypeOK
<1>4. shopEdits' \in Nat
  BY DEF EditShop, Inv, TypeOK
<1>5. TypeOK'
  BY <1>1, <1>2, <1>3, <1>4 DEF Inv, TypeOK
<1>6. \A v \in Units : stock'[v] >= stock[v]
  BY <1>1 DEF Inv, TypeOK
<1> QED BY <1>1, <1>3, <1>5, <1>6, OthersKeepInv

\* An order leaves the live ones: cancelled with its stock, or refunded without.
LEMMA OrderEndsInv ==
    ASSUME Inv, NEW r \in Requests, Release(r) \/ RefundShipped(r)
    PROVE  Inv'
<1>1. PICK status \in {"cancelled", "refunded"} : order' = [order EXCEPT ![r].status = status]
  BY DEF Release, RefundShipped
<1>2. order[r].status = "open" /\ order[r] \in OrderType /\ order \in [Requests -> OrderType]
  BY DEF Release, RefundShipped, Releasable, Alive, Inv, TypeOK, OrderType
<1>3. order' \in [Requests -> OrderType]
  BY <1>1, <1>2 DEF OrderType
<1>4. \A s \in Requests : /\ (order'[s].status = "none") <=> (order[s].status = "none")
                          /\ order'[s].status = "open" => order[s].status = "open"
                          /\ order'[s].owner = order[s].owner /\ order'[s].key = order[s].key
                          /\ order'[s].code = order[s].code
  BY <1>1, <1>2 DEF OrderType
<1>5. stock' \in [Units -> Nat] /\ \A u \in Units : stock'[u] >= stock[u]
  <2>1. \A u \in Units : stock[u] \in Nat /\ order[r].qty[u] \in Nat
    BY <1>2 DEF Inv, TypeOK, OrderType
  <2>2. stock' = stock \/ stock' = [u \in Units |-> stock[u] + order[r].qty[u]]
    BY DEF Release, RefundShipped, shopVars
  <2>3. CASE stock' = stock
    BY <2>1, <2>3 DEF Inv, TypeOK
  <2>4. CASE stock' = [u \in Units |-> stock[u] + order[r].qty[u]]
    BY <2>1, <2>4
  <2> QED BY <2>2, <2>3, <2>4
<1>6. UNCHANGED <<price, onSale, coupon, cart, req, cartEdits, shopEdits>>
  BY DEF Release, RefundShipped, shopVars
<1>7. TypeOK'
  BY <1>3, <1>5, <1>6 DEF Inv, TypeOK, OrderType
<1> QED BY <1>4, <1>5, <1>6, <1>7, OthersKeepInv

\* Every step keeps the invariant.
LEMMA StepInv == Inv /\ [Next]_vars => Inv'
<1> SUFFICES ASSUME Inv, [Next]_vars PROVE Inv'
  OBVIOUS
<1>1. CASE \E r \in Requests : RequestStep(r)
  BY <1>1, ReplayInv, ReadCartInv, LockUnitsInv, LockCouponInv, RefuseInv, PriceChangedInv, PlaceOrderInv
     DEF RequestStep
<1>2. CASE \E r \in Requests : Release(r) \/ RefundShipped(r)
  BY <1>2, OrderEndsInv
<1>3. CASE \E r \in Requests : \E o \in Owners, k \in Keys, code \in BOOLEAN : Arrive(r, o, k, code)
  BY <1>3, ArriveInv
<1>4. CASE \E o \in Owners, u \in Units, q \in 0..MaxStock : EditCart(o, u, q)
  BY <1>4, EditCartInv
<1>5. CASE EditShop
  BY <1>5, EditShopInv
<1>6. CASE UNCHANGED vars
  <2>1. TypeOK' /\ req' = req /\ stock' = stock /\ order' = order /\ coupon' = coupon
    BY <1>6 DEF vars, Inv, TypeOK
  <2>2. \A u \in Units : stock'[u] >= stock[u]
    BY <2>1 DEF Inv, TypeOK
  <2> QED BY <2>1, <2>2, OthersKeepInv
<1> QED BY <1>1, <1>2, <1>3, <1>4, <1>5, <1>6 DEF Next

-----------------------------------------------------------------------------
\* Only the creation of an order takes a coupon use.
LEMMA UseTaken ==
    ASSUME Inv, Next, NEW r \in Requests, r \in Uses' \ Uses
    PROVE  PlaceOrder(r)
<1> USE DEF Inv
<1>1. order'[r].status = "open" /\ order'[r].code /\ order'[r] # order[r]
  BY DEF Uses, Alive
<1>2. \E s \in Requests : PlaceOrder(s) \/ Release(s) \/ RefundShipped(s)
  BY <1>1 DEF Next, RequestStep, Replay, ReadCart, LockUnits, LockCoupon, Refuse, PriceChanged, Arrive, EditCart, EditShop
<1>3. ASSUME NEW s \in Requests, Release(s) \/ RefundShipped(s) PROVE FALSE
  <2>1. PICK status \in {"cancelled", "refunded"} : order' = [order EXCEPT ![s].status = status]
    BY <1>3 DEF Release, RefundShipped
  <2>2. order \in [Requests -> OrderType]
    BY DEF TypeOK, OrderType
  <2> QED BY <1>1, <2>1, <2>2 DEF OrderType
<1>4. ASSUME NEW s \in Requests, PlaceOrder(s), s # r PROVE FALSE
  <2>1. order'[r] = order[r]
    <3>1. \E v : order' = [order EXCEPT ![s] = v]
      BY <1>4, PlacesOrder
    <3> QED BY <1>4, <3>1 DEF TypeOK
  <2> QED BY <1>1, <2>1
<1> QED BY <1>2, <1>3, <1>4

\* The order that takes a use adds one to counts that were below the limits.
LEMMA UseWithinLimits ==
    ASSUME Inv, Next, NEW r \in Requests, r \in Uses' \ Uses
    PROVE  /\ Cardinality(Uses') <= coupon.total
           /\ Cardinality(UsesBy(Buyer[req[r].owner])') <= coupon.each
<1> DEFINE b == Buyer[req[r].owner]
<1>1. PlaceOrder(r)
  BY UseTaken
<1>2. /\ order' = [order EXCEPT ![r] = [status |-> "open", owner |-> req[r].owner, key |-> req[r].key,
                                        code |-> req[r].code, qty |-> Quantities(req[r].lines)]]
      /\ req[r].code => req[r].pc = "priced"
      /\ Answered(r, r)
  BY <1>1, PlacesOrder
<1>3. /\ order'[r].owner = req[r].owner /\ order'[r].code = req[r].code /\ order'[r].status = "open"
      /\ \A s \in Requests : s # r => order'[s] = order[s]
  BY <1>2 DEF Inv, TypeOK
<1>4. req[r].pc = "priced"
  BY <1>2, <1>3 DEF Uses
<1>5. Cardinality(Uses) < coupon.total /\ Cardinality(UsesBy(b)) < coupon.each
  BY <1>4 DEF Inv, PricedHasUseLeft, CouponApplies
<1>6. req'[r].owner = req[r].owner
  BY <1>2 DEF Answered, Inv, TypeOK
<1>7. Uses' = Uses \cup {r}
  BY <1>3 DEF Uses, Alive
<1>8. UsesBy(Buyer[req[r].owner])' = UsesBy(b) \cup {r} /\ r \notin UsesBy(b)
  BY <1>3, <1>6, <1>7 DEF UsesBy, Uses, Alive
<1>9. IsFiniteSet(Uses) /\ IsFiniteSet(UsesBy(b))
  BY RequestsAssumption, FS_Subset DEF Uses, UsesBy, Alive
<1>10. coupon.total \in Nat /\ coupon.each \in Nat
  BY LimitsAssumption DEF Inv, TypeOK
<1>11. /\ Cardinality(Uses \cup {r}) = Cardinality(Uses) + 1
       /\ Cardinality(UsesBy(b) \cup {r}) = Cardinality(UsesBy(b)) + 1
       /\ Cardinality(Uses) \in Nat /\ Cardinality(UsesBy(b)) \in Nat
  BY <1>8, <1>9, FS_AddElement, FS_CardinalityType
<1> QED BY <1>5, <1>7, <1>8, <1>10, <1>11

-----------------------------------------------------------------------------
\* The inductive invariant holds throughout.
THEOREM CheckoutInvariant == Spec => []Inv
BY InitInv, StepInv, PTL DEF Spec

\* Stock is never below zero, and every row and request is well formed, however many
\* checkouts buy the same units at once (checkout, get_many_for_update).
THEOREM NeverOversold == Spec => []TypeOK
<1>1. Inv => TypeOK
  BY DEF Inv
<1> QED BY <1>1, CheckoutInvariant, PTL

\* One order per owner and key, and the unique constraint is never what stops a second one
\* (lock_idempotency_key); no caller is answered with another's order, or with one made for
\* another key or coupon (get_by_idempotency_key).
THEOREM OneOrderPerKey == Spec => []KeysHold
<1>1. Inv => KeysHold
  BY DEF Inv, KeysHold
<1> QED BY <1>1, CheckoutInvariant, PTL

\* No order takes a coupon use beyond the limits in force when it is created, whatever
\* happened since the uses were counted (evaluate, find_by_code(lock=True)).
THEOREM CouponLimits == Spec => CouponWithinLimits
<1>1. Inv /\ [Next]_vars =>
        [\A r \in Requests : r \in Uses' \ Uses =>
            /\ Cardinality(Uses') <= coupon.total
            /\ Cardinality(UsesBy(Buyer[req[r].owner])') <= coupon.each]_vars
  BY UseWithinLimits
<1> QED BY <1>1, CheckoutInvariant, PTL DEF Spec, CouponWithinLimits

-----------------------------------------------------------------------------
(* Stock and orders add up.                                                *)

\* What orders took are numbers, of finitely many requests.
LEMMA TakenNumbers ==
    ASSUME TypeOK, NEW u \in Units
    PROVE  /\ IsFiniteSet(Requests) /\ DOMAIN Taken(u) = Requests /\ (\A r \in Requests : Taken(u)[r] \in Int)
           /\ SumFunction(Taken(u)) = SumFunctionOnSet(Taken(u), Requests) /\ SumFunction(Taken(u)) \in Int
           /\ stock[u] \in Nat
<1>1. IsFiniteSet(Requests) /\ DOMAIN Taken(u) = Requests /\ \A r \in Requests : Taken(u)[r] \in Int
  BY RequestsAssumption DEF Taken, TypeOK
<1>2. SumFunction(Taken(u)) = SumFunctionOnSet(Taken(u), Requests)
  BY <1>1, Zenon DEF SumFunction
<1> QED BY <1>1, <1>2, SumInt DEF TypeOK

\* One order takes or gives back what the stock of each unit loses or gets.
LEMMA StockMoves ==
    ASSUME StockConserved, TypeOK, TypeOK', NEW r \in Requests,
           \A s \in Requests : s # r => order'[s] = order[s],
           \A u \in Units : stock'[u] = stock[u] + Taken(u)[r] - Taken(u)'[r]
    PROVE  StockConserved'
<1> SUFFICES ASSUME NEW u \in Units PROVE stock'[u] >= 0 /\ stock'[u] + SumFunction(Taken(u)') = MaxStock
  BY DEF StockConserved
<1> DEFINE f == Taken(u)
           g == Taken(u)'
<1>1. /\ IsFiniteSet(Requests) /\ (\A s \in Requests : f[s] \in Int)
      /\ SumFunction(f) = SumFunctionOnSet(f, Requests) /\ SumFunction(f) \in Int /\ stock[u] \in Nat
  BY TakenNumbers
<1>2. /\ (\A s \in Requests : g[s] \in Int)
      /\ SumFunction(g) = SumFunctionOnSet(g, Requests) /\ SumFunction(g) \in Int /\ stock'[u] \in Nat
  <2>1. TypeOK' => /\ DOMAIN g = Requests /\ (\A s \in Requests : g[s] \in Int) /\ stock'[u] \in Nat
    BY DEF Taken, TypeOK
  <2>2. SumFunction(g) = SumFunctionOnSet(g, Requests)
    BY <2>1, Zenon DEF SumFunction
  <2> QED BY <1>1, <2>1, <2>2, SumInt
<1>3. \A s \in Requests : s # r => g[s] = f[s]
  BY DEF Taken
<1>4. stock'[u] = stock[u] + f[r] - g[r] /\ stock[u] + SumFunction(f) = MaxStock
  BY DEF StockConserved
<1> HIDE DEF f, g
<1>5. SumFunctionOnSet(g, Requests) = SumFunctionOnSet(f, Requests) - f[r] + g[r]
  BY <1>1, <1>2, <1>3, SumChanged
<1>6. stock'[u] >= 0 /\ stock'[u] + SumFunction(g) = MaxStock
  BY <1>1, <1>2, <1>4, <1>5
<1> QED BY <1>6 DEF g

\* Nothing is sold at first.
LEMMA StockInit == Init => StockConserved
<1> SUFFICES ASSUME Init, NEW u \in Units PROVE stock[u] >= 0 /\ stock[u] + SumFunction(Taken(u)) = MaxStock
  BY DEF StockConserved
<1>1. TypeOK
  BY InitInv DEF Inv
<1>2. \A r \in Requests : Taken(u)[r] = 0
  BY DEF Init, Taken, NoOrder
<1>3. SumFunctionOnSet(Taken(u), Requests) = 0
  BY <1>1, <1>2, TakenNumbers, SumZero
<1> QED BY <1>1, <1>3, TakenNumbers, StockAssumption DEF Init

\* A purchase, a cancellation or a refund moves what its order says; nothing else touches stock or orders.
LEMMA StockStep == ASSUME Inv, Inv', [Next]_vars, StockConserved PROVE StockConserved'
<1> USE DEF Inv
<1>1. CASE UNCHANGED <<stock, order>>
  BY <1>1 DEF StockConserved, Taken
<1>2. ASSUME NEW r \in Requests, PlaceOrder(r) PROVE StockConserved'
  <2>1. CASE Existing(req[r].owner, req[r].key) # {}
    BY <1>1, <1>2, <2>1 DEF PlaceOrder
  <2>2. CASE Existing(req[r].owner, req[r].key) = {}
    <3>1. r \notin Orders /\ order[r].status = "none"
      BY <1>2, PlacesOrder DEF Orders
    <3>2. /\ order'[r].status = "open" /\ order'[r].qty = Quantities(req[r].lines)
          /\ (\A s \in Requests : s # r => order'[s] = order[s])
          /\ \A u \in Units : stock'[u] = stock[u] - req[r].lines[u].qty
      BY <1>2, <2>2 DEF PlaceOrder, TypeOK
    <3>3. \A u \in Units : Taken(u)[r] = 0 /\ Taken(u)'[r] = req[r].lines[u].qty /\ req[r].lines[u].qty \in Nat /\ stock[u] \in Nat
      BY <3>1, <3>2 DEF Taken, Quantities, TypeOK, LineType
    <3>4. \A u \in Units : stock'[u] = stock[u] + Taken(u)[r] - Taken(u)'[r]
      BY <3>2, <3>3
    <3> QED BY <3>2, <3>4, StockMoves
  <2> QED BY <2>1, <2>2
<1>3. ASSUME NEW r \in Requests, Release(r) PROVE StockConserved'
  <2>1. /\ order[r].status = "open" /\ order'[r].status = "cancelled"
        /\ (\A s \in Requests : s # r => order'[s] = order[s])
        /\ \A u \in Units : stock'[u] = stock[u] + order[r].qty[u]
    BY <1>3 DEF Release, Releasable, Alive, TypeOK
  <2>2. \A u \in Units : Taken(u)[r] = order[r].qty[u] /\ Taken(u)'[r] = 0 /\ order[r].qty[u] \in Nat /\ stock[u] \in Nat
    BY <2>1 DEF Taken, TypeOK
  <2>3. \A u \in Units : stock'[u] = stock[u] + Taken(u)[r] - Taken(u)'[r]
    BY <2>1, <2>2
  <2> QED BY <2>1, <2>3, StockMoves
<1>4. ASSUME NEW r \in Requests, RefundShipped(r) PROVE StockConserved'
  <2>1. /\ order[r].status = "open" /\ order'[r].status = "refunded" /\ order'[r].qty = order[r].qty
        /\ (\A s \in Requests : s # r => order'[s] = order[s])
        /\ \A u \in Units : stock'[u] = stock[u]
    BY <1>4 DEF RefundShipped, Alive, TypeOK, shopVars
  <2>2. \A u \in Units : Taken(u)[r] = order[r].qty[u] /\ Taken(u)'[r] = order[r].qty[u] /\ order[r].qty[u] \in Nat /\ stock[u] \in Nat
    BY <2>1 DEF Taken, TypeOK
  <2>3. \A u \in Units : stock'[u] = stock[u] + Taken(u)[r] - Taken(u)'[r]
    BY <2>1, <2>2
  <2> QED BY <2>1, <2>3, StockMoves
<1>5. CASE Next /\ ~ \E r \in Requests : PlaceOrder(r) \/ Release(r) \/ RefundShipped(r)
  BY <1>1, <1>5 DEF Next, RequestStep, Replay, ReadCart, LockUnits, LockCoupon, Refuse, PriceChanged, Arrive, EditCart, EditShop, shopVars
<1>6. CASE UNCHANGED vars
  BY <1>1, <1>6 DEF vars
<1> QED BY <1>2, <1>3, <1>4, <1>5, <1>6

\* However checkouts, cancellations and refunds interleave, stock and what orders hold of a unit add up to what there was
\* (checkout, _restock_once).
THEOREM StockAddsUp == Spec => []StockConserved
  BY CheckoutInvariant, StockInit, StockStep, PTL DEF Spec
=============================================================================
