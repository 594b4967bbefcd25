-------------------------- MODULE Accounts_proofs ---------------------------
(***************************************************************************)
(* Customers and staff, for any number of requests, tokens, links, users,  *)
(* roles, products, browsers, orders and lines: an account's credentials   *)
(* hold and a session that is over stays over, the shop is always          *)
(* administered, a hidden review stays hidden, a customer's lists stay     *)
(* bounded, only its owner acts on an order, and nothing is in a cart      *)
(* twice.                                                                  *)
(*                                                                         *)
(* Each theorem states it of the component's own specification and of the  *)
(* composition that TLC checks (PartStep); the customer's lists have a run *)
(* of their own.                                                           *)
(***************************************************************************)
EXTENDS MCAccounts, Sums_proofs

\* A step of the composition is a step of the component that is exercised, or leaves it alone.
LEMMA PartStep ==
    ASSUME [Next]_vars
    PROVE  /\ part' = part
           /\ part = "sessions" => [SessionsNext]_sessionsVars
           /\ part = "staff" => [StaffNext]_staffVars
           /\ part = "shopper" => [ShopperNext]_shopperVars
           /\ part = "access" => [OrderAccessNext]_orderAccessVars
           /\ part = "cart" => [CartNext]_cartVars
  BY DEF Next, vars

-----------------------------------------------------------------------------
\* A stored review.
ReviewRows == [id : Nat, status : {"published", "hidden"}, text : Texts]

\* Reviews are rows, numbered by ids.
ShopperInv == ids \in Nat /\ review \in [Products -> ReviewRows \cup {None}]

\* No review at first.
LEMMA ShopperInitInv == ShopperInit => ShopperInv
  BY DEF ShopperInit, ShopperInv

\* Every step keeps the rows, and only the store publishes what it hid.
LEMMA ShopperStep ==
    ASSUME ShopperInv, [ShopperNext]_shopperVars
    PROVE  ShopperInv' /\ [HiddenStaysHidden]_shopperVars
<1> USE DEF ShopperInv
<1>1. ASSUME review' = review, ids' = ids \/ ids' = ids + 1 PROVE ShopperInv' /\ HiddenStaysHidden
  BY <1>1 DEF HiddenStaysHidden, ReviewRows
<1>2. ASSUME NEW r \in Requests, NEW op, Begin(r, op) PROVE ShopperInv' /\ HiddenStaysHidden
  BY <1>1, <1>2 DEF Begin
<1>3. CASE AddressEndpoints
  <2>1. review' = review /\ (ids' = ids \/ ids' = ids + 1)
    BY <1>3 DEF AddressEndpoints, LoadCreate, LoadAddress, CreateAddress, UpdateAddress, DeleteAddress, Begin, Write
  <2> QED BY <1>1, <2>1
<1>4. CASE WishlistEndpoints \/ Store
  <2>1. review' = review /\ ids' = ids
    BY <1>4 DEF WishlistEndpoints, Store, LoadSave, Save, Remove, Pay, Withdraw, Begin
  <2> QED BY <1>1, <2>1
<1>5. ASSUME NEW p \in Products, CreateReview(p) PROVE ShopperInv' /\ HiddenStaysHidden
  BY <1>5 DEF CreateReview, SetReview, Review, ReviewRows, Texts, HiddenStaysHidden
<1>6. ASSUME NEW p \in Products, DeleteReview(p) PROVE ShopperInv' /\ HiddenStaysHidden
  BY <1>6 DEF DeleteReview, SetReview, ReviewRows, HiddenStaysHidden
<1>7. ASSUME NEW p \in Products, NEW status \in {"published", "hidden"}, Moderate(p, status)
      PROVE  ShopperInv' /\ HiddenStaysHidden
  <2>1. review[p] \in ReviewRows /\ review' = [review EXCEPT ![p] = [review[p] EXCEPT !.status = status]] /\ ids' = ids
    BY <1>7 DEF Moderate, SetReview
  <2>2. [review[p] EXCEPT !.status = status] \in ReviewRows /\ [review[p] EXCEPT !.status = status].status = status
    BY <2>1 DEF ReviewRows
  <2> QED BY <1>7, <2>1, <2>2 DEF HiddenStaysHidden, ReviewRows
<1>8. ASSUME NEW r \in Requests, UpdateMine(r) PROVE ShopperInv' /\ HiddenStaysHidden
  <2> DEFINE p == doing[r].product
             w == IF review[p] # None /\ review[p].id = doing[r].seen.id THEN Edited(doing[r].seen, review[p]) ELSE review[p]
  <2>1. review' = [review EXCEPT ![p] = w] /\ ids' = ids
    BY <1>8 DEF UpdateMine, SetReview
  <2>2. p \in Products => w \in ReviewRows \cup {None} /\ (review[p] = None => w = None) /\ (w # None => w.status = review[p].status)
    BY DEF Edited, ReviewRows, Texts
  <2> HIDE DEF p, w
  <2> QED BY <2>1, <2>2 DEF HiddenStaysHidden, ReviewRows
<1>9. CASE UNCHANGED shopperVars
  BY <1>9 DEF shopperVars
<1> QED
  BY <1>2, <1>3, <1>4, <1>5, <1>6, <1>7, <1>8, <1>9 DEF ShopperNext, ReviewEndpoints, LoadReview

\* A review the store hid is seen again only when the store publishes it, whatever edit of its author was under way
\* (review_service.py, update_mine).
THEOREM HiddenReviews ==
    /\ ShopperSpec => [][HiddenStaysHidden]_shopperVars
    /\ Spec => Shopper_HiddenStaysHidden
<1> DEFINE I == part = "shopper" => ShopperInv
<1>1. Init => I
  BY ShopperInitInv DEF Init
<1>2. I /\ [Next]_vars => I' /\ [part = "shopper" => HiddenStaysHidden]_shopperVars
  BY PartStep, ShopperStep
<1>3. ShopperInv /\ [ShopperNext]_shopperVars => ShopperInv' /\ [HiddenStaysHidden]_shopperVars
  BY ShopperStep
<1>4. ShopperSpec => [][HiddenStaysHidden]_shopperVars
  BY <1>3, ShopperInitInv, PTL DEF ShopperSpec
<1>5. Spec => Shopper_HiddenStaysHidden
  <2> HIDE DEF I
  <2> QED BY <1>1, <1>2, PTL DEF Spec, Shopper_HiddenStaysHidden
<1> QED BY <1>4, <1>5

-----------------------------------------------------------------------------
\* A saved address.
AddressRows == [id : Nat, is_default : BOOLEAN]

\* The requests that have counted and will insert.
Creating == {r \in Requests : doing[r].op = "create" /\ ~Full(doing[r].seen)}
Saving == {r \in Requests : doing[r].op = "save"}

\* Rows are numbered by ids.
RowsInv ==
    /\ ids \in Nat /\ DOMAIN doing = Requests
    /\ addresses \subseteq AddressRows /\ \A a \in addresses : a.id <= ids

\* A list and the requests that will insert into it do not exceed the limit by more than all requests but one.
Bounded(list, inserting, limit) == IsFiniteSet(list) /\ Cardinality(list) + Cardinality(inserting) < limit + Cardinality(Requests)

ListsInv == RowsInv /\ Bounded(addresses, Creating, MAX_ADDRESSES_PER_USER) /\ Bounded(wishlist, Saving, WISHLIST_LIMIT)

\* Some of the requests are finitely many, at most all of them.
LEMMA SomeRequests ==
    ASSUME NEW S \in SUBSET Requests
    PROVE  IsFiniteSet(S) /\ Cardinality(S) \in Nat /\ Cardinality(Requests) \in Nat /\ Cardinality(S) <= Cardinality(Requests)
  BY LimitsAreSet, FS_Subset, FS_CardinalityType

\* A set whose members come from those of S is no larger than S.
LEMMA NoLarger ==
    ASSUME NEW S, IsFiniteSet(S), NEW f, NEW T, \A t \in T : \E x \in S : t = f[x]
    PROVE  IsFiniteSet(T) /\ Cardinality(T) \in Nat /\ Cardinality(T) <= Cardinality(S)
<1> DEFINE U == {f[x] : x \in S}
           g == [x \in S |-> f[x]]
<1>1. g \in Surjection(S, U)
  BY DEF Surjection
<1>2. IsFiniteSet(U) /\ Cardinality(U) <= Cardinality(S)
  BY <1>1, FS_Surjection
<1>3. T \in SUBSET U
  OBVIOUS
<1> HIDE DEF U, g
<1>4. IsFiniteSet(T) /\ Cardinality(T) <= Cardinality(U)
  BY <1>2, <1>3, FS_Subset
<1>5. Cardinality(S) \in Nat /\ Cardinality(T) \in Nat /\ Cardinality(U) \in Nat
  BY <1>2, <1>4, FS_CardinalityType
<1> QED BY <1>2, <1>4, <1>5

\* A list of addresses has a first.
LEMMA ListHasFirst ==
    ASSUME RowsInv, NEW S \in SUBSET addresses, S # {}
    PROVE  FirstListed(S) \in S
<1>1. PICK D : D = IF \E a \in S : a.is_default THEN {a \in S : a.is_default} ELSE S
  OBVIOUS
<1>2. D # {} /\ D \subseteq S /\ D \subseteq addresses
  BY <1>1
<1> DEFINE N == {ids - a.id : a \in D}
<1>3. N \in SUBSET Nat /\ N # {}
  BY <1>2 DEF RowsInv, AddressRows
<1>4. PICK n \in N : \A m \in N : n <= m
  BY <1>3, LeastNumber
<1>5. PICK a \in D : n = ids - a.id
  BY <1>4
<1>6. ASSUME NEW b \in S PROVE (a.is_default /\ ~b.is_default) \/ (a.is_default = b.is_default /\ a.id >= b.id)
  <2>1. a.id \in Nat /\ b.id \in Nat /\ ids \in Nat /\ a.is_default \in BOOLEAN /\ b.is_default \in BOOLEAN
    BY <1>2 DEF RowsInv, AddressRows
  <2>2. CASE b \in D
    <3>1. ids - b.id \in N
      BY <2>2
    <3>2. a.id >= b.id
      BY <1>4, <1>5, <2>1, <3>1
    <3>3. a.is_default = b.is_default
      BY <1>1, <2>1, <2>2
    <3> QED BY <3>2, <3>3
  <2>3. CASE b \notin D
    BY <1>1, <2>3
  <2> QED BY <2>2, <2>3
<1>7. \E x \in S : \A b \in S : (x.is_default /\ ~b.is_default) \/ (x.is_default = b.is_default /\ x.id >= b.id)
  BY <1>2, <1>6
<1> QED BY <1>7 DEF FirstListed

\* A request begins: it counts as inserting when it is to insert.
LEMMA ListRequestBegins ==
    ASSUME DOMAIN doing = Requests, NEW r \in Requests, NEW op, Begin(r, op)
    PROVE  /\ DOMAIN doing' = Requests
           /\ Creating' = Creating \cup {x \in {r} : op.op = "create" /\ ~Full(op.seen)}
           /\ Saving' = Saving \cup {x \in {r} : op.op = "save"}
           /\ UNCHANGED <<addresses, onSale, bought, review, wishlist, ids>>
<1>1. doing' = [doing EXCEPT ![r] = op] /\ doing[r].op = "idle" /\ UNCHANGED <<addresses, onSale, bought, review, wishlist, ids>>
  BY DEF Begin, NotDoing
<1>2. DOMAIN doing' = Requests /\ doing'[r] = op /\ \A x \in Requests : x # r => doing'[x] = doing[x]
  BY <1>1
<1> QED BY <1>1, <1>2 DEF Creating, Saving, Full

\* A request ends: it does not insert any more.
LEMMA ListRequestEnds ==
    ASSUME DOMAIN doing = Requests, NEW r \in Requests, End(r)
    PROVE  /\ DOMAIN doing' = Requests /\ Creating' = Creating \ {r} /\ Saving' = Saving \ {r}
           /\ Cardinality(Creating') \in Nat /\ Cardinality(Saving') \in Nat
           /\ Cardinality(Creating') = IF r \in Creating THEN Cardinality(Creating) - 1 ELSE Cardinality(Creating)
           /\ Cardinality(Saving') = IF r \in Saving THEN Cardinality(Saving) - 1 ELSE Cardinality(Saving)
<1>1. doing' = [doing EXCEPT ![r] = NotDoing] /\ NotDoing.op = "idle"
  BY DEF End, NotDoing
<1>2. DOMAIN doing' = Requests /\ doing'[r].op = "idle" /\ \A x \in Requests : x # r => doing'[x] = doing[x]
  BY <1>1
<1>3. Creating' = Creating \ {r} /\ Saving' = Saving \ {r}
  BY <1>2 DEF Creating, Saving, Full
<1>4. Creating \in SUBSET Requests /\ Saving \in SUBSET Requests
  BY DEF Creating, Saving
<1>5. IsFiniteSet(Creating) /\ IsFiniteSet(Saving)
  BY <1>4, SomeRequests
<1>6. IsFiniteSet(Creating \ {r}) /\ IsFiniteSet(Saving \ {r})
  BY <1>5, FS_RemoveElement
<1> QED BY <1>2, <1>3, <1>5, <1>6, FS_RemoveElement, FS_CardinalityType

\* The list does not grow, nor do the requests that insert into it.
LEMMA StaysBounded ==
    ASSUME NEW S, NEW I \in SUBSET Requests, NEW limit \in Nat, Bounded(S, I, limit), NEW T, NEW J,
           IsFiniteSet(T), Cardinality(T) <= Cardinality(S), J \in SUBSET I
    PROVE  Bounded(T, J, limit)
<1>1. IsFiniteSet(I) /\ Cardinality(I) \in Nat /\ Cardinality(Requests) \in Nat
  BY SomeRequests
<1>2. IsFiniteSet(J) /\ Cardinality(J) <= Cardinality(I) /\ Cardinality(J) \in Nat
  BY <1>1, FS_Subset, FS_CardinalityType
<1>3. Cardinality(S) \in Nat /\ Cardinality(T) \in Nat
  BY FS_CardinalityType DEF Bounded
<1> QED BY <1>1, <1>2, <1>3 DEF Bounded

\* A request that has counted joins those that will insert.
LEMMA CountedBounded ==
    ASSUME NEW S, IsFiniteSet(S), NEW limit \in Nat, Cardinality(S) < limit, NEW J \in SUBSET Requests
    PROVE  Bounded(S, J, limit)
<1>1. Cardinality(J) \in Nat /\ Cardinality(Requests) \in Nat /\ Cardinality(J) <= Cardinality(Requests) /\ Cardinality(S) \in Nat
  BY SomeRequests, FS_CardinalityType
<1> QED BY <1>1 DEF Bounded

\* One of the requests inserts.
LEMMA InsertedBounded ==
    ASSUME NEW S, NEW I \in SUBSET Requests, NEW limit \in Nat, Bounded(S, I, limit), NEW r \in I, NEW T,
           IsFiniteSet(T), Cardinality(T) <= Cardinality(S) + 1
    PROVE  Bounded(T, I \ {r}, limit)
<1>1. IsFiniteSet(I) /\ Cardinality(I) \in Nat /\ Cardinality(Requests) \in Nat
  BY SomeRequests
<1>2. Cardinality(I \ {r}) = Cardinality(I) - 1
  BY <1>1, FS_RemoveElement
<1>3. Cardinality(S) \in Nat /\ Cardinality(T) \in Nat
  BY FS_CardinalityType DEF Bounded
<1> QED BY <1>1, <1>2, <1>3 DEF Bounded

\* Which sets the invariant is about.
LEMMA ListsTyped ==
    ASSUME ListsInv
    PROVE  /\ RowsInv /\ DOMAIN doing = Requests /\ Creating \in SUBSET Requests /\ Saving \in SUBSET Requests
           /\ IsFiniteSet(addresses) /\ IsFiniteSet(wishlist) /\ Cardinality(addresses) \in Nat /\ Cardinality(wishlist) \in Nat
           /\ MAX_ADDRESSES_PER_USER \in Nat /\ WISHLIST_LIMIT \in Nat
           /\ Bounded(addresses, Creating, MAX_ADDRESSES_PER_USER) /\ Bounded(wishlist, Saving, WISHLIST_LIMIT)
  BY LimitsAreSet, FS_CardinalityType DEF ListsInv, RowsInv, Bounded, Creating, Saving

\* A request that begins without counting, or counts before the list is full.
LEMMA BeginsBounded ==
    ASSUME ListsInv, NEW r \in Requests, NEW op, Begin(r, op),
           op.op = "create" => op.seen = addresses, op.op = "save" => Cardinality(wishlist) < WISHLIST_LIMIT
    PROVE  ListsInv'
<1>1. /\ DOMAIN doing' = Requests
      /\ Creating' = Creating \cup {x \in {r} : op.op = "create" /\ ~Full(op.seen)}
      /\ Saving' = Saving \cup {x \in {r} : op.op = "save"}
      /\ UNCHANGED <<addresses, wishlist, ids>>
  BY ListsTyped, ListRequestBegins
<1>2. RowsInv'
  BY <1>1, ListsTyped DEF RowsInv
<1>3. Bounded(addresses, Creating, MAX_ADDRESSES_PER_USER)'
  <2>1. CASE op.op = "create" /\ ~Full(op.seen)
    <3>1. Cardinality(addresses) < MAX_ADDRESSES_PER_USER /\ Creating' \in SUBSET Requests
      BY <1>1, <2>1, ListsTyped DEF Full
    <3>2. Bounded(addresses, Creating', MAX_ADDRESSES_PER_USER)
      BY <3>1, ListsTyped, CountedBounded
    <3> QED BY <1>1, <3>2 DEF Bounded
  <2>2. CASE ~(op.op = "create" /\ ~Full(op.seen))
    <3>1. Creating' = Creating
      BY <1>1, <2>2
    <3> QED BY <1>1, <3>1, ListsTyped DEF Bounded
  <2> QED BY <2>1, <2>2
<1>4. Bounded(wishlist, Saving, WISHLIST_LIMIT)'
  <2>1. CASE op.op = "save"
    <3>1. Cardinality(wishlist) < WISHLIST_LIMIT /\ Saving' \in SUBSET Requests
      BY <1>1, <2>1, ListsTyped
    <3>2. Bounded(wishlist, Saving', WISHLIST_LIMIT)
      BY <3>1, ListsTyped, CountedBounded
    <3> QED BY <1>1, <3>2 DEF Bounded
  <2>2. CASE op.op # "save"
    <3>1. Saving' = Saving
      BY <1>1, <2>2
    <3> QED BY <1>1, <3>1, ListsTyped DEF Bounded
  <2> QED BY <2>1, <2>2
<1> QED BY <1>2, <1>3, <1>4 DEF ListsInv

\* A request that ends without a larger list.
LEMMA EndsBounded ==
    ASSUME ListsInv, NEW r \in Requests, End(r), ids' = ids, addresses' \subseteq AddressRows, \A a \in addresses' : a.id <= ids,
           IsFiniteSet(addresses'), Cardinality(addresses') <= Cardinality(addresses), wishlist' = wishlist
    PROVE  ListsInv'
<1>1. DOMAIN doing' = Requests /\ Creating' \in SUBSET Creating /\ Saving' \in SUBSET Saving
  BY ListsTyped, ListRequestEnds
<1>2. RowsInv'
  BY <1>1, ListsTyped DEF RowsInv
<1>3. Bounded(addresses', Creating', MAX_ADDRESSES_PER_USER)
  BY <1>1, ListsTyped, StaysBounded
<1>4. Bounded(wishlist, Saving', WISHLIST_LIMIT)
  BY <1>1, ListsTyped, StaysBounded
<1> QED BY <1>2, <1>3, <1>4 DEF ListsInv, Bounded

\* An address is created: the default moves, and one row is new.
LEMMA CreateAddressBounded == ASSUME ListsInv, NEW r \in Requests, CreateAddress(r) PROVE ListsInv'
<1>1. PICK q : q = doing[r]
  OBVIOUS
<1>2. PICK default : default = (q.is_default \/ q.seen = {})
  OBVIOUS
<1>3. PICK C : C = IF default /\ q.seen # {} THEN Cleared(q.seen) ELSE {}
  OBVIOUS
<1>4. End(r) /\ wishlist' = wishlist /\ q.op = "create" /\ ids \in Nat
  BY <1>1, ListsTyped DEF CreateAddress, RowsInv
<1>5. CASE Full(q.seen)
  <2>1. UNCHANGED <<addresses, ids>>
    BY <1>1, <1>5 DEF CreateAddress
  <2> QED BY <1>4, <2>1, ListsTyped, EndsBounded DEF RowsInv
<1>6. CASE ~Full(q.seen)
  <2>1. PICK K : K = {a \in addresses : \A c \in C : c.id # a.id} \cup C
    OBVIOUS
  <2>2. ids' = ids + 1 /\ addresses' = K \cup {Address(ids + 1, default)}
    BY <1>1, <1>2, <1>3, <1>6, <2>1 DEF CreateAddress
  <2>3. ASSUME NEW c \in C PROVE \E a \in addresses : c = Address(a.id, FALSE)
    <3>1. PICK s \in SeenByRequest(q.seen) : c = Address(s.id, FALSE)
      BY <1>3, <2>3 DEF Cleared
    <3>2. \E a \in addresses : a.id = s.id
      BY <3>1 DEF SeenByRequest
    <3> QED BY <3>1, <3>2
  <2> DEFINE f == [a \in addresses |-> IF \A c \in C : c.id # a.id THEN a ELSE Address(a.id, FALSE)]
  <2>4. ASSUME NEW t \in K PROVE \E a \in addresses : t = f[a] /\ t \in AddressRows /\ t.id = a.id
    <3>1. CASE t \in C
      <4>1. PICK a \in addresses : t = Address(a.id, FALSE)
        BY <2>3, <3>1
      <4>2. t.id = a.id /\ a.id \in Nat /\ t \in AddressRows
        BY <4>1, ListsTyped DEF Address, AddressRows, RowsInv
      <4>3. f[a] = t
        BY <3>1, <4>1, <4>2
      <4> QED BY <4>2, <4>3
    <3>2. CASE t \notin C
      <4>1. t \in addresses /\ \A c \in C : c.id # t.id
        BY <2>1, <2>4, <3>2
      <4> QED BY <4>1, ListsTyped DEF RowsInv
    <3> QED BY <3>1, <3>2
  <2> HIDE DEF f
  <2>5. IsFiniteSet(K) /\ Cardinality(K) \in Nat /\ Cardinality(K) <= Cardinality(addresses)
    <3>1. \A t \in K : \E x \in addresses : t = f[x]
      BY <2>4
    <3> QED BY <3>1, ListsTyped, NoLarger
  <2>6. PICK n : n = Address(ids + 1, default)
    OBVIOUS
  <2>7. n \in AddressRows /\ n.id = ids + 1
    BY <1>2, <1>4, <2>6 DEF Address, AddressRows
  <2>8. RowsInv'
    <3>1. \A t \in K : t \in AddressRows /\ t.id <= ids + 1
      BY <1>4, <2>4, ListsTyped DEF RowsInv, AddressRows
    <3>2. DOMAIN doing' = Requests
      BY <1>4, ListsTyped, ListRequestEnds
    <3> QED BY <1>4, <2>2, <2>6, <2>7, <3>1, <3>2 DEF RowsInv
  <2>9. IsFiniteSet(addresses') /\ Cardinality(addresses') <= Cardinality(addresses) + 1
    <3>1. IsFiniteSet(K \cup {n}) /\ Cardinality(K \cup {n}) = IF n \in K THEN Cardinality(K) ELSE Cardinality(K) + 1
      BY <2>5, FS_AddElement
    <3> QED BY <2>2, <2>5, <2>6, <3>1, ListsTyped
  <2>10. r \in Creating
    BY <1>1, <1>4, <1>6 DEF Creating
  <2>11. Creating' = Creating \ {r} /\ Saving' \in SUBSET Saving
    BY <1>4, ListsTyped, ListRequestEnds
  <2>12. Bounded(addresses', Creating \ {r}, MAX_ADDRESSES_PER_USER)
    BY <2>9, <2>10, ListsTyped, InsertedBounded
  <2>13. Bounded(wishlist, Saving', WISHLIST_LIMIT)
    BY <2>11, ListsTyped, StaysBounded
  <2> QED BY <1>4, <2>8, <2>11, <2>12, <2>13 DEF ListsInv, Bounded
<1> QED BY <1>5, <1>6

\* Rows are written over.
LEMMA WriteBounded ==
    ASSUME ListsInv, NEW r \in Requests, NEW written, Write(r, written), \A c \in written : \E i : \E b \in BOOLEAN : c = Address(i, b)
    PROVE  ListsInv'
<1> DEFINE f == [a \in addresses |-> IF \E c \in written : c.id = a.id THEN CHOOSE c \in written : c.id = a.id ELSE a]
<1>1. End(r) /\ ids' = ids /\ wishlist' = wishlist
  BY DEF Write
<1>2. addresses' = addresses \/ addresses' = {f[a] : a \in addresses}
  BY DEF Write
<1>3. ASSUME NEW a \in addresses PROVE f[a] \in AddressRows /\ f[a].id = a.id
  <2>1. a \in AddressRows
    BY ListsTyped DEF RowsInv
  <2>2. CASE \E c \in written : c.id = a.id
    <3>1. PICK c \in written : f[a] = c /\ c.id = a.id
      BY <2>2
    <3>2. \E i : \E b \in BOOLEAN : c = Address(i, b)
      BY <3>1
    <3> QED BY <2>1, <3>1, <3>2 DEF Address, AddressRows
  <2>3. CASE ~\E c \in written : c.id = a.id
    BY <2>1, <2>3
  <2> QED BY <2>2, <2>3
<1> HIDE DEF f
<1>4. addresses' \subseteq AddressRows /\ \A a \in addresses' : a.id <= ids
  BY <1>2, <1>3, ListsTyped DEF RowsInv
<1>5. IsFiniteSet(addresses') /\ Cardinality(addresses') <= Cardinality(addresses)
  <2>1. CASE addresses' = addresses
    BY <2>1, ListsTyped
  <2>2. CASE addresses' = {f[a] : a \in addresses}
    <3>1. \A t \in addresses' : \E x \in addresses : t = f[x]
      BY <2>2
    <3> QED BY <3>1, ListsTyped, NoLarger
  <2> QED BY <1>2, <2>1, <2>2
<1> QED BY <1>1, <1>4, <1>5, EndsBounded

\* An address is edited.
LEMMA UpdateAddressBounded == ASSUME ListsInv, NEW r \in Requests, UpdateAddress(r) PROVE ListsInv'
<1>1. PICK q : q = doing[r]
  OBVIOUS
<1>2. PICK written : written = IF q.is_default
                THEN IF q.seen.is_default THEN {} ELSE Cleared({q.seen}) \cup {Address(q.seen.id, TRUE)}
                ELSE IF MaySwitchOff(q.seen) THEN {Address(q.seen.id, FALSE)} ELSE {}
  OBVIOUS
<1>3. Write(r, written)
  BY <1>1, <1>2 DEF UpdateAddress
<1>4. \A c \in written : \E i : \E b \in BOOLEAN : c = Address(i, b)
  BY <1>2 DEF Cleared
<1> QED BY <1>3, <1>4, WriteBounded

\* An address goes, and another takes its place as the default.
LEMMA DeleteAddressBounded == ASSUME ListsInv, NEW r \in Requests, DeleteAddress(r) PROVE ListsInv'
<1>1. PICK rest : rest = {a \in addresses : a.id # doing[r].seen.id}
  OBVIOUS
<1>2. PICK x : x = FirstListed(rest)
  OBVIOUS
<1>3. End(r) /\ ids' = ids /\ wishlist' = wishlist
  BY DEF DeleteAddress
<1>4. addresses' = rest \/ (rest # {} /\ addresses' = (rest \ {x}) \cup {Address(x.id, TRUE)})
  BY <1>1, <1>2 DEF DeleteAddress
<1>5. rest \in SUBSET addresses /\ (rest # {} => x \in rest)
  BY <1>1, <1>2, ListsTyped, ListHasFirst
<1>6. IsFiniteSet(rest) /\ Cardinality(rest) <= Cardinality(addresses) /\ Cardinality(rest) \in Nat
  BY <1>5, ListsTyped, FS_Subset, FS_CardinalityType
<1>7. CASE addresses' = rest
  BY <1>3, <1>5, <1>6, <1>7, ListsTyped, EndsBounded DEF RowsInv
<1>8. CASE rest # {} /\ addresses' = (rest \ {x}) \cup {Address(x.id, TRUE)}
  <2>1. PICK y : y = Address(x.id, TRUE)
    OBVIOUS
  <2>2. x \in addresses /\ x \in AddressRows /\ x.id <= ids
    BY <1>5, <1>8, ListsTyped DEF RowsInv
  <2>3. y \in AddressRows /\ y.id <= ids
    BY <2>1, <2>2 DEF Address, AddressRows
  <2>4. addresses' \subseteq AddressRows /\ \A a \in addresses' : a.id <= ids
    BY <1>5, <1>8, <2>1, <2>3, ListsTyped DEF RowsInv
  <2>5. IsFiniteSet(rest \ {x}) /\ Cardinality(rest \ {x}) = Cardinality(rest) - 1
    BY <1>5, <1>6, <1>8, FS_RemoveElement
  <2>6. IsFiniteSet((rest \ {x}) \cup {y}) /\ Cardinality((rest \ {x}) \cup {y}) <= Cardinality(rest)
    <3>1. /\ IsFiniteSet((rest \ {x}) \cup {y})
          /\ Cardinality((rest \ {x}) \cup {y}) = IF y \in rest \ {x} THEN Cardinality(rest \ {x}) ELSE Cardinality(rest \ {x}) + 1
      BY <2>5, FS_AddElement
    <3> QED BY <1>6, <2>5, <3>1
  <2>7. IsFiniteSet(addresses') /\ Cardinality(addresses') <= Cardinality(addresses)
    <3>1. addresses' = (rest \ {x}) \cup {y}
      BY <1>8, <2>1
    <3>2. Cardinality(addresses') \in Nat
      BY <2>6, <3>1, FS_CardinalityType
    <3> QED BY <1>6, <2>6, <3>1, <3>2, ListsTyped
  <2> QED BY <1>3, <2>4, <2>7, EndsBounded
<1> QED BY <1>4, <1>7, <1>8

\* A product is saved.
LEMMA SaveBounded == ASSUME ListsInv, NEW r \in Requests, Save(r) PROVE ListsInv'
<1>1. PICK p : p = doing[r].product
  OBVIOUS
<1>2. End(r) /\ UNCHANGED <<addresses, ids>> /\ wishlist' = wishlist \cup {p} /\ r \in Saving
  BY <1>1 DEF Save, Saving
<1>3. DOMAIN doing' = Requests /\ Creating' \in SUBSET Creating /\ Saving' = Saving \ {r}
  BY <1>2, ListsTyped, ListRequestEnds
<1>4. RowsInv'
  BY <1>2, <1>3, ListsTyped DEF RowsInv
<1>5. Bounded(addresses, Creating', MAX_ADDRESSES_PER_USER)
  BY <1>3, ListsTyped, StaysBounded
<1>6. IsFiniteSet(wishlist') /\ Cardinality(wishlist') <= Cardinality(wishlist) + 1
  <2>1. IsFiniteSet(wishlist \cup {p}) /\ Cardinality(wishlist \cup {p}) = IF p \in wishlist THEN Cardinality(wishlist) ELSE Cardinality(wishlist) + 1
    BY ListsTyped, FS_AddElement
  <2> QED BY <1>2, <2>1, ListsTyped
<1>7. Bounded(wishlist', Saving \ {r}, WISHLIST_LIMIT)
  BY <1>2, <1>6, ListsTyped, InsertedBounded
<1> QED BY <1>2, <1>3, <1>4, <1>5, <1>7 DEF ListsInv, Bounded

\* A step that no request in flight takes: the lists do not grow.
LEMMA OthersBounded ==
    ASSUME ListsInv, UNCHANGED <<addresses, doing>>, ids' \in Nat, ids' >= ids, wishlist' \subseteq wishlist
    PROVE  ListsInv'
<1>1. RowsInv'
  BY ListsTyped DEF RowsInv, AddressRows
<1>2. Creating' = Creating /\ Saving' = Saving
  BY DEF Creating, Saving, Full
<1>3. IsFiniteSet(wishlist') /\ Cardinality(wishlist') <= Cardinality(wishlist)
  BY ListsTyped, FS_Subset
<1>4. Bounded(wishlist', Saving, WISHLIST_LIMIT)
  BY <1>3, ListsTyped, StaysBounded
<1> QED BY <1>1, <1>2, <1>4, ListsTyped DEF ListsInv, Bounded

\* The lists are empty at first.
LEMMA ListsInitInv == ShopperInit => ListsInv
<1> SUFFICES ASSUME ShopperInit PROVE ListsInv
  OBVIOUS
<1>1. RowsInv
  BY DEF ShopperInit, RowsInv
<1>2. Creating = {} /\ Saving = {}
  BY DEF ShopperInit, Creating, Saving, NotDoing
<1>3. Cardinality({}) = 0 /\ IsFiniteSet({}) /\ Cardinality(Requests) \in Nat
  BY FS_EmptySet, LimitsAreSet, FS_CardinalityType
<1> QED BY <1>1, <1>2, <1>3, LimitsAreSet DEF ShopperInit, ListsInv, Bounded

\* Every step keeps the lists bounded.
LEMMA ListsStep == ASSUME ListsInv, [ShopperNext]_shopperVars PROVE ListsInv'
<1>0. ids \in Nat
  BY ListsTyped DEF RowsInv
<1>1. CASE AddressEndpoints
  <2>1. PICK r \in Requests :
           \/ \E is_default \in BOOLEAN : LoadCreate(r, is_default)
           \/ \E op \in {"update", "delete"}, a \in addresses, is_default \in BOOLEAN : LoadAddress(r, op, a, is_default)
           \/ CreateAddress(r) \/ UpdateAddress(r) \/ DeleteAddress(r)
    BY <1>1 DEF AddressEndpoints
  <2>2. ASSUME NEW is_default, LoadCreate(r, is_default) PROVE ListsInv'
    <3>1. PICK op : op = [op |-> "create", seen |-> addresses, is_default |-> is_default]
      OBVIOUS
    <3>2. Begin(r, op) /\ op.op = "create" /\ op.seen = addresses
      BY <2>2, <3>1 DEF LoadCreate
    <3> QED BY <3>2, BeginsBounded
  <2>3. ASSUME NEW kind \in {"update", "delete"}, NEW a, NEW is_default, LoadAddress(r, kind, a, is_default) PROVE ListsInv'
    <3>1. PICK op : op = [op |-> kind, seen |-> a, is_default |-> is_default]
      OBVIOUS
    <3>2. Begin(r, op) /\ op.op # "create" /\ op.op # "save"
      BY <2>3, <3>1 DEF LoadAddress
    <3> QED BY <3>2, BeginsBounded
  <2> QED BY <2>1, <2>2, <2>3, CreateAddressBounded, UpdateAddressBounded, DeleteAddressBounded
<1>2. CASE ReviewEndpoints
  <2>1. ASSUME NEW r \in Requests, NEW p \in Products, LoadReview(r, p) PROVE ListsInv'
    <3>1. PICK op : op = [op |-> "edit", product |-> p, seen |-> review[p]]
      OBVIOUS
    <3>2. Begin(r, op) /\ op.op # "create" /\ op.op # "save"
      BY <2>1, <3>1 DEF LoadReview
    <3> QED BY <3>2, BeginsBounded
  <2>2. ASSUME NEW r \in Requests, UpdateMine(r) PROVE ListsInv'
    <3>1. End(r) /\ UNCHANGED <<addresses, wishlist, ids>>
      BY <2>2 DEF UpdateMine, SetReview
    <3> QED BY <3>1, ListsTyped, EndsBounded DEF RowsInv
  <2>3. ASSUME NEW p \in Products, CreateReview(p) \/ DeleteReview(p) \/ \E status \in {"published", "hidden"} : Moderate(p, status) PROVE ListsInv'
    <3>1. UNCHANGED <<addresses, doing, wishlist>> /\ (ids' = ids \/ ids' = ids + 1)
      BY <2>3 DEF CreateReview, DeleteReview, Moderate, SetReview
    <3>2. ids' \in Nat /\ ids' >= ids
      BY <1>0, <3>1
    <3> QED BY <3>1, <3>2, OthersBounded
  <2> QED BY <1>2, <2>1, <2>2, <2>3 DEF ReviewEndpoints
<1>3. CASE WishlistEndpoints
  <2>1. ASSUME NEW r \in Requests, NEW p \in Products, LoadSave(r, p) PROVE ListsInv'
    <3>1. PICK op : op = [op |-> "save", product |-> p]
      OBVIOUS
    <3>2. Begin(r, op) /\ op.op # "create" /\ Cardinality(wishlist) < WISHLIST_LIMIT
      BY <2>1, <3>1 DEF LoadSave
    <3> QED BY <3>2, BeginsBounded
  <2>2. ASSUME NEW p \in Products, Remove(p) PROVE ListsInv'
    <3>1. UNCHANGED <<addresses, doing, ids>> /\ wishlist' \subseteq wishlist
      BY <2>2 DEF Remove
    <3> QED BY <1>0, <3>1, OthersBounded
  <2> QED BY <1>3, <2>1, <2>2, SaveBounded DEF WishlistEndpoints
<1>4. CASE Store \/ UNCHANGED shopperVars
  <2>1. UNCHANGED <<addresses, doing, wishlist, ids>>
    BY <1>4 DEF Store, Pay, Withdraw, shopperVars
  <2> QED BY <1>0, <2>1, OthersBounded
<1> QED BY <1>1, <1>2, <1>3, <1>4 DEF ShopperNext

\* However many requests of a customer overlap, the addresses and the wishlist exceed their limits by less than the number of
\* those requests (address_service.py, create_address; wishlist_service.py, add).
THEOREM ListsBounded ==
    /\ ShopperSpec => []ListsStayBounded
    /\ Spec => []Shopper_ListsStayBounded
<1> DEFINE I == part = "shopper" => ListsInv
<1>1. ListsInv => ListsStayBounded
  <2> SUFFICES ASSUME ListsInv PROVE ListsStayBounded
    OBVIOUS
  <2>1. Cardinality(Creating) \in Nat /\ Cardinality(Saving) \in Nat /\ Cardinality(Requests) \in Nat
    BY ListsTyped, SomeRequests
  <2> QED BY <2>1, ListsTyped DEF Bounded, ListsStayBounded
<1>2. Init => I
  BY ListsInitInv DEF Init
<1>3. I /\ [Next]_vars => I'
  BY PartStep, ListsStep
<1>4. I => Shopper_ListsStayBounded
  BY <1>1 DEF Shopper_ListsStayBounded
<1>5. ShopperSpec => []ListsStayBounded
  BY <1>1, ListsInitInv, ListsStep, PTL DEF ShopperSpec
<1>6. Spec => []Shopper_ListsStayBounded
  <2> HIDE DEF I
  <2> QED BY <1>2, <1>3, <1>4, PTL DEF Spec
<1> QED BY <1>5, <1>6

-----------------------------------------------------------------------------
\* Who is signed in where, and what the orders say.
AccessType ==
    /\ login \in [Browsers -> Customers \cup {None}]
    /\ cookie \in [Browsers -> Nat]
    /\ order \in [OrderIds -> OrderRows \cup {None}]
    /\ issued \in Nat
    /\ DOMAIN jar = Browsers /\ \A b \in Browsers : DOMAIN jar[b] = OrderIds

\* A capability is sent to the browser whose guest ordered, and to no user.
OwnCapabilities ==
    /\ \A o \in Placed : order[o].owner \in Customers => order[o].token = None
    /\ \A m \in sent : m.to \in Browsers /\ m.order \in Placed /\ order[m.order].owner \in {m.to} \X Nat
    /\ \A b \in Browsers, o \in OrderIds : jar[b][o] # None => o \in Placed /\ order[o].owner \in {b} \X Nat

\* The guest who ordered had the cookie the browser has now, or an earlier one; signing in takes it away.
PastCookies ==
    \A o \in Placed, b \in Browsers, n \in Nat : order[o].owner = <<b, n>> =>
        n <= cookie[b] /\ (login[b] # None => n < cookie[b])

\* An order's capability is with the browser of the guest who ordered.
AccessInv == AccessType /\ OwnCapabilities /\ PastCookies

\* No order and no capability at first.
LEMMA AccessInitInv == OrderAccessInit => AccessInv
  BY DEF OrderAccessInit, AccessInv, AccessType, OwnCapabilities, PastCookies, Placed

\* A visitor is a customer or a guest of this browser.
LEMMA IdentityType ==
    ASSUME AccessType, NEW b \in Browsers
    PROVE  /\ IsGuest(b) => Identity(b) = <<b, cookie[b]>> /\ Identity(b) \in {b} \X Nat /\ Identity(b) \notin Customers
           /\ ~IsGuest(b) => Identity(b) = login[b] /\ Identity(b) \in Customers /\ Identity(b) \notin Browsers \X Nat
<1>1. cookie[b] \in Nat /\ login[b] \in Customers \cup {None} /\ <<b, cookie[b]>> \in Browsers \X Nat
  BY DEF AccessType
<1> QED BY <1>1, GuestsAssumption DEF Identity, IsGuest

\* An order is written, or made by its owner; what is sent to a guest is about the guest's own order.
LEMMA WriteOrder ==
    ASSUME AccessInv, UNCHANGED <<login, cookie, jar>>, issued' \in Nat, NEW o \in OrderIds, NEW v \in OrderRows,
           order' = [order EXCEPT ![o] = v], NEW b \in Browsers,
           o \in Placed => v.owner = order[o].owner,
           o \notin Placed => v.owner = Identity(b),
           v.owner \in Customers => v.token = None,
           sent' = sent \/ (v.owner \in {b} \X Nat /\ \E t : sent' = sent \cup {[to |-> b, order |-> o, token |-> t]})
    PROVE  AccessInv'
<1>1. v # None
  BY NoRowAssumption
<1>2. Placed' = Placed \cup {o} /\ \A p \in Placed' : order'[p] = IF p = o THEN v ELSE order[p]
  BY <1>1 DEF AccessInv, AccessType, Placed
<1>3. \A p \in Placed : order'[p].owner = order[p].owner
  BY <1>2
<1>4. AccessType'
  BY DEF AccessInv, AccessType
<1>5. OwnCapabilities'
  <2>1. \A p \in Placed' : order'[p].owner \in Customers => order'[p].token = None
    BY <1>2 DEF AccessInv, OwnCapabilities
  <2>2. \A m \in sent' : m.to \in Browsers /\ m.order \in Placed' /\ order'[m.order].owner \in {m.to} \X Nat
    BY <1>2, <1>3 DEF AccessInv, OwnCapabilities
  <2>3. \A c \in Browsers, p \in OrderIds : jar'[c][p] # None => p \in Placed' /\ order'[p].owner \in {c} \X Nat
    BY <1>2, <1>3 DEF AccessInv, OwnCapabilities
  <2> QED BY <2>1, <2>2, <2>3 DEF OwnCapabilities
<1>6. PastCookies'
  <2>1. ASSUME NEW c \in Browsers, NEW n \in Nat, Identity(b) = <<c, n>> PROVE n <= cookie[c] /\ login[c] = None
    <3>1. Identity(b) \in Browsers \X Nat
      BY <2>1
    <3>2. IsGuest(b) /\ c = b /\ n = cookie[b]
      BY <2>1, <3>1, IdentityType DEF AccessInv
    <3> QED BY <3>2 DEF IsGuest, AccessInv, AccessType
  <2> SUFFICES ASSUME NEW p \in Placed', NEW c \in Browsers, NEW n \in Nat, order'[p].owner = <<c, n>>
               PROVE  n <= cookie[c] /\ (login[c] # None => n < cookie[c])
    BY DEF PastCookies
  <2>2. CASE p \in Placed
    BY <1>3, <2>2 DEF AccessInv, PastCookies
  <2>3. CASE p \notin Placed
    <3>1. p = o /\ order'[p] = v
      BY <1>2, <2>3
    <3>2. Identity(b) = <<c, n>>
      BY <2>3, <3>1
    <3>3. n <= cookie[c] /\ login[c] = None
      BY <2>1, <3>2
    <3> QED BY <3>3
  <2> QED BY <2>2, <2>3
<1> QED BY <1>4, <1>5, <1>6 DEF AccessInv

\* Whoever is a guest issues a capability for the guest's own order.
LEMMA IssueInv ==
    ASSUME AccessInv, NEW b \in Browsers, NEW o \in OrderIds, NEW v \in OrderRows, Issue(b, o, v), UNCHANGED <<login, cookie, jar>>,
           v.owner = Identity(b), o \in Placed => v.owner = order[o].owner, v.owner \in Customers => v.token = None
    PROVE  AccessInv'
<1>0. issued \in Nat
  BY DEF AccessInv, AccessType
<1>1. CASE IsGuest(b) /\ v.status = "pending"
  <2> DEFINE w == [v EXCEPT !.token = issued + 1]
  <2>1. w \in OrderRows /\ w.owner = v.owner
    BY <1>0 DEF OrderRows
  <2>2. v.owner \in {b} \X Nat /\ v.owner \notin Customers
    BY <1>1, IdentityType DEF AccessInv
  <2>3. order' = [order EXCEPT ![o] = w] /\ issued' \in Nat /\ sent' = sent \cup {[to |-> b, order |-> o, token |-> issued + 1]}
    BY <1>0, <1>1 DEF Issue
  <2> HIDE DEF w
  <2> QED BY <2>1, <2>2, <2>3, WriteOrder
<1>2. CASE ~(IsGuest(b) /\ v.status = "pending")
  <2>1. order' = [order EXCEPT ![o] = v] /\ issued' \in Nat /\ sent' = sent
    BY <1>0, <1>2 DEF Issue
  <2> QED BY <2>1, WriteOrder
<1> QED BY <1>1, <1>2

\* Every step keeps the invariant, and whoever acts on an order owns it.
LEMMA AccessStep ==
    ASSUME AccessInv, [OrderAccessNext]_orderAccessVars
    PROVE  AccessInv' /\ [OnlyOwnersAct]_orderAccessVars
<1>0. AccessType /\ \A o \in Placed : o \in OrderIds /\ order[o] \in OrderRows
  BY DEF AccessInv, AccessType, Placed
<1>1. ASSUME NEW b \in Browsers, NEW key \in Keys, NEW ask \in Request, NEW o \in OrderIds, Checkout(b, key, ask, o)
      PROVE  AccessInv' /\ act' = act
  <2> DEFINE v == NewOrder(Identity(b), key, ask, ShipTo(b, ask), None)
  <2>1. ShipTo(b, ask) \in Request
    BY <1>1 DEF Checkout, ShipTo, Request
  <2>2. Identity(b) \in Customers \cup (Browsers \X Nat)
    BY <1>0, IdentityType
  <2>3. v \in OrderRows /\ v.owner = Identity(b) /\ v.token = None
    BY <2>1, <2>2 DEF NewOrder, OrderRows, Fingerprint
  <2>4. Issue(b, o, v) /\ UNCHANGED <<login, cookie, jar, act>> /\ o \notin Placed
    BY <1>1 DEF Checkout
  <2> HIDE DEF v
  <2> QED BY <2>3, <2>4, IssueInv
<1>2. ASSUME NEW b \in Browsers, NEW key \in Keys, NEW ask \in Request, Replay(b, key, ask) PROVE AccessInv' /\ act' = act
  <2>1. PICK o \in Placed : order[o].owner = Identity(b) /\ Issue(b, o, order[o])
    BY <1>2 DEF Replay, Existing
  <2>2. order[o].owner \in Customers => order[o].token = None
    BY <2>1 DEF AccessInv, OwnCapabilities
  <2>3. UNCHANGED <<login, cookie, jar, act>>
    BY <1>2 DEF Replay
  <2> QED BY <1>0, <2>1, <2>2, <2>3, IssueInv
<1>3. ASSUME NEW b \in Browsers, NEW u \in Customers, LogIn(b, u) PROVE AccessInv' /\ act' = act
  <2>1. AccessType'
    BY <1>0, <1>3 DEF LogIn, AccessType
  <2>2. OwnCapabilities'
    BY <1>3 DEF LogIn, AccessInv, OwnCapabilities, Placed
  <2>3. PastCookies'
    <3>1. \A c \in Browsers : cookie[c] \in Nat /\ cookie'[c] \in Nat /\ cookie'[c] >= cookie[c] /\ (c # b => login'[c] = login[c])
      BY <1>0, <1>3 DEF LogIn, AccessType
    <3>2. login[b] = None => cookie'[b] = cookie[b] + 1
      BY <1>0, <1>3 DEF LogIn, AccessType, IsGuest
    <3> QED BY <1>3, <3>1, <3>2 DEF LogIn, AccessInv, PastCookies, Placed
  <2> QED BY <1>3, <2>1, <2>2, <2>3 DEF LogIn, AccessInv
<1>4. ASSUME NEW b \in Browsers, LogOut(b) PROVE AccessInv' /\ act' = act
  BY <1>0, <1>4 DEF LogOut, AccessInv, AccessType, OwnCapabilities, PastCookies, Placed
<1>5. ASSUME NEW m \in sent, Deliver(m) PROVE AccessInv' /\ act' = act
  <2>1. m.to \in Browsers /\ m.order \in Placed /\ order[m.order].owner \in {m.to} \X Nat
    BY DEF AccessInv, OwnCapabilities
  <2>2. \A c \in Browsers, o \in OrderIds : jar'[c][o] = jar[c][o] \/ (c = m.to /\ o = m.order)
    BY <1>0, <1>5 DEF Deliver, AccessType
  <2>3. AccessType'
    BY <1>0, <1>5 DEF Deliver, AccessType
  <2> QED BY <1>5, <2>1, <2>2, <2>3 DEF Deliver, AccessInv, OwnCapabilities, PastCookies, Placed
<1>6. ASSUME NEW o \in Placed, NEW v \in OrderRows, order' = [order EXCEPT ![o] = v], v.owner = order[o].owner,
             v.token = order[o].token, UNCHANGED <<login, cookie, issued, sent, jar>>
      PROVE  AccessInv'
  BY <1>0, <1>6, NoRowAssumption DEF AccessInv, AccessType, OwnCapabilities, PastCookies, Placed
<1>7. ASSUME NEW o \in Placed, Close(o) \/ WindowPasses(o) PROVE AccessInv' /\ act' = act
  <2>1. CASE Close(o)
    BY <1>0, <1>6, <2>1 DEF Close, OrderRows
  <2>2. CASE WindowPasses(o)
    BY <1>0, <1>6, <2>2 DEF WindowPasses, OrderRows
  <2> QED BY <1>7, <2>1, <2>2
<1>8. ASSUME UNCHANGED <<login, cookie, order, issued, sent, jar>> PROVE AccessInv'
  BY <1>8 DEF AccessInv, AccessType, OwnCapabilities, PastCookies, Placed
<1>9. ASSUME NEW b \in Browsers, NEW o \in Placed, CreatePayment(b, o) PROVE AccessInv' /\ OnlyOwnersAct
  <2>1. CASE IsGuest(b)
    <3>1. jar[b][o] = order[o].token /\ jar[b][o] # None /\ order[o].owner \notin Customers
      BY <1>9, <2>1 DEF CreatePayment, Capability
    <3>2. order[o].owner \in {b} \X Nat
      BY <1>0, <3>1 DEF AccessInv, OwnCapabilities
    <3>3. Identity(b) \notin Customers /\ Identity(b)[1] = b
      BY <1>0, <2>1, IdentityType
    <3>4. act' = [by |-> Identity(b), order |-> o, what |-> "pay", token |-> jar[b][o]]
      BY <1>9, <2>1 DEF CreatePayment, Did
    <3> QED BY <1>8, <1>9, <3>1, <3>2, <3>3, <3>4 DEF OnlyOwnersAct, CreatePayment
  <2>2. CASE ~IsGuest(b)
    <3>1. order[o].owner = Identity(b) /\ Identity(b) \in Customers
      BY <1>0, <1>9, <2>2, IdentityType DEF CreatePayment
    <3>2. order[o].token = None
      BY <3>1 DEF AccessInv, OwnCapabilities
    <3>3. act' = [by |-> Identity(b), order |-> o, what |-> "pay", token |-> None]
      BY <1>9, <2>2 DEF CreatePayment, Did
    <3> QED BY <1>8, <1>9, <3>1, <3>2, <3>3 DEF OnlyOwnersAct, CreatePayment
  <2> QED BY <2>1, <2>2
<1>10. ASSUME NEW b \in Browsers, NEW o \in Placed, MayRead(b, o), NEW w, w # "pay", Did(b, o, w, None) PROVE OnlyOwnersAct
  <2>1. Identity(b) = login[b]
    BY <1>10 DEF MayRead, Identity
  <2> QED BY <1>10, <2>1 DEF MayRead, Did, OnlyOwnersAct
<1>11. ASSUME NEW b \in Browsers, NEW o \in Placed, CancelOrder(b, o) PROVE AccessInv' /\ OnlyOwnersAct
  <2>1. AccessInv'
    BY <1>0, <1>6, <1>11 DEF CancelOrder, OrderRows
  <2> QED BY <1>10, <1>11, <2>1 DEF CancelOrder
<1>12. ASSUME NEW b \in Browsers, NEW o \in Placed, GetGuestOrder(b, o) PROVE AccessInv' /\ OnlyOwnersAct
  <2>1. cookie[b] \in Nat /\ login[b] = None
    BY <1>0, <1>12 DEF GetGuestOrder, AccessInv, AccessType, PastCookies
  <2> QED BY <1>8, <1>12, <2>1 DEF GetGuestOrder, Did, OnlyOwnersAct, Identity
<1>13. ASSUME NEW b \in Browsers, NEW o \in Placed, GetOrder(b, o) \/ ListOrders(b, o) PROVE AccessInv' /\ OnlyOwnersAct
  <2>1. MayRead(b, o) /\ Did(b, o, "read", None)
    BY <1>13 DEF GetOrder, ListOrders, MayRead, IsGuest
  <2> QED BY <1>8, <1>10, <1>13, <2>1 DEF GetOrder, ListOrders
<1>14. CASE UNCHANGED orderAccessVars
  BY <1>8, <1>14 DEF orderAccessVars
<1>15. ASSUME act' = act PROVE OnlyOwnersAct
  BY <1>15 DEF OnlyOwnersAct
<1> QED
  BY <1>1, <1>2, <1>3, <1>4, <1>5, <1>7, <1>9, <1>11, <1>12, <1>13, <1>14, <1>15 DEF OrderAccessNext, OrderEndpoints

\* Nobody pays for another's order, staff included, and a guest only from the browser that ordered and with the capability
\* issued last, however checkouts, sign-ins and late answers interleave; others' orders are read and cancelled by staff
\* only (order_service.py, payment_service.py).
THEOREM OwnersAct ==
    /\ OrderAccessSpec => [][OnlyOwnersAct]_orderAccessVars
    /\ Spec => OrderAccess_OnlyOwnersAct
<1> DEFINE I == part = "access" => AccessInv
<1>1. Init => I
  BY AccessInitInv DEF Init
<1>2. I /\ [Next]_vars => I' /\ [part = "access" => OnlyOwnersAct]_orderAccessVars
  BY PartStep, AccessStep
<1>3. AccessInv /\ [OrderAccessNext]_orderAccessVars => AccessInv' /\ [OnlyOwnersAct]_orderAccessVars
  BY AccessStep
<1>4. OrderAccessSpec => [][OnlyOwnersAct]_orderAccessVars
  BY <1>3, AccessInitInv, PTL DEF OrderAccessSpec
<1>5. Spec => OrderAccess_OnlyOwnersAct
  <2> HIDE DEF I
  <2> QED BY <1>1, <1>2, PTL DEF Spec, OrderAccess_OnlyOwnersAct
<1> QED BY <1>4, <1>5

-----------------------------------------------------------------------------
\* A user as the administration sees them.
StaffRows == [admin : BOOLEAN, active : BOOLEAN, role : AllRoles \cup {None}]

\* A request in progress: what it is about.
EditSound(e) ==
    /\ e \in [op : {"none", "assign", "update", "promote", "demote", "deactivate"}, actor : StaffUsers \cup {None},
              target : StaffUsers \cup {None}, role : AllRoles \cup {None}, new : SUBSET Permissions, checked : BOOLEAN,
              me : StaffRows \cup {None}, it : StaffRows \cup {None}, perms : [Roles -> (SUBSET Permissions) \cup {None}]]
    /\ e.op = "none" => ~e.checked
    /\ e.op # "none" => e.actor \in StaffUsers /\ e.me \in StaffRows
    /\ e.op \in {"assign", "promote", "demote", "deactivate"} => e.target \in StaffUsers /\ e.it \in StaffRows
    /\ e.op = "assign" => e.role \in AllRoles
    /\ e.op = "update" => e.target = None /\ e.role \in Roles
    /\ e.op \in {"promote", "demote", "deactivate"} => e.role = None

\* Users, roles and requests.
StaffType ==
    /\ member \in [StaffUsers -> StaffRows]
    /\ perms \in [Roles -> (SUBSET Permissions) \cup {None}]
    /\ DOMAIN edit = Requests /\ \A p \in Requests : EditSound(edit[p])
    /\ changes \in Nat /\ reliedOnOld \in BOOLEAN

\* A role somebody holds exists.
RolesExist == \A u \in StaffUsers : member[u].role \in Roles => perms[member[u].role] # None

\* One request at a time holds the administrators' rows, and as it sees them one of them will manage roles.
OneChecked ==
    \A p \in Requests : edit[p].checked =>
        /\ \A q \in Requests \ {p} : ~edit[q].checked
        /\ \E u \in ActiveAdmins : "roles.manage" \in After(p, u)

\* An administrator holds NoAccess or was given what they hold.
Given == \A u \in StaffUsers : member[u].admin /\ member[u].role # NoAccess => u \in granted

\* A manager remains because the requests that could take roles.manage away run one at a time once they have checked.
StaffInv == StaffType /\ RolesExist /\ OneChecked /\ Given /\ ManagerRemains

\* The invariant says what is wanted.
LEMMA StaffSafe == StaffInv => ShopIsAdministered
<1> SUFFICES ASSUME StaffInv, NEW u \in StaffUsers, Access(member[u], perms) # {} PROVE u \in granted
  BY DEF StaffInv, ShopIsAdministered, OnlyGrantedAccess
<1>1. member[u].admin /\ RolePermissions(member[u].role, perms) # {}
  BY DEF Access
<1>2. member[u].role # NoAccess
  BY <1>1, RolesAssumption DEF RolePermissions
<1> QED BY <1>1, <1>2 DEF StaffInv, Given

\* The shop starts with the owner.
LEMMA StaffInitInv == StaffInit => StaffInv
<1> SUFFICES ASSUME StaffInit PROVE StaffInv
  OBVIOUS
<1>1. PICK admins \in (SUBSET StaffUsers) \ {{}} : member = [u \in StaffUsers |-> Account(u \in admins)] /\ granted = admins
  BY DEF StaffInit
<1>2. \A u \in StaffUsers : member[u] = [admin |-> u \in admins, active |-> TRUE, role |-> IF u \in admins THEN Owner ELSE None]
  BY <1>1 DEF Account
<1>a. ASSUME NEW u \in StaffUsers
      PROVE  (member[u].admin <=> u \in admins) /\ member[u].active /\ member[u].role = IF u \in admins THEN Owner ELSE None
  <2>1. CASE u \in admins
    <3>1. member[u] = [admin |-> TRUE, active |-> TRUE, role |-> Owner]
      BY <1>2, <2>1
    <3> QED BY <2>1, <3>1
  <2>2. CASE u \notin admins
    <3>0. (u \in admins) = FALSE
      BY <2>2
    <3>1. member[u] = [admin |-> FALSE, active |-> TRUE, role |-> None]
      BY <1>2, <2>2, <3>0, Zenon
    <3> QED BY <2>2, <3>1
  <2> QED BY <2>1, <2>2
<1>3. StaffType
  <2>1. member \in [StaffUsers -> StaffRows]
    BY <1>1 DEF Account, StaffRows, AllRoles
  <2>2. EditSound(NoEdit)
    BY DEF EditSound, NoEdit
  <2> QED BY <2>1, <2>2 DEF StaffInit, StaffType
<1>4. RolesExist /\ Given
  <2>1. \A u \in StaffUsers : member[u].role \notin Roles
    BY <1>a, RolesAssumption
  <2> QED BY <1>1, <1>a, <2>1 DEF RolesExist, Given
<1>5. OneChecked
  BY DEF StaffInit, OneChecked, NoEdit
<1>6. ManagerRemains
  <2>1. PICK u \in admins : u \in StaffUsers
    BY <1>1
  <2>2. u \in Managers
    <3>1. member[u].admin /\ member[u].active /\ member[u].role = Owner
      BY <1>a, <2>1
    <3>2. RolePermissions(Owner, perms) = Permissions
      BY RolesAssumption DEF RolePermissions
    <3>3. Access(member[u], perms) = Permissions
      BY <3>1, <3>2 DEF Access
    <3> QED BY <2>1, <3>3 DEF Managers, Permissions
  <2> QED BY <2>2 DEF ManagerRemains
<1> QED BY <1>3, <1>4, <1>5, <1>6 DEF StaffInv

\* Only created roles ask the table.
LEMMA PermissionStays ==
    ASSUME NEW x \in AllRoles \cup {None}, NEW S, NEW T, "roles.manage" \in RolePermissions(x, S),
           x \in Roles => S[x] = T[x] \/ "roles.manage" \in T[x]
    PROVE  "roles.manage" \in RolePermissions(x, T)
  BY RolesAssumption DEF RolePermissions, AllRoles

\* What a request that holds the rows saw stays so, while no active administrator's row changes and no held role loses
\* roles.manage.
LEMMA SeenStays ==
    ASSUME StaffInv, NEW p \in Requests, edit'[p] = edit[p], edit[p].checked,
           \A u \in ActiveAdmins : u \in ActiveAdmins' /\ member'[u].role = member[u].role,
           \A r \in Roles : \/ perms'[r] = perms[r]
                            \/ "roles.manage" \in perms'[r]
                            \/ \A u \in StaffUsers : member[u].role # r
    PROVE  \E u \in ActiveAdmins' : "roles.manage" \in After(p, u)'
<1>1. PICK u \in ActiveAdmins : "roles.manage" \in After(p, u)
  BY DEF StaffInv, OneChecked
<1>2. u \in StaffUsers /\ u \in ActiveAdmins' /\ member'[u].role = member[u].role /\ member[u].role \in AllRoles \cup {None}
  BY DEF ActiveAdmins, StaffInv, StaffType, StaffRows
<1>3. EditSound(edit[p]) /\ edit[p].op # "none" /\ edit[p].me.role \in AllRoles \cup {None}
  BY DEF StaffInv, StaffType, EditSound, StaffRows
<1> DEFINE S == SeenPermissions(p)
           T == [r \in Roles |-> IF r \in Loaded(p) THEN edit[p].perms[r] ELSE perms'[r]]
           x == SeenRole(p, u)
<1>4. SeenPermissions(p)' = T /\ SeenRole(p, u)' = x
  BY <1>2 DEF SeenPermissions, Loaded, SeenRole
<1>5. \A r \in Loaded(p) : S[r] = T[r]
  BY DEF Loaded, SeenPermissions
<1>6. x \in AllRoles \cup {None} /\ (x \in Roles => S[x] = T[x] \/ "roles.manage" \in T[x])
  BY <1>2, <1>3 DEF SeenRole, SeenPermissions, Loaded
<1>7. edit[p].role \in Roles => S[edit[p].role] = T[edit[p].role]
  BY <1>5 DEF Loaded
<1>8. edit[p].role \in AllRoles \cup {None}
  BY <1>3 DEF EditSound
<1>9. After(p, u)' = CASE edit[p].op \in {"demote", "deactivate"} /\ u = edit[p].target -> {}
                       [] edit[p].op = "assign" /\ u = edit[p].target -> RolePermissions(edit[p].role, T)
                       [] edit[p].op = "update" /\ x = edit[p].role -> edit[p].new
                       [] OTHER -> RolePermissions(x, T)
  <2> HIDE DEF T, x
  <2> QED BY <1>4 DEF After, RolePermissions
<1>10. After(p, u) = CASE edit[p].op \in {"demote", "deactivate"} /\ u = edit[p].target -> {}
                       [] edit[p].op = "assign" /\ u = edit[p].target -> RolePermissions(edit[p].role, S)
                       [] edit[p].op = "update" /\ x = edit[p].role -> edit[p].new
                       [] OTHER -> RolePermissions(x, S)
  BY DEF After
<1> HIDE DEF S, T, x
<1>11. "roles.manage" \in After(p, u)'
  <2>1. CASE edit[p].op \in {"demote", "deactivate"} /\ u = edit[p].target
    BY <1>1, <1>10, <2>1
  <2>2. CASE edit[p].op = "assign" /\ u = edit[p].target
    <3>1. After(p, u) = RolePermissions(edit[p].role, S) /\ After(p, u)' = RolePermissions(edit[p].role, T)
      BY <1>9, <1>10, <2>2
    <3> QED BY <1>1, <1>7, <1>8, <3>1, PermissionStays
  <2>3. CASE edit[p].op = "update" /\ x = edit[p].role
    BY <1>1, <1>9, <1>10, <2>3
  <2>4. CASE /\ ~(edit[p].op \in {"demote", "deactivate"} /\ u = edit[p].target)
             /\ ~(edit[p].op = "assign" /\ u = edit[p].target)
             /\ ~(edit[p].op = "update" /\ x = edit[p].role)
    <3>1. After(p, u) = RolePermissions(x, S) /\ After(p, u)' = RolePermissions(x, T)
      BY <1>9, <1>10, <2>4
    <3> QED BY <1>1, <1>6, <3>1, PermissionStays
  <2> QED BY <2>1, <2>2, <2>3, <2>4
<1> QED BY <1>2, <1>11

\* Nothing disturbs a request that holds the rows.
LEMMA CheckedStays ==
    ASSUME StaffInv, \A p \in Requests : edit'[p].checked => edit'[p] = edit[p],
           \A p \in Requests : edit'[p].checked =>
               /\ \A u \in ActiveAdmins : u \in ActiveAdmins' /\ member'[u].role = member[u].role
               /\ \A r \in Roles : \/ perms'[r] = perms[r]
                                   \/ "roles.manage" \in perms'[r]
                                   \/ \A u \in StaffUsers : member[u].role # r
    PROVE  OneChecked'
<1> SUFFICES ASSUME NEW p \in Requests, edit'[p].checked
             PROVE  (\A q \in Requests \ {p} : ~edit'[q].checked) /\ \E u \in ActiveAdmins' : "roles.manage" \in After(p, u)'
  BY DEF OneChecked
<1>1. \A q \in Requests \ {p} : ~edit'[q].checked
  BY DEF StaffInv, OneChecked
<1>2. edit'[p] = edit[p] /\ edit[p].checked
  OBVIOUS
<1> QED BY <1>1, <1>2, SeenStays

\* A manager keeps roles.manage when neither row nor role changes for the worse.
LEMMA ManagerStays ==
    ASSUME StaffInv, NEW u \in Managers, member'[u].role = member[u].role, member'[u].admin, member'[u].active,
           \A r \in Roles : \/ perms'[r] = perms[r]
                            \/ "roles.manage" \in perms'[r]
                            \/ \A v \in StaffUsers : member[v].role # r
    PROVE  u \in Managers'
<1>1. u \in StaffUsers /\ "roles.manage" \in RolePermissions(member[u].role, perms) /\ member[u].role \in AllRoles \cup {None}
  BY DEF Managers, Access, StaffInv, StaffType, StaffRows
<1>2. "roles.manage" \in RolePermissions(member[u].role, perms')
  BY <1>1, PermissionStays
<1>3. Access(member[u], perms)' = RolePermissions(member[u].role, perms')
  BY DEF Access, RolePermissions
<1> QED BY <1>1, <1>2, <1>3 DEF Managers

\* A request arrives.
LEMMA ArriveInv ==
    ASSUME StaffInv, NEW p \in Requests, NEW op \in {"assign", "update", "promote", "demote", "deactivate"}, NEW actor \in StaffUsers,
           NEW target \in StaffUsers \cup {None}, NEW r \in AllRoles \cup {None}, NEW new \in SUBSET Permissions,
           op # "update" => target \in StaffUsers, op = "assign" => r \in AllRoles, op = "update" => target = None /\ r \in Roles,
           op \in {"promote", "demote", "deactivate"} => r = None,
           Arrive(p, op, actor, target, r, new)
    PROVE  StaffInv'
<1> DEFINE e == [op |-> op, actor |-> actor, target |-> target, role |-> r, new |-> new, checked |-> FALSE,
                 me |-> member[actor], it |-> IF target = None THEN None ELSE member[target],
                 perms |-> [x \in Roles |-> IF x \in {member[actor].role, r} THEN perms[x] ELSE None]]
<1>1. edit' = [edit EXCEPT ![p] = e] /\ UNCHANGED <<member, perms, granted, reliedOnOld>> /\ changes' = changes + 1
  BY DEF Arrive
<1>2. EditSound(e)
  BY RolesAssumption DEF EditSound, StaffInv, StaffType
<1>3. ~e.checked
  OBVIOUS
<1> HIDE DEF e
<1>4. StaffType'
  BY <1>1, <1>2 DEF StaffInv, StaffType
<1>5. \A q \in Requests : edit'[q].checked => edit'[q] = edit[q]
  BY <1>1, <1>3 DEF StaffInv, StaffType
<1>6. ActiveAdmins' = ActiveAdmins
  BY <1>1 DEF ActiveAdmins
<1>7. OneChecked'
  BY <1>1, <1>5, <1>6, CheckedStays
<1> QED BY <1>1, <1>4, <1>7 DEF StaffInv, RolesExist, Given, ManagerRemains, Managers, Access, RolePermissions

\* A request is refused.
LEMMA RefuseInv == ASSUME StaffInv, NEW p \in Requests, Refuse(p) PROVE StaffInv'
<1>1. edit' = [edit EXCEPT ![p] = NoEdit] /\ UNCHANGED <<member, perms, changes, granted, reliedOnOld>>
  BY DEF Refuse
<1>2. EditSound(NoEdit) /\ ~NoEdit.checked
  BY DEF EditSound, NoEdit
<1>3. StaffType'
  BY <1>1, <1>2 DEF StaffInv, StaffType
<1>4. \A q \in Requests : edit'[q].checked => edit'[q] = edit[q]
  BY <1>1, <1>2 DEF StaffInv, StaffType
<1>5. ActiveAdmins' = ActiveAdmins
  BY <1>1 DEF ActiveAdmins
<1>6. OneChecked'
  BY <1>1, <1>4, <1>5, CheckedStays
<1> QED BY <1>1, <1>3, <1>6 DEF StaffInv, RolesExist, Given, ManagerRemains, Managers, Access, RolePermissions

\* A request takes the rows and checks what it relies on.
LEMMA CheckInv == ASSUME StaffInv, NEW p \in Requests, Check(p) PROVE StaffInv'
<1> DEFINE e == [edit[p] EXCEPT !.checked = TRUE]
<1>0. EditSound(edit[p]) /\ edit[p].op # "none"
  BY DEF StaffInv, StaffType, Check
<1>1. edit' = [edit EXCEPT ![p] = e] /\ UNCHANGED <<member, perms, changes, granted, reliedOnOld>>
  BY DEF Check
<1>2. EditSound(e)
  BY <1>0 DEF EditSound
<1>3. /\ e.op = edit[p].op /\ e.actor = edit[p].actor /\ e.target = edit[p].target /\ e.role = edit[p].role /\ e.new = edit[p].new
      /\ e.me = edit[p].me /\ e.perms = edit[p].perms
  BY <1>0 DEF EditSound
<1> HIDE DEF e
<1>4. StaffType'
  BY <1>1, <1>2 DEF StaffInv, StaffType
<1>5. edit'[p] = e /\ \A q \in Requests \ {p} : edit'[q] = edit[q]
  BY <1>1 DEF StaffInv, StaffType
<1>6. ActiveAdmins' = ActiveAdmins
  BY <1>1 DEF ActiveAdmins
<1>7. \A u \in ActiveAdmins : After(p, u)' = After(p, u)
  BY <1>1, <1>3, <1>5 DEF After, RolePermissions, SeenPermissions, SeenRole, Loaded
<1>8. OneChecked'
  <2>1. \E u \in ActiveAdmins' : "roles.manage" \in After(p, u)'
    BY <1>6, <1>7 DEF Check
  <2>2. \A q \in Requests \ {p} : ~edit'[q].checked
    BY <1>5 DEF Check, AdminsFree
  <2> QED BY <2>1, <2>2 DEF OneChecked
<1> QED BY <1>1, <1>4, <1>8 DEF StaffInv, RolesExist, Given, ManagerRemains, Managers, Access, RolePermissions

\* Creating a role and deleting one concern roles that nobody holds.
LEMMA UnheldRoleInv ==
    ASSUME StaffInv, NEW r \in Roles, \A u \in StaffUsers : member[u].role # r, NEW s \in (SUBSET Permissions) \cup {None},
           perms' = [perms EXCEPT ![r] = s], UNCHANGED <<member, edit, changes, granted, reliedOnOld>>
    PROVE  StaffInv'
<1>1. StaffType' /\ RolesExist' /\ Given'
  BY DEF StaffInv, StaffType, RolesExist, Given
<1>2. \A x \in Roles : perms'[x] = perms[x] \/ \A u \in StaffUsers : member[u].role # x
  BY DEF StaffInv, StaffType
<1>3. ActiveAdmins' = ActiveAdmins
  BY DEF ActiveAdmins
<1>4. OneChecked'
  BY <1>2, <1>3, CheckedStays
<1>5. \A u \in Managers : u \in Managers'
  <2> SUFFICES ASSUME NEW u \in Managers PROVE u \in Managers'
    OBVIOUS
  <2>1. member'[u].role = member[u].role /\ member'[u].admin /\ member'[u].active
    BY DEF Managers, Access
  <2> QED BY <1>2, <2>1, ManagerStays
<1> QED BY <1>1, <1>4, <1>5 DEF StaffInv, ManagerRemains

\* Roles are created and deleted.
LEMMA RoleActions == ASSUME StaffInv, NEW r \in Roles, DeleteRole(r) \/ \E new \in SUBSET Permissions : CreateRole(r, new) PROVE StaffInv'
<1>1. CASE DeleteRole(r)
  BY <1>1, UnheldRoleInv DEF DeleteRole
<1>2. ASSUME NEW new \in SUBSET Permissions, CreateRole(r, new) PROVE StaffInv'
  <2>1. \A u \in StaffUsers : member[u].role # r
    BY <1>2 DEF CreateRole, StaffInv, RolesExist
  <2> QED BY <1>2, <2>1, UnheldRoleInv DEF CreateRole
<1> QED BY <1>1, <1>2

\* An administrator is made on the server.
LEMMA BootstrapInv == ASSUME StaffInv, NEW u \in StaffUsers, Bootstrap(u) PROVE StaffInv'
<1> DEFINE v == [member[u] EXCEPT !.admin = TRUE]
<1>1. /\ member' = [member EXCEPT ![u] = v] /\ granted' = granted \cup {u} /\ UNCHANGED <<perms, edit, reliedOnOld>> /\ changes' \in Nat
      /\ ~member[u].admin
  BY DEF Bootstrap, StaffInv, StaffType
<1>2. v \in StaffRows /\ v.role = member[u].role /\ v.active = member[u].active /\ v.admin = TRUE
  BY DEF StaffInv, StaffType, StaffRows
<1> HIDE DEF v
<1>3. \A w \in StaffUsers : member'[w] = IF w = u THEN v ELSE member[w]
  BY <1>1 DEF StaffInv, StaffType
<1>4. StaffType'
  BY <1>1, <1>2 DEF StaffInv, StaffType
<1>5. RolesExist' /\ Given'
  BY <1>1, <1>2, <1>3 DEF StaffInv, RolesExist, Given
<1>6. \A w \in ActiveAdmins : w \in ActiveAdmins' /\ member'[w].role = member[w].role
  BY <1>1, <1>3 DEF ActiveAdmins
<1>7. OneChecked'
  BY <1>1, <1>6, CheckedStays
<1>8. ASSUME NEW w \in Managers PROVE w \in Managers'
  <2>1. w \in StaffUsers /\ w # u /\ member[w].admin /\ member[w].active
    BY <1>1 DEF Managers, Access
  <2> QED BY <1>1, <1>3, <2>1, ManagerStays
<1> QED BY <1>1, <1>4, <1>5, <1>7, <1>8 DEF StaffInv, ManagerRemains

\* The rows and roles after a commit: only the target's row and the role that is edited change.
LEMMA CommitChanges ==
    ASSUME StaffInv, NEW p \in Requests, Commit(p)
    PROVE  /\ member' \in [StaffUsers -> StaffRows]
           /\ \A u \in StaffUsers \ {edit[p].target} : member'[u] = member[u]
           /\ edit[p].op = "update" => member' = member
           /\ edit[p].op = "assign" => LET t == edit[p].target IN
                member'[t].role = edit[p].role /\ member'[t].admin = member[t].admin /\ member'[t].active = member[t].active
           /\ edit[p].op = "promote" => LET t == edit[p].target IN
                IF edit[p].it.admin THEN member' = member ELSE member'[t].admin = TRUE /\ member'[t].role = NoAccess
           /\ edit[p].op = "demote" => LET t == edit[p].target IN
                IF edit[p].it.admin THEN member'[t].admin = FALSE /\ member'[t].role = None ELSE member' = member
           /\ edit[p].op = "deactivate" => LET t == edit[p].target IN
                member'[t].admin = member[t].admin /\ member'[t].role = member[t].role /\ member'[t].active = FALSE
<1>0. EditSound(edit[p]) /\ edit[p].op # "none" /\ member' = Changed(p) /\ member \in [StaffUsers -> StaffRows]
  BY DEF Commit, StaffInv, StaffType
<1> DEFINE t == edit[p].target
<1>1. CASE edit[p].op = "update"
  BY <1>0, <1>1 DEF Changed, EditSound
<1>2. CASE edit[p].op = "assign"
  <2> DEFINE v == [member[t] EXCEPT !.role = edit[p].role]
  <2>1. t \in StaffUsers /\ edit[p].role \in AllRoles
    BY <1>0, <1>2 DEF EditSound
  <2>2. member' = [member EXCEPT ![t] = v]
    BY <1>0, <1>2 DEF Changed
  <2>3. v \in StaffRows /\ v.role = edit[p].role /\ v.admin = member[t].admin /\ v.active = member[t].active
    BY <1>0, <2>1 DEF StaffRows
  <2> HIDE DEF v
  <2> QED BY <1>0, <1>2, <2>1, <2>2, <2>3
<1>3. CASE edit[p].op = "promote"
  <2> DEFINE v == [[member[t] EXCEPT !.admin = TRUE] EXCEPT !.role = NoAccess]
  <2>1. t \in StaffUsers
    BY <1>0, <1>3 DEF EditSound
  <2>2. member' = IF edit[p].it.admin THEN member ELSE [member EXCEPT ![t] = v]
    BY <1>0, <1>3, <2>1 DEF Changed, PromotedRole
  <2>3. v \in StaffRows /\ v.role = NoAccess /\ v.admin = TRUE
    BY <1>0, <2>1 DEF StaffRows, AllRoles
  <2> HIDE DEF v
  <2> QED BY <1>0, <1>3, <2>1, <2>2, <2>3
<1>4. CASE edit[p].op = "demote"
  <2> DEFINE v == LeftStaff(member[t])
  <2>1. t \in StaffUsers
    BY <1>0, <1>4 DEF EditSound
  <2>2. member' = IF edit[p].it.admin THEN [member EXCEPT ![t] = v] ELSE member
    BY <1>0, <1>4 DEF Changed
  <2>3. v \in StaffRows /\ v.role = None /\ v.admin = FALSE
    BY <1>0, <2>1 DEF StaffRows, LeftStaff
  <2> HIDE DEF v
  <2> QED BY <1>0, <1>4, <2>1, <2>2, <2>3
<1>5. CASE edit[p].op = "deactivate"
  <2> DEFINE v == [member[t] EXCEPT !.active = FALSE]
  <2>1. t \in StaffUsers
    BY <1>0, <1>5 DEF EditSound
  <2>2. member' = [member EXCEPT ![t] = v]
    BY <1>0, <1>5 DEF Changed
  <2>3. v \in StaffRows /\ v.role = member[t].role /\ v.admin = member[t].admin /\ v.active = FALSE
    BY <1>0, <2>1 DEF StaffRows
  <2> HIDE DEF v
  <2> QED BY <1>0, <1>5, <2>1, <2>2, <2>3
<1> QED BY <1>0, <1>1, <1>2, <1>3, <1>4, <1>5 DEF EditSound

\* What a request with current rows believes about others is so.
LEMMA SeenIsSo ==
    ASSUME StaffInv, NEW p \in Requests, edit[p].op # "none", ~ReliesOnOld(p), NEW u \in StaffUsers
    PROVE  /\ SeenRole(p, u) = member[u].role
           /\ SeenPermissions(p) = perms
           /\ edit[p].target # None => edit[p].it = member[edit[p].target]
<1>1. member[edit[p].actor] = edit[p].me /\ (edit[p].target # None => member[edit[p].target] = edit[p].it)
      /\ \A r \in Loaded(p) : perms[r] = edit[p].perms[r]
  BY DEF ReliesOnOld
<1>2. perms = [r \in Roles |-> perms[r]]
  BY DEF StaffInv, StaffType
<1>3. SeenPermissions(p) = [r \in Roles |-> perms[r]]
  BY <1>1 DEF SeenPermissions
<1> QED BY <1>1, <1>2, <1>3 DEF SeenRole

\* A commit that relied on what is still so leaves a manager.
LEMMA CommitLeavesManager ==
    ASSUME StaffInv, NEW p \in Requests, Commit(p), ~ReliesOnOld(p), Managers # {}
    PROVE  Managers' # {}
<1> DEFINE t == edit[p].target
           x == edit[p].role
<1>0. EditSound(edit[p]) /\ edit[p].op # "none" /\ member \in [StaffUsers -> StaffRows] /\ perms \in [Roles -> (SUBSET Permissions) \cup {None}]
  BY DEF Commit, StaffInv, StaffType
<1>1. perms' = IF edit[p].op = "update" THEN [perms EXCEPT ![x] = edit[p].new] ELSE perms
  BY DEF Commit
<1>2. CASE ~Checks(p)
  <2>1. \A r \in Roles : perms'[r] = perms[r] \/ "roles.manage" \in perms'[r]
    BY <1>0, <1>1, <1>2 DEF Checks, EditSound
  <2>2. PICK u \in Managers : TRUE
    OBVIOUS
  <2>3. u \in StaffUsers /\ member[u].admin /\ member[u].active
    BY DEF Managers, Access
  <2>4. member'[u] = member[u]
    <3>1. CASE u # t
      BY <2>3, <3>1, CommitChanges
    <3>2. CASE edit[p].op = "update"
      BY <3>2, CommitChanges
    <3>3. CASE u = t /\ edit[p].op # "update"
      <4>1. edit[p].it = member[u]
        BY <2>3, <3>3, <1>0, RolesAssumption, SeenIsSo
      <4>2. edit[p].op = "promote"
        BY <1>0, <1>2, <2>3, <3>3, <4>1 DEF Checks, EditSound
      <4> QED BY <2>3, <4>1, <4>2, CommitChanges
    <3> QED BY <3>1, <3>2, <3>3
  <2> QED BY <2>1, <2>3, <2>4, ManagerStays
<1>3. CASE Checks(p)
  <2>1. edit[p].checked
    BY <1>3 DEF Commit
  <2>2. PICK u \in ActiveAdmins : "roles.manage" \in After(p, u)
    BY <2>1 DEF StaffInv, OneChecked
  <2>3. u \in StaffUsers /\ member[u].admin /\ member[u].active /\ member[u].role \in AllRoles \cup {None}
    BY <1>0 DEF ActiveAdmins, StaffRows
  <2>4. SeenRole(p, u) = member[u].role /\ SeenPermissions(p) = perms
    BY <1>0, <2>3, SeenIsSo
  <2>5. edit[p].op \in {"assign", "update", "demote", "deactivate"}
    BY <1>0, <1>3 DEF Checks, EditSound
  <2>6. ASSUME member'[u].admin, member'[u].active, "roles.manage" \in RolePermissions(member'[u].role, perms') PROVE u \in Managers'
    <3>1. Access(member[u], perms)' = RolePermissions(member'[u].role, perms')
      BY <2>6 DEF Access, RolePermissions
    <3> QED BY <2>3, <2>6, <3>1 DEF Managers
  <2>7. CASE edit[p].op = "update"
    <3>1. member' = member /\ x \in Roles /\ perms' = [perms EXCEPT ![x] = edit[p].new]
      BY <1>0, <1>1, <2>7, CommitChanges DEF EditSound
    <3>2. CASE member[u].role = x
      <4>1. After(p, u) = edit[p].new
        BY <2>4, <2>7, <3>2 DEF After
      <4>2. RolePermissions(x, perms') = edit[p].new
        BY <1>0, <3>1, RolesAssumption DEF RolePermissions
      <4> QED BY <2>2, <2>3, <2>6, <3>1, <3>2, <4>1, <4>2
    <3>3. CASE member[u].role # x
      <4>1. After(p, u) = RolePermissions(member[u].role, perms)
        BY <2>4, <2>7, <3>3 DEF After
      <4>2. member[u].role \in Roles => perms[member[u].role] = perms'[member[u].role]
        BY <1>0, <3>1, <3>3
      <4>3. "roles.manage" \in RolePermissions(member[u].role, perms')
        BY <2>2, <2>3, <4>1, <4>2, PermissionStays
      <4> QED BY <2>3, <2>6, <3>1, <4>3
    <3> QED BY <3>2, <3>3
  <2>8. CASE edit[p].op = "assign" /\ u = t
    <3>1. After(p, u) = RolePermissions(x, perms)
      BY <2>4, <2>8 DEF After
    <3>2. perms' = perms /\ member'[u].role = x /\ member'[u].admin /\ member'[u].active
      BY <1>1, <2>3, <2>8, CommitChanges
    <3> QED BY <2>2, <2>6, <3>1, <3>2
  <2>9. CASE edit[p].op # "update" /\ u # t
    <3>1. After(p, u) = RolePermissions(member[u].role, perms)
      BY <2>4, <2>9 DEF After
    <3>2. perms' = perms /\ member'[u] = member[u]
      BY <1>1, <2>3, <2>9, CommitChanges
    <3> QED BY <2>2, <2>3, <2>6, <3>1, <3>2
  <2>10. CASE edit[p].op \in {"demote", "deactivate"} /\ u = t
    BY <2>2, <2>10 DEF After
  <2> QED BY <2>5, <2>7, <2>8, <2>9, <2>10
<1> QED BY <1>2, <1>3

\* A request writes.
LEMMA CommitInv == ASSUME StaffInv, NEW p \in Requests, Commit(p) PROVE StaffInv'
<1> DEFINE t == edit[p].target
           x == edit[p].role
<1>0. EditSound(edit[p]) /\ edit[p].op # "none" /\ member \in [StaffUsers -> StaffRows] /\ perms \in [Roles -> (SUBSET Permissions) \cup {None}]
  BY DEF Commit, StaffInv, StaffType
<1>1. perms' = (IF edit[p].op = "update" THEN [perms EXCEPT ![x] = edit[p].new] ELSE perms) /\ (x \in Roles => perms[x] # None)
      /\ edit' = [edit EXCEPT ![p] = NoEdit] /\ changes' = changes /\ reliedOnOld' = (reliedOnOld \/ ReliesOnOld(p))
  BY DEF Commit
<1>2. granted' = CASE edit[p].op = "assign" -> granted \cup {t}
                   [] edit[p].op = "demote" /\ edit[p].it.admin -> granted \ {t}
                   [] OTHER -> granted
  BY DEF Commit
<1>3. EditSound(NoEdit) /\ ~NoEdit.checked
  BY DEF EditSound, NoEdit
<1>4. StaffType'
  <2>1. member' \in [StaffUsers -> StaffRows]
    BY CommitChanges
  <2>2. perms' \in [Roles -> (SUBSET Permissions) \cup {None}]
    BY <1>0, <1>1 DEF EditSound
  <2>3. reliedOnOld' \in BOOLEAN
    BY <1>1 DEF StaffInv, StaffType
  <2> QED BY <1>1, <1>3, <2>1, <2>2, <2>3 DEF StaffInv, StaffType
<1>5. \A q \in Requests : edit'[q] = IF q = p THEN NoEdit ELSE edit[q]
  BY <1>1 DEF StaffInv, StaffType
<1>6. RolesExist'
  <2> SUFFICES ASSUME NEW u \in StaffUsers, member'[u].role \in Roles PROVE perms'[member'[u].role] # None
    BY DEF RolesExist
  <2>1. \A r \in Roles : perms[r] # None => perms'[r] # None
    BY <1>0, <1>1, NoRoleAssumption DEF EditSound
  <2>2. member'[u].role = member[u].role \/ member'[u].role = x
    <3>1. CASE u # t
      BY <3>1, CommitChanges
    <3>2. CASE u = t /\ edit[p].op = "promote"
      BY <3>2, CommitChanges, RolesAssumption
    <3>3. CASE u = t /\ edit[p].op = "demote"
      BY <3>3, CommitChanges, RolesAssumption
    <3>4. CASE u = t /\ edit[p].op \in {"update", "assign", "deactivate"}
      BY <3>4, CommitChanges
    <3> QED BY <1>0, <3>1, <3>2, <3>3, <3>4 DEF EditSound
  <2>3. perms[member'[u].role] # None
    BY <1>1, <2>2 DEF StaffInv, RolesExist
  <2> QED BY <2>1, <2>3
<1>7. Given'
  <2> SUFFICES ASSUME NEW u \in StaffUsers, member'[u].admin, member'[u].role # NoAccess PROVE u \in granted'
    BY DEF Given
  <2>1. CASE u # t
    <3>1. u \in granted
      BY <2>1, CommitChanges DEF StaffInv, Given
    <3> QED BY <1>2, <2>1, <3>1
  <2>2. CASE u = t /\ edit[p].op = "assign"
    BY <1>2, <2>2
  <2>3. CASE u = t /\ edit[p].op = "demote"
    <3>1. ~edit[p].it.admin /\ member' = member
      BY <2>3, CommitChanges
    <3> QED BY <1>2, <2>3, <3>1 DEF StaffInv, Given
  <2>4. CASE u = t /\ edit[p].op \in {"update", "promote", "deactivate"}
    <3>1. member[u].admin /\ member[u].role # NoAccess
      BY <2>4, CommitChanges
    <3> QED BY <1>2, <2>4, <3>1 DEF StaffInv, Given
  <2> QED BY <1>0, <2>1, <2>2, <2>3, <2>4 DEF EditSound
<1>8. OneChecked'
  <2>1. ASSUME NEW q \in Requests, edit'[q].checked
        PROVE  /\ edit'[q] = edit[q]
               /\ \A u \in ActiveAdmins : u \in ActiveAdmins' /\ member'[u].role = member[u].role
               /\ \A r \in Roles : perms'[r] = perms[r] \/ "roles.manage" \in perms'[r]
    <3>1. q # p /\ edit'[q] = edit[q] /\ edit[q].checked /\ ~edit[p].checked
      BY <1>3, <1>5, <2>1 DEF StaffInv, OneChecked
    <3>2. t \notin ActiveAdmins /\ ~Checks(p)
      BY <3>1 DEF Commit, AdminsFree
    <3>3. \A u \in ActiveAdmins : member'[u] = member[u] /\ u \in StaffUsers
      BY <3>2, CommitChanges DEF ActiveAdmins
    <3>4. \A r \in Roles : perms'[r] = perms[r] \/ "roles.manage" \in perms'[r]
      BY <1>0, <1>1, <3>2 DEF Checks, EditSound
    <3> QED BY <3>1, <3>3, <3>4 DEF ActiveAdmins
  <2> QED BY <2>1, CheckedStays
<1>9. ManagerRemains'
  BY <1>1, CommitLeavesManager DEF StaffInv, ManagerRemains
<1> QED BY <1>4, <1>6, <1>7, <1>8, <1>9 DEF StaffInv

\* Every step keeps the invariant.
LEMMA StaffStep == StaffInv /\ [StaffNext]_staffVars => StaffInv'
<1> SUFFICES ASSUME StaffInv, [StaffNext]_staffVars PROVE StaffInv'
  OBVIOUS
<1>1. ASSUME NEW p \in Requests, NEW actor \in StaffUsers, RoleEndpoints(p, actor) PROVE StaffInv'
  <2>1. ASSUME NEW target \in StaffUsers, NEW r \in AllRoles, Arrive(p, "assign", actor, target, r, {}) PROVE StaffInv'
    BY <2>1, ArriveInv
  <2>2. ASSUME NEW r \in Roles, NEW new \in SUBSET Permissions, Arrive(p, "update", actor, None, r, new) PROVE StaffInv'
    <3>1. r \in AllRoles \cup {None}
      BY DEF AllRoles
    <3> QED BY <2>2, <3>1, ArriveInv
  <2> QED BY <1>1, <2>1, <2>2 DEF RoleEndpoints
<1>2. ASSUME NEW p \in Requests, NEW actor \in StaffUsers, UserEndpoints(p, actor) PROVE StaffInv'
  <2>1. PICK target \in StaffUsers, op \in {"promote", "demote", "deactivate"} : Arrive(p, op, actor, target, None, {})
    BY <1>2 DEF UserEndpoints
  <2> QED BY <2>1, ArriveInv
<1>3. CASE UNCHANGED staffVars
  <2>1. UNCHANGED <<member, perms, edit, changes, granted, reliedOnOld>>
    BY <1>3 DEF staffVars
  <2>2. ActiveAdmins' = ActiveAdmins
    BY <2>1 DEF ActiveAdmins
  <2>3. OneChecked'
    BY <2>1, <2>2, CheckedStays
  <2> QED BY <2>1, <2>3 DEF StaffInv, StaffType, RolesExist, Given, ManagerRemains, Managers, Access, RolePermissions
<1> QED
  BY <1>1, <1>2, <1>3, CheckInv, RefuseInv, CommitInv, RoleActions, BootstrapInv DEF StaffNext

\* However the changes of administrators interleave, somebody can manage roles unless a request relied on a row that had
\* changed since it loaded it, and nobody administers what they were not given (role_service.py, access_service.py).
THEOREM AlwaysAdministered ==
    /\ StaffSpec => []ShopIsAdministered
    /\ Spec => []Staff_ShopIsAdministered
<1> DEFINE I == part = "staff" => StaffInv
<1>1. StaffInv => ShopIsAdministered
  BY StaffSafe
<1>2. Init => I
  BY StaffInitInv DEF Init
<1>3. I /\ [Next]_vars => I'
  BY PartStep, StaffStep
<1>4. I => Staff_ShopIsAdministered
  BY <1>1 DEF Staff_ShopIsAdministered
<1>5. StaffSpec => []ShopIsAdministered
  BY <1>1, StaffInitInv, StaffStep, PTL DEF StaffSpec
<1>6. Spec => []Staff_ShopIsAdministered
  <2> HIDE DEF I
  <2> QED BY <1>2, <1>3, <1>4, PTL DEF Spec
<1> QED BY <1>5, <1>6

-----------------------------------------------------------------------------
\* A refresh token's row.
TokenRows == [fam : Nat, parent : Nat, live : BOOLEAN, rotated : BOOLEAN, replays : Nat, born : Nat]

\* What a request about tokens relies on: the row it locked is as it was, and whoever signs out sees every live token.
RefreshSound(x) ==
    x.op = "refresh" =>
        /\ x.id \in Ids
        /\ x.plan = "rotate" => rt[x.id].live
        /\ x.plan = "replay" => rt[x.id].replays < MaxReplays
        /\ x.plan # "revoke" /\ x.pw = user.pw => rt[x.id].born = user.pw \/ rt[x.id].fam \in survivors

\* A request that is revoking every token.
SignsOut(x) == x.op \in {"reset", "password"} /\ x.plan = "revoke"
\* It sees every live token but those of sessions that got theirs meanwhile.
SignOutSound(x) == SignsOut(x) => \A t \in Live : t \in x.snap \/ rt[t].fam \in survivors

\* A token was made after the one it was exchanged for; one that is live was not exchanged; a session has one password.
TokensSound ==
    /\ \A t \in Ids : rt[t].parent < t /\ rt[t].fam \in 1 .. t /\ (rt[t].live => ~rt[t].rotated)
    /\ \A s, t \in Ids : rt[s].fam = rt[t].fam => rt[s].born = rt[t].born

\* Of the requests, one at most holds a token's row, and one at most signs out.
RequestsSound ==
    /\ \A p \in Requests : RefreshSound(req[p]) /\ SignOutSound(req[p]) /\ req[p].pw \in Nat /\ req[p].pw <= user.pw
    /\ \A p, q \in Requests : p # q /\ req[p].op = "refresh" /\ req[q].op = "refresh" => req[p].id # req[q].id
    /\ \A p, q \in Requests : p # q /\ SignsOut(req[p]) => ~SignsOut(req[q])

\* What is true of tokens and of the requests about them.
TokenInv ==
    /\ rt \in Seq(TokenRows) /\ DOMAIN req = Requests /\ user.pw \in Nat
    /\ TokensSound /\ RequestsSound /\ ExchangedOnce /\ SignedOutEverywhere

\* No token at first.
LEMMA TokenInitInv == SessionsInit => TokenInv
  BY DEF SessionsInit, TokenInv, TokensSound, RequestsSound, ExchangedOnce, SignedOutEverywhere, RefreshSound, SignOutSound, SignsOut,
         Idle, Registered, Ids, Live

\* A request starts or goes on; no token changes.
LEMMA RequestChange ==
    ASSUME TokenInv, UNCHANGED <<rt, survivors>>, user'.pw = user.pw, NEW p \in Requests, NEW x, req' = [req EXCEPT ![p] = x],
           RefreshSound(x), SignOutSound(x), x.pw \in Nat, x.pw <= user.pw,
           x.op = "refresh" => Unlocked({x.id}, p), SignsOut(x) => UserFree
    PROVE  TokenInv'
<1>1. \A q \in Requests : req'[q] = IF q = p THEN x ELSE req[q]
  BY DEF TokenInv
<1>2. RequestsSound'
  <2>1. \A q \in Requests : RefreshSound(req[q])' /\ SignOutSound(req[q])'
    BY <1>1 DEF TokenInv, RequestsSound, RefreshSound, SignOutSound, SignsOut, Ids, Live
  <2>2. \A q \in Requests : req'[q].pw \in Nat /\ req'[q].pw <= user'.pw
    BY <1>1 DEF TokenInv, RequestsSound
  <2>3. \A q, r \in Requests : q # r /\ req'[q].op = "refresh" /\ req'[r].op = "refresh" => req'[q].id # req'[r].id
    BY <1>1 DEF TokenInv, RequestsSound, Unlocked
  <2>4. \A q, r \in Requests : q # r /\ SignsOut(req'[q]) => ~SignsOut(req'[r])
    BY <1>1 DEF TokenInv, RequestsSound, UserFree, SigningOut, SignsOut
  <2> QED BY <2>1, <2>2, <2>3, <2>4 DEF RequestsSound, SignsOut
<1> QED BY <1>2 DEF TokenInv, TokensSound, ExchangedOnce, Children, SignedOutEverywhere, Ids, Live

\* A request about nothing is sound.
LEMMA IdleSound ==
    /\ RefreshSound(Idle) /\ SignOutSound(Idle) /\ Idle.pw = 0 /\ Idle.op # "refresh" /\ ~SignsOut(Idle)
  BY DEF RefreshSound, SignOutSound, SignsOut, Idle

\* A function on 1 .. n is a sequence of length n.
LEMMA LenDomain == ASSUME NEW S, NEW n \in Nat, NEW f \in [1 .. n -> S] PROVE f \in Seq(S) /\ Len(f) = n
  OBVIOUS

\* What a step may do to the tokens that are there, and to a token it adds.
Keeps(p) ==
    /\ rt' \in Seq(TokenRows) /\ Len(rt') \in {Len(rt), Len(rt) + 1}
    /\ \A t \in Ids : /\ rt'[t].fam = rt[t].fam /\ rt'[t].parent = rt[t].parent /\ rt'[t].born = rt[t].born
                      /\ (rt'[t].live => rt[t].live) /\ (rt'[t].live => ~rt'[t].rotated)
                      /\ \A q \in Requests \ {p} : req[q].op = "refresh" /\ req[q].id = t => rt'[t] = rt[t]
    /\ Len(rt') = Len(rt) + 1 => LET n == Len(rt) + 1 IN
           /\ rt'[n].parent < n /\ rt'[n].fam \in 1 .. n /\ ~rt'[n].rotated
           /\ \A s \in Ids : rt[s].fam = rt'[n].fam => rt[s].born = rt'[n].born
           /\ (\E q \in Requests \ {p} : SignsOut(req[q])) => rt'[n].fam \in survivors'

\* A request ends that revoked, exchanged or added a token.
LEMMA TokensChange ==
    ASSUME TokenInv, NEW p \in Requests, Keeps(p), req' = [req EXCEPT ![p] = Idle], survivors \subseteq survivors',
           user'.pw \in {user.pw, user.pw + 1}, ExchangedOnce', SignedOutEverywhere'
    PROVE  TokenInv'
<1>0. rt \in Seq(TokenRows) /\ Len(rt) \in Nat /\ user.pw \in Nat /\ user'.pw \in Nat
  BY DEF TokenInv
<1>1. \A q \in Requests : req'[q] = IF q = p THEN Idle ELSE req[q]
  BY DEF TokenInv
<1>2. Ids \subseteq Ids' /\ \A t \in Ids' : t \in Ids \/ (t = Len(rt) + 1 /\ Len(rt') = Len(rt) + 1)
  BY <1>0 DEF Ids, Keeps
<1>3. TokensSound'
  <2>1. \A t \in Ids' : rt'[t].parent < t /\ rt'[t].fam \in 1 .. t /\ (rt'[t].live => ~rt'[t].rotated)
    BY <1>2 DEF Keeps, TokenInv, TokensSound
  <2>2. \A s, t \in Ids : rt'[s].fam = rt'[t].fam => rt'[s].born = rt'[t].born
    BY DEF Keeps, TokenInv, TokensSound
  <2>3. \A s, t \in Ids' : rt'[s].fam = rt'[t].fam => rt'[s].born = rt'[t].born
    BY <1>2, <2>2 DEF Keeps
  <2> QED BY <2>1, <2>3 DEF TokensSound
<1>4. ASSUME NEW q \in Requests PROVE RefreshSound(req[q])' /\ SignOutSound(req[q])' /\ req'[q].pw \in Nat /\ req'[q].pw <= user'.pw
  <2>1. CASE q = p
    <3>1. req'[q] = Idle
      BY <1>1, <2>1
    <3> QED BY <1>0, <3>1 DEF RefreshSound, SignOutSound, SignsOut, Idle
  <2>2. CASE q # p
    <3>1. req'[q] = req[q] /\ RefreshSound(req[q]) /\ SignOutSound(req[q]) /\ req[q].pw \in Nat /\ req[q].pw <= user.pw
      BY <1>1, <2>2 DEF TokenInv, RequestsSound
    <3>2. RefreshSound(req[q])'
      <4> SUFFICES ASSUME req[q].op = "refresh"
                   PROVE  /\ req[q].id \in Ids'
                          /\ req[q].plan = "rotate" => rt'[req[q].id].live
                          /\ req[q].plan = "replay" => rt'[req[q].id].replays < MaxReplays
                          /\ req[q].plan # "revoke" /\ req[q].pw = user'.pw =>
                                 rt'[req[q].id].born = user'.pw \/ rt'[req[q].id].fam \in survivors'
        BY <3>1 DEF RefreshSound
      <4>1. req[q].id \in Ids /\ rt'[req[q].id] = rt[req[q].id]
        BY <2>2, <3>1 DEF RefreshSound, Keeps
      <4>2. req[q].pw = user'.pw => user'.pw = user.pw
        BY <1>0, <3>1
      <4> QED BY <1>2, <3>1, <4>1, <4>2 DEF RefreshSound
    <3>3. SignOutSound(req[q])'
      <4> SUFFICES ASSUME SignsOut(req[q]), NEW t \in Live' PROVE t \in req[q].snap \/ rt'[t].fam \in survivors'
        BY <3>1 DEF SignOutSound, SignsOut
      <4>1. CASE t \in Ids
        <5>1. t \in Live /\ rt'[t].fam = rt[t].fam
          BY <4>1 DEF Live, Keeps
        <5> QED BY <3>1, <5>1 DEF SignOutSound
      <4>2. CASE t \notin Ids
        BY <1>2, <2>2, <4>2 DEF Keeps, Live
      <4> QED BY <4>1, <4>2
    <3>4. user.pw <= user'.pw
      BY <1>0
    <3> QED BY <1>0, <3>1, <3>2, <3>3, <3>4
  <2> QED BY <2>1, <2>2
<1>5. RequestsSound'
  <2>1. \A q, r \in Requests : q # r /\ req'[q].op = "refresh" /\ req'[r].op = "refresh" => req'[q].id # req'[r].id
    BY <1>1, IdleSound DEF TokenInv, RequestsSound
  <2>2. \A q, r \in Requests : q # r /\ SignsOut(req'[q]) => ~SignsOut(req'[r])
    BY <1>1, IdleSound DEF TokenInv, RequestsSound
  <2> QED BY <1>4, <2>1, <2>2 DEF RequestsSound, SignsOut
<1>6. DOMAIN req' = Requests
  BY DEF TokenInv
<1> QED BY <1>0, <1>3, <1>5, <1>6 DEF TokenInv, Keeps

\* The tokens exchanged for one are finitely many.
LEMMA ChildrenFinite == ASSUME TokenInv, NEW t PROVE IsFiniteSet(Children(t)) /\ Cardinality(Children(t)) \in Nat
<1>1. Len(rt) \in Nat /\ Children(t) \subseteq 1 .. Len(rt)
  BY DEF TokenInv, Children, Ids
<1>2. IsFiniteSet(1 .. Len(rt))
  BY <1>1, FS_Interval
<1> QED BY <1>1, <1>2, FS_Subset, FS_CardinalityType

\* A token that starts a family is exchanged for none.
LEMMA SameExchanges ==
    ASSUME TokenInv, rt' \in Seq(TokenRows), Len(rt') \in {Len(rt), Len(rt) + 1},
           \A t \in Ids : rt'[t].parent = rt[t].parent /\ rt'[t].replays = rt[t].replays /\ rt'[t].rotated = rt[t].rotated,
           Len(rt') = Len(rt) + 1 => LET n == Len(rt) + 1 IN rt'[n].parent = 0 /\ rt'[n].replays = 0 /\ ~rt'[n].rotated
    PROVE  ExchangedOnce'
<1>0. Len(rt) \in Nat /\ MaxReplays \in Nat
  BY ReplaysAssumption DEF TokenInv
<1> SUFFICES ASSUME NEW t \in Ids' PROVE /\ Cardinality(Children(t)') = rt'[t].replays + (IF rt'[t].rotated THEN 1 ELSE 0)
                                         /\ rt'[t].replays <= MaxReplays
  BY DEF ExchangedOnce, Children, Ids
<1>1. CASE t \in Ids
  <2>1. Children(t)' = Children(t)
    BY <1>0, <1>1 DEF Children, Ids
  <2> QED BY <1>1, <2>1 DEF TokenInv, ExchangedOnce
<1>2. CASE t \notin Ids
  <2>1. t = Len(rt) + 1 /\ Len(rt') = Len(rt) + 1
    BY <1>0, <1>2 DEF Ids
  <2>2. Children(t)' = {}
    <3> SUFFICES ASSUME NEW c \in Ids' PROVE rt'[c].parent # t
      BY DEF Children, Ids
    <3>1. CASE c \in Ids
      <4>0. rt[c] \in TokenRows /\ c \in Nat /\ c <= Len(rt)
        BY <1>0, <3>1 DEF TokenInv, Ids
      <4>1. rt'[c].parent < c /\ rt[c].parent \in Nat
        BY <3>1, <4>0 DEF TokenInv, TokensSound, TokenRows
      <4> QED BY <1>0, <2>1, <3>1, <4>0, <4>1
    <3>2. CASE c \notin Ids
      BY <1>0, <2>1, <3>2 DEF Ids
    <3> QED BY <3>1, <3>2
  <2>3. rt'[t].replays = 0 /\ ~rt'[t].rotated
    BY <2>1
  <2> QED BY <1>0, <2>2, <2>3, FS_EmptySet
<1> QED BY <1>1, <1>2

\* The UPDATE changes live and nothing else.
LEMMA RevokedRows ==
    ASSUME TokenInv, NEW S
    PROVE  /\ Revoked(S) \in Seq(TokenRows) /\ Len(Revoked(S)) = Len(rt)
           /\ \A t \in Ids : LET v == Revoked(S)[t] IN
                /\ rt[t] \in TokenRows /\ v.fam = rt[t].fam /\ v.parent = rt[t].parent /\ v.born = rt[t].born
                /\ v.rotated = rt[t].rotated /\ v.replays = rt[t].replays
                /\ v.live => v = rt[t] /\ t \notin S
                /\ t \notin S => v = rt[t]
<1> DEFINE f == Revoked(S)
<1>1. /\ f \in Seq(TokenRows) /\ Len(f) = Len(rt)
      /\ \A t \in Ids : f[t] = IF t \in S THEN [rt[t] EXCEPT !.live = FALSE] ELSE rt[t]
  <2>1. rt \in [1 .. Len(rt) -> TokenRows] /\ Len(rt) \in Nat
    BY DEF TokenInv
  <2>2. \A t \in Ids : (IF t \in S THEN [rt[t] EXCEPT !.live = FALSE] ELSE rt[t]) \in TokenRows
    BY <2>1 DEF TokenRows, Ids
  <2>3. f \in [1 .. Len(rt) -> TokenRows]
    BY <2>2 DEF Revoked, Ids
  <2>4. f \in Seq(TokenRows) /\ Len(f) = Len(rt)
    BY <2>1, <2>3, LenDomain
  <2> QED BY <2>4 DEF Revoked, Ids
<1>2. ASSUME NEW t \in Ids
      PROVE  /\ rt[t] \in TokenRows /\ f[t].fam = rt[t].fam /\ f[t].parent = rt[t].parent /\ f[t].born = rt[t].born
             /\ f[t].rotated = rt[t].rotated /\ f[t].replays = rt[t].replays
             /\ f[t].live => f[t] = rt[t] /\ t \notin S
             /\ t \notin S => f[t] = rt[t]
  <2>1. rt[t] \in TokenRows
    BY DEF TokenInv, Ids
  <2>2. CASE t \notin S
    BY <1>1, <2>1, <2>2
  <2>3. CASE t \in S
    <3>1. f[t] = [rt[t] EXCEPT !.live = FALSE]
      BY <1>1, <2>3
    <3>2. f[t].live = FALSE
      BY <2>1, <3>1 DEF TokenRows
    <3> QED BY <2>1, <2>3, <3>1, <3>2 DEF TokenRows
  <2> QED BY <2>2, <2>3
<1> HIDE DEF f
<1> QED BY <1>1, <1>2 DEF f

\* Tokens are revoked whose rows nobody else holds.
LEMMA RevokeInv ==
    ASSUME TokenInv, NEW p \in Requests, NEW S, Unlocked(S, p), rt' = Revoked(S), req' = [req EXCEPT ![p] = Idle],
           survivors' = survivors, user'.pw = user.pw
    PROVE  TokenInv'
<1>1. /\ rt' \in Seq(TokenRows) /\ Len(rt') = Len(rt)
      /\ \A t \in Ids : /\ rt'[t].fam = rt[t].fam /\ rt'[t].parent = rt[t].parent /\ rt'[t].born = rt[t].born
                        /\ rt'[t].rotated = rt[t].rotated /\ rt'[t].replays = rt[t].replays
                        /\ (rt'[t].live => rt'[t] = rt[t]) /\ (t \notin S => rt'[t] = rt[t])
  BY RevokedRows
<1>2. Len(rt) \in Nat /\ Ids' = Ids
  BY <1>1 DEF TokenInv, Ids
<1>3. Keeps(p)
  <2>1. \A t \in Ids : \A q \in Requests \ {p} : req[q].op = "refresh" /\ req[q].id = t => rt'[t] = rt[t]
    BY <1>1 DEF Unlocked
  <2>2. \A t \in Ids : (rt'[t].live => rt[t].live) /\ (rt'[t].live => ~rt'[t].rotated)
    BY <1>1 DEF TokenInv, TokensSound
  <2> QED BY <1>1, <1>2, <2>1, <2>2 DEF Keeps
<1>4. ExchangedOnce'
  BY <1>1, <1>2, SameExchanges
<1>5. SignedOutEverywhere'
  BY <1>1, <1>2 DEF TokenInv, SignedOutEverywhere, Live
<1> QED BY <1>3, <1>4, <1>5, TokensChange

\* A login stores the first token of a session.
LEMMA StoreLoginInv == ASSUME TokenInv, NEW p \in Requests, StoreLogin(p) PROVE TokenInv'
<1> DEFINE n == Len(rt) + 1
           k == NewToken(n, 0, req[p].pw)
<1>0. Len(rt) \in Nat /\ n \in Nat /\ req[p].pw \in Nat /\ rt \in Seq(TokenRows)
  BY DEF TokenInv, RequestsSound
<1>1. k \in TokenRows /\ k.fam = n /\ k.parent = 0 /\ k.born = req[p].pw /\ ~k.rotated /\ k.replays = 0
  BY <1>0 DEF NewToken, TokenRows
<1>2. rt' = Append(rt, k) /\ req' = [req EXCEPT ![p] = Idle] /\ user' = user
      /\ survivors' = (IF req[p].pw # user.pw \/ ~UserFree THEN survivors \cup {n} ELSE survivors)
  BY DEF StoreLogin, Ended, Stored
<1> HIDE DEF k
<1>3. rt' \in Seq(TokenRows) /\ Len(rt') = n /\ rt'[n] = k /\ \A t \in Ids : rt'[t] = rt[t]
  BY <1>0, <1>1, <1>2 DEF Ids
<1>4. \A s \in Ids : rt[s].fam # n
  <2> SUFFICES ASSUME NEW s \in Ids PROVE rt[s].fam # n
    OBVIOUS
  <2>1. rt[s].fam \in 1 .. s /\ s \in 1 .. Len(rt)
    BY DEF TokenInv, TokensSound, Ids
  <2> QED BY <1>0, <2>1
<1>5. Keeps(p)
  <2>1. (\E q \in Requests \ {p} : SignsOut(req[q])) => n \in survivors'
    BY <1>2 DEF UserFree, SigningOut, SignsOut
  <2>2. \A t \in Ids : rt[t].live => ~rt[t].rotated
    BY DEF TokenInv, TokensSound
  <2>3. rt'[n].parent < n /\ rt'[n].fam \in 1 .. n /\ ~rt'[n].rotated
    BY <1>0, <1>1, <1>3
  <2>4. \A s \in Ids : rt[s].fam = rt'[n].fam => rt[s].born = rt'[n].born
    BY <1>1, <1>3, <1>4
  <2>5. rt'[n].fam = n
    BY <1>1, <1>3
  <2> QED BY <1>3, <2>1, <2>2, <2>3, <2>4, <2>5 DEF Keeps
<1>6. ExchangedOnce'
  BY <1>1, <1>3, SameExchanges
<1>7. SignedOutEverywhere'
  <2> SUFFICES ASSUME NEW t \in Live' PROVE rt'[t].born = user'.pw \/ rt'[t].fam \in survivors'
    BY DEF SignedOutEverywhere
  <2>1. CASE t \in Ids
    BY <1>2, <1>3, <2>1 DEF TokenInv, SignedOutEverywhere, Live
  <2>2. CASE t \notin Ids
    <3>1. t = n
      BY <1>0, <1>3, <2>2 DEF Ids, Live
    <3> QED BY <1>1, <1>2, <1>3, <3>1
  <2> QED BY <2>1, <2>2
<1> QED BY <1>2, <1>5, <1>6, <1>7, TokensChange

\* An exchange adds one child to the token exchanged and counts it there.
LEMMA OneMoreExchange ==
    ASSUME TokenInv, NEW t \in Ids, rt' \in Seq(TokenRows), Len(rt') = Len(rt) + 1, rt'[Len(rt) + 1].parent = t,
           rt'[Len(rt) + 1].replays = 0, ~rt'[Len(rt) + 1].rotated,
           \A s \in Ids : rt'[s].parent = rt[s].parent,
           \A s \in Ids \ {t} : rt'[s].replays = rt[s].replays /\ rt'[s].rotated = rt[s].rotated,
           \/ rt'[t].replays = rt[t].replays /\ rt'[t].rotated /\ ~rt[t].rotated
           \/ rt'[t].replays = rt[t].replays + 1 /\ rt'[t].rotated = rt[t].rotated /\ rt[t].replays < MaxReplays
    PROVE  ExchangedOnce'
<1> DEFINE n == Len(rt) + 1
<1>0. Len(rt) \in Nat /\ MaxReplays \in Nat /\ n \in Nat /\ t \in Nat /\ t <= Len(rt) /\ rt[t].replays \in Nat
  <2>1. rt[t] \in TokenRows /\ Len(rt) \in Nat /\ t \in 1 .. Len(rt)
    BY DEF TokenInv, Ids
  <2>2. rt[t].replays \in Nat
    BY <2>1 DEF TokenRows
  <2> QED BY <2>1, <2>2, ReplaysAssumption
<1>1. Ids' = Ids \cup {n} /\ n \notin Ids
  BY <1>0 DEF Ids
<1>2. \A s \in Ids : rt'[s].parent \in Nat /\ rt'[s].parent < n
  <2> SUFFICES ASSUME NEW s \in Ids PROVE rt[s].parent \in Nat /\ rt[s].parent < n
    OBVIOUS
  <2>1. rt[s] \in TokenRows /\ s \in Nat /\ s <= Len(rt)
    BY <1>0 DEF TokenInv, Ids
  <2>2. rt[s].parent < s /\ rt[s].parent \in Nat
    BY <2>1 DEF TokenInv, TokensSound, TokenRows
  <2> QED BY <1>0, <2>1, <2>2
<1>3. \A s : Children(s)' = {c \in Ids' : rt'[c].parent = s}
  BY DEF Children, Ids
<1> SUFFICES ASSUME NEW s \in Ids' PROVE /\ Cardinality(Children(s)') = rt'[s].replays + (IF rt'[s].rotated THEN 1 ELSE 0)
                                         /\ rt'[s].replays <= MaxReplays
  BY DEF ExchangedOnce, Children, Ids
<1>4. CASE s = n
  <2>1. \A c \in Ids' : rt'[c].parent # s
    BY <1>0, <1>1, <1>2, <1>4
  <2>2. Children(s)' = {}
    BY <1>3, <2>1
  <2>3. rt'[s].replays = 0 /\ ~rt'[s].rotated
    BY <1>4
  <2> QED BY <1>0, <2>2, <2>3, FS_EmptySet
<1>5. CASE s \in Ids /\ s # t
  <2>1. Children(s)' = Children(s)
    BY <1>1, <1>3, <1>5 DEF Children
  <2> QED BY <1>5, <2>1 DEF TokenInv, ExchangedOnce
<1>6. CASE s = t
  <2>1. Children(s)' = Children(s) \cup {n} /\ n \notin Children(s)
    BY <1>1, <1>3, <1>6 DEF Children
  <2>2. Cardinality(Children(s)') = Cardinality(Children(s)) + 1
    BY <2>1, ChildrenFinite, FS_AddElement
  <2>3. Cardinality(Children(s)) = rt[t].replays + (IF rt[t].rotated THEN 1 ELSE 0) /\ rt[t].replays <= MaxReplays
    BY <1>6 DEF TokenInv, ExchangedOnce
  <2> QED BY <1>0, <1>6, <2>2, <2>3
<1> QED BY <1>1, <1>4, <1>5, <1>6

\* A refresh exchanges its token.
LEMMA StoreRefreshInv == ASSUME TokenInv, NEW p \in Requests, StoreRefresh(p) PROVE TokenInv'
<1> DEFINE n == Len(rt) + 1
           t == req[p].id
           used == IF req[p].plan = "rotate" THEN [rt[t] EXCEPT !.live = FALSE, !.rotated = TRUE]
                                             ELSE [rt[t] EXCEPT !.replays = @ + 1]
           k == NewToken(rt[t].fam, t, rt[t].born)
<1>0. RefreshSound(req[p]) /\ req[p].op = "refresh" /\ req[p].plan \in {"rotate", "replay"} /\ rt \in Seq(TokenRows) /\ Len(rt) \in Nat
  BY DEF TokenInv, RequestsSound, StoreRefresh
<1>1. t \in Ids /\ t \in Nat /\ t <= Len(rt) /\ rt[t] \in TokenRows
  BY <1>0 DEF RefreshSound, Ids
<1>2. k \in TokenRows /\ k.fam = rt[t].fam /\ k.parent = t /\ k.born = rt[t].born /\ ~k.rotated /\ k.replays = 0
  BY <1>1 DEF NewToken, TokenRows
<1>3. /\ used \in TokenRows /\ used.fam = rt[t].fam /\ used.parent = rt[t].parent /\ used.born = rt[t].born
      /\ used.live => rt[t].live /\ ~used.rotated
      /\ \/ used.replays = rt[t].replays /\ used.rotated /\ ~rt[t].rotated
         \/ used.replays = rt[t].replays + 1 /\ used.rotated = rt[t].rotated /\ rt[t].replays < MaxReplays
  <2>1. rt[t].live => ~rt[t].rotated
    BY <1>1 DEF TokenInv, TokensSound
  <2>2. CASE req[p].plan = "rotate"
    <3>1. used = [rt[t] EXCEPT !.live = FALSE, !.rotated = TRUE] /\ rt[t].live
      BY <1>0, <2>2 DEF RefreshSound
    <3>2. used.live = FALSE /\ used.rotated = TRUE
      BY <1>1, <3>1 DEF TokenRows
    <3>3. used \in TokenRows /\ used.fam = rt[t].fam /\ used.parent = rt[t].parent /\ used.born = rt[t].born /\ used.replays = rt[t].replays
      BY <1>1, <3>1 DEF TokenRows
    <3> QED BY <2>1, <3>1, <3>2, <3>3
  <2>3. CASE req[p].plan = "replay"
    <3>1. used = [rt[t] EXCEPT !.replays = rt[t].replays + 1] /\ rt[t].replays < MaxReplays /\ rt[t].replays + 1 \in Nat
      BY <1>0, <1>1, <2>3 DEF RefreshSound, TokenRows
    <3>2. used \in TokenRows /\ used.fam = rt[t].fam /\ used.parent = rt[t].parent /\ used.born = rt[t].born /\ used.replays = rt[t].replays + 1
          /\ used.live = rt[t].live /\ used.rotated = rt[t].rotated
      BY <1>1, <3>1 DEF TokenRows
    <3> QED BY <2>1, <3>1, <3>2
  <2> QED BY <1>0, <2>2, <2>3
<1>4. rt' = Append([rt EXCEPT ![t] = used], k) /\ req' = [req EXCEPT ![p] = Idle] /\ user' = user
      /\ survivors' = (IF req[p].pw # user.pw \/ ~UserFree THEN survivors \cup {rt[t].fam} ELSE survivors)
  BY DEF StoreRefresh, Ended, Stored
<1> HIDE DEF k, used
<1>5. rt' \in Seq(TokenRows) /\ Len(rt') = n /\ rt'[n] = k /\ \A s \in Ids : rt'[s] = IF s = t THEN used ELSE rt[s]
  <2> DEFINE f == [rt EXCEPT ![t] = used]
  <2>1. f \in Seq(TokenRows) /\ Len(f) = Len(rt) /\ \A s \in Ids : f[s] = IF s = t THEN used ELSE rt[s]
    BY <1>0, <1>1, <1>3 DEF Ids
  <2> HIDE DEF f
  <2>2. rt' = Append(f, k)
    BY <1>4 DEF f
  <2> QED BY <1>0, <1>2, <2>1, <2>2 DEF Ids
<1>6. Keeps(p)
  <2>1. \A q \in Requests \ {p} : req[q].op = "refresh" => req[q].id # t
    BY <1>0 DEF TokenInv, RequestsSound
  <2>2. \A s \in Ids : rt[s].live => ~rt[s].rotated
    BY DEF TokenInv, TokensSound
  <2>3. \A s \in Ids : rt[s].fam = rt[t].fam => rt[s].born = rt[t].born
    BY <1>1 DEF TokenInv, TokensSound
  <2>4. rt[t].fam \in 1 .. n
    BY <1>0, <1>1 DEF TokenInv, TokensSound
  <2>5. (\E q \in Requests \ {p} : SignsOut(req[q])) => rt[t].fam \in survivors'
    BY <1>4 DEF UserFree, SigningOut, SignsOut
  <2>6. t < n
    BY <1>0, <1>1
  <2>7. \A s \in Ids : /\ rt'[s].fam = rt[s].fam /\ rt'[s].parent = rt[s].parent /\ rt'[s].born = rt[s].born
                       /\ (rt'[s].live => rt[s].live) /\ (rt'[s].live => ~rt'[s].rotated)
                       /\ \A q \in Requests \ {p} : req[q].op = "refresh" /\ req[q].id = s => rt'[s] = rt[s]
    BY <1>3, <1>5, <2>1, <2>2
  <2> HIDE DEF t
  <2>8. rt'[n].parent < n /\ rt'[n].fam \in 1 .. n /\ ~rt'[n].rotated
    BY <1>2, <1>5, <2>4, <2>6
  <2>9. \A s \in Ids : rt[s].fam = rt'[n].fam => rt[s].born = rt'[n].born
    BY <1>2, <1>5, <2>3
  <2>10. (\E q \in Requests \ {p} : SignsOut(req[q])) => rt'[n].fam \in survivors'
    BY <1>2, <1>5, <2>5
  <2> QED BY <1>5, <2>7, <2>8, <2>9, <2>10 DEF Keeps
<1>7. ExchangedOnce'
  <2> HIDE DEF t
  <2>1. \A s \in Ids : rt'[s].parent = rt[s].parent
    BY <1>3, <1>5
  <2>2. \A s \in Ids \ {t} : rt'[s].replays = rt[s].replays /\ rt'[s].rotated = rt[s].rotated
    BY <1>5
  <2>3. rt'[t] = used
    BY <1>1, <1>5
  <2> QED BY <1>1, <1>2, <1>3, <1>5, <2>1, <2>2, <2>3, OneMoreExchange
<1>8. SignedOutEverywhere'
  <2> SUFFICES ASSUME NEW s \in Live' PROVE rt'[s].born = user'.pw \/ rt'[s].fam \in survivors'
    BY DEF SignedOutEverywhere
  <2>1. CASE s \in Ids
    BY <1>4, <1>6, <2>1 DEF TokenInv, SignedOutEverywhere, Live, Keeps
  <2>2. CASE s \notin Ids
    <3>1. s = n
      BY <1>0, <1>5, <2>2 DEF Ids, Live
    <3>2. rt[t].born = user.pw \/ rt[t].fam \in survivors'
      BY <1>0, <1>4 DEF RefreshSound
    <3> QED BY <1>2, <1>4, <1>5, <3>1, <3>2
  <2> QED BY <2>1, <2>2
<1> QED BY <1>4, <1>6, <1>7, <1>8, TokensChange

\* The addresses a row can hold.
AnyEmail == Emails \cup {FirstEmail, None}

\* Requests and links.
RequestRows == [op : {"none", "login", "refresh", "logout", "password", "admin"} \cup Purposes,
                plan : {"none", "store", "rotate", "replay", "revoke", "write"},
                id : Nat, snap : SUBSET Nat, pw : Nat, email : AnyEmail, verified : BOOLEAN]
LinkRows == [purpose : Purposes, uses : Nat, open : BOOLEAN, email : AnyEmail]

\* The types of what is about the user and the links.
SessionsType ==
    /\ user \in [active : BOOLEAN, pw : Nat, email : AnyEmail, verified : BOOLEAN]
    /\ link \in Seq(LinkRows)
    /\ req \in [Requests -> RequestRows]

\* A link that is open, or that a request has locked, was not used; the request acts for the link's purpose, and it read
\* the address the link was sent to.
LinksSound ==
    /\ \A l \in 1 .. Len(link) : link[l].uses <= 1 /\ (link[l].open => link[l].uses = 0)
    /\ \A p \in Requests : req[p].op \in Purposes =>
           LET l == req[p].id IN
           /\ l \in 1 .. Len(link) /\ link[l].uses = 0 /\ link[l].purpose = req[p].op
           /\ req[p].op # "change" => link[l].email = req[p].email
    /\ \A p, q \in Requests : p # q /\ req[p].op \in Purposes /\ req[q].op \in Purposes => req[p].id # req[q].id

\* What is true of links and of the user's address.
LinkInv == SessionsType /\ LinksSound /\ VerifiedWasProven

\* The inductive invariant of Sessions.
SessionsInv == TokenInv /\ LinkInv

\* A new password: every token the request saw is revoked, and a change opens a session of its own.
LEMMA SetPasswordInv == ASSUME TokenInv, NEW p \in Requests, SetPassword(p), user.pw \in Nat, user'.pw = user.pw + 1 PROVE TokenInv'
<1> DEFINE n == Len(rt) + 1
           s == req[p].snap
           k == NewToken(n, 0, user.pw + 1)
           w == Revoked(s)
<1>0. Len(rt) \in Nat /\ n \in Nat /\ user.pw + 1 \in Nat /\ SignsOut(req[p]) /\ SignOutSound(req[p])
  BY DEF TokenInv, RequestsSound, SetPassword, SignsOut
<1>1. k \in TokenRows /\ k.fam = n /\ k.parent = 0 /\ k.born = user.pw + 1 /\ ~k.rotated /\ k.replays = 0
  BY <1>0 DEF NewToken, TokenRows
<1>2. req' = [req EXCEPT ![p] = Idle] /\ survivors' = survivors /\ Unlocked(s, p)
      /\ (rt' = Revoked(s) \/ rt' = Append(Revoked(s), k))
  BY DEF SetPassword, Ended
<1>3. /\ w \in Seq(TokenRows) /\ Len(w) = Len(rt)
      /\ \A t \in Ids : /\ w[t].fam = rt[t].fam /\ w[t].parent = rt[t].parent /\ w[t].born = rt[t].born
                        /\ w[t].rotated = rt[t].rotated /\ w[t].replays = rt[t].replays
                        /\ (w[t].live => w[t] = rt[t] /\ t \notin s) /\ (t \notin s => w[t] = rt[t])
  BY RevokedRows
<1> HIDE DEF k, w, s
<1>4. /\ rt' \in Seq(TokenRows) /\ (Len(rt') = Len(rt) \/ (Len(rt') = n /\ rt'[n] = k))
      /\ \A t \in Ids : rt'[t] = w[t]
  <2>1. CASE rt' = w
    BY <1>3, <2>1
  <2>2. CASE rt' = Append(w, k)
    BY <1>0, <1>1, <1>3, <2>2 DEF Ids
  <2> QED BY <1>2, <2>1, <2>2 DEF w
<1>5. \A t \in Ids : /\ rt'[t].fam = rt[t].fam /\ rt'[t].parent = rt[t].parent /\ rt'[t].born = rt[t].born
                     /\ rt'[t].rotated = rt[t].rotated /\ rt'[t].replays = rt[t].replays
                     /\ (rt'[t].live => rt'[t] = rt[t] /\ t \notin s) /\ (t \notin s => rt'[t] = rt[t])
  BY <1>3, <1>4
<1>6. Keeps(p)
  <2>1. \A t \in Ids : \A q \in Requests \ {p} : req[q].op = "refresh" /\ req[q].id = t => rt'[t] = rt[t]
    BY <1>2, <1>5 DEF Unlocked
  <2>2. \A t \in Ids : (rt'[t].live => rt[t].live) /\ (rt'[t].live => ~rt'[t].rotated)
    BY <1>5 DEF TokenInv, TokensSound
  <2>3. ~ \E q \in Requests \ {p} : SignsOut(req[q])
    BY <1>0 DEF TokenInv, RequestsSound
  <2>4. \A t \in Ids : rt[t].fam # n
    <3> SUFFICES ASSUME NEW t \in Ids PROVE rt[t].fam # n
      OBVIOUS
    <3>1. rt[t].fam \in 1 .. t /\ t \in 1 .. Len(rt)
      BY DEF TokenInv, TokensSound, Ids
    <3> QED BY <1>0, <3>1
  <2>5. Len(rt') = n => rt'[n].parent < n /\ rt'[n].fam \in 1 .. n /\ ~rt'[n].rotated /\ rt'[n].fam = n
    BY <1>0, <1>1, <1>4
  <2> QED BY <1>0, <1>4, <1>5, <2>1, <2>2, <2>3, <2>4, <2>5 DEF Keeps
<1>7. ExchangedOnce'
  <2>1. Len(rt') = n => rt'[n].parent = 0 /\ rt'[n].replays = 0 /\ ~rt'[n].rotated
    BY <1>0, <1>1, <1>4
  <2> QED BY <1>4, <1>5, <2>1, SameExchanges
<1>8. SignedOutEverywhere'
  <2> SUFFICES ASSUME NEW t \in Live' PROVE rt'[t].born = user'.pw \/ rt'[t].fam \in survivors'
    BY DEF SignedOutEverywhere
  <2>1. CASE t \in Ids
    BY <1>0, <1>2, <1>5, <2>1 DEF SignOutSound, Live, s
  <2>2. CASE t \notin Ids
    <3>1. t = n /\ Len(rt') = n
      BY <1>0, <1>4, <2>2 DEF Ids, Live
    <3> QED BY <1>0, <1>1, <1>4, <3>1
  <2> QED BY <2>1, <2>2
<1> QED BY <1>2, <1>6, <1>7, <1>8, TokensChange

\* Nothing is issued at first.
LEMMA SessionsInitInv == SessionsInit => SessionsInv
<1> SUFFICES ASSUME SessionsInit PROVE SessionsInv
  OBVIOUS
<1>1. TokenInv
  BY TokenInitInv
<1>2. Idle \in RequestRows
  BY DEF Idle, RequestRows, AnyEmail
<1>3. SessionsType
  BY <1>2 DEF SessionsInit, SessionsType, Registered, AnyEmail
<1>4. LinksSound
  BY DEF SessionsInit, LinksSound, Idle, Purposes
<1> QED BY <1>1, <1>3, <1>4 DEF SessionsInv, LinkInv, SessionsInit, VerifiedWasProven, Registered

\* A link's row.
LEMMA LinkRowTypes ==
    ASSUME SessionsType
    PROVE  /\ Len(link) \in Nat
           /\ \A k \in 1 .. Len(link) : /\ k \in Nat /\ link[k] \in LinkRows /\ link[k].purpose \in Purposes /\ link[k].uses \in Nat
                                        /\ link[k].email \in AnyEmail
<1>1. Len(link) \in Nat /\ \A k \in 1 .. Len(link) : k \in Nat /\ link[k] \in LinkRows
  BY DEF SessionsType
<1> QED BY <1>1 DEF LinkRows

\* Links may be closed, and the link a request has locked is used up when the request ends.
LEMMA LinksChange ==
    ASSUME LinkInv, NEW p \in Requests, NEW x \in RequestRows, req' = [req EXCEPT ![p] = x],
           link' \in Seq(LinkRows), Len(link') = Len(link),
           \A k \in 1 .. Len(link) :
               /\ link'[k].purpose = link[k].purpose /\ link'[k].email = link[k].email /\ (link'[k].open => link[k].open)
               /\ \/ link'[k].uses = link[k].uses
                  \/ /\ k = req[p].id /\ req[p].op \in Purposes /\ x.op \notin Purposes
                     /\ link'[k].uses = link[k].uses + 1 /\ ~link'[k].open,
           x.op \in Purposes => /\ x.id \in 1 .. Len(link) /\ link[x.id].uses = 0 /\ link[x.id].purpose = x.op
                                /\ x.op # "change" => link[x.id].email = x.email
                                /\ \A q \in Requests \ {p} : req[q].op \in Purposes => req[q].id # x.id
    PROVE  LinksSound'
<1>0. Len(link) \in Nat /\ \A k \in 1 .. Len(link) : link[k].uses \in Nat
  BY LinkRowTypes DEF LinkInv
<1>1. \A q \in Requests : req'[q] = IF q = p THEN x ELSE req[q]
  BY DEF LinkInv, SessionsType
<1>2. \A k \in 1 .. Len(link') : link'[k].uses <= 1 /\ (link'[k].open => link'[k].uses = 0)
  BY <1>0 DEF LinkInv, LinksSound
<1>3. ASSUME NEW q \in Requests, req'[q].op \in Purposes
      PROVE  LET l == req'[q].id IN
             /\ l \in 1 .. Len(link') /\ link'[l].uses = 0 /\ link'[l].purpose = req'[q].op
             /\ req'[q].op # "change" => link'[l].email = req'[q].email
  <2>1. CASE q = p
    <3>1. req'[q] = x
      BY <1>1, <2>1
    <3> QED BY <1>0, <1>3, <3>1
  <2>2. CASE q # p
    <3>1. req'[q] = req[q]
      BY <1>1, <2>2
    <3>2. req[q].id \in 1 .. Len(link) /\ (req[p].op \in Purposes => req[q].id # req[p].id)
      BY <1>3, <2>2, <3>1 DEF LinkInv, LinksSound
    <3>3. link'[req[q].id].uses = link[req[q].id].uses
      BY <3>2
    <3> QED BY <1>3, <3>1, <3>2, <3>3 DEF LinkInv, LinksSound
  <2> QED BY <2>1, <2>2
<1>4. \A q, r \in Requests : q # r /\ req'[q].op \in Purposes /\ req'[r].op \in Purposes => req'[q].id # req'[r].id
  BY <1>1 DEF LinkInv, LinksSound
<1> QED BY <1>2, <1>3, <1>4 DEF LinksSound

\* A request starts or goes on: no token, no link and nothing of the user changes.
LEMMA Proceeds ==
    ASSUME SessionsInv, UNCHANGED <<user, rt, link, survivors, proven, stale>>, NEW p \in Requests, NEW x \in RequestRows,
           req' = [req EXCEPT ![p] = x], RefreshSound(x), SignOutSound(x), x.pw <= user.pw,
           x.op = "refresh" => Unlocked({x.id}, p), SignsOut(x) => UserFree,
           x.op \in Purposes => /\ x.id \in 1 .. Len(link) /\ link[x.id].uses = 0 /\ link[x.id].purpose = x.op
                                /\ x.op # "change" => link[x.id].email = x.email
                                /\ \A q \in Requests \ {p} : req[q].op \in Purposes => req[q].id # x.id
    PROVE  SessionsInv'
<1>1. x.pw \in Nat
  BY DEF RequestRows
<1>2. TokenInv'
  BY <1>1, RequestChange DEF SessionsInv
<1>3. SessionsType'
  BY DEF SessionsInv, LinkInv, SessionsType
<1>4. LinksSound'
  BY LinksChange DEF SessionsInv, LinkInv, SessionsType
<1>5. VerifiedWasProven'
  BY DEF SessionsInv, LinkInv, VerifiedWasProven
<1> QED BY <1>2, <1>3, <1>4, <1>5 DEF SessionsInv, LinkInv

\* Requests about tokens and about the account start.
LEMMA StartInv ==
    ASSUME SessionsInv, NEW p \in Requests,
           \/ Login(p) \/ ChangePassword(p) \/ AdminEdit(p) \/ \E t \in Ids : Refresh(p, t) \/ Logout(p, t)
           \/ \E l \in 1 .. Len(link) : FollowLink(p, l)
    PROVE  SessionsInv'
<1>0. UNCHANGED <<user, rt, link, survivors, proven, stale>>
  BY DEF Login, ChangePassword, AdminEdit, Refresh, Logout, FollowLink
<1>1. user.pw \in Nat /\ user.email \in AnyEmail /\ user.verified \in BOOLEAN /\ None \in AnyEmail /\ \A t \in Ids : t \in Nat
  BY DEF SessionsInv, LinkInv, SessionsType, AnyEmail, Ids
<1>2. ASSUME NEW op \in {"login", "password"}, NEW plan \in {"store", "write"}, Started(p, op, plan, 0, {}) PROVE SessionsInv'
  <2> DEFINE x == [Idle EXCEPT !.op = op, !.plan = plan, !.id = 0, !.snap = {}, !.pw = user.pw]
  <2>1. x \in RequestRows /\ x.op = op /\ x.pw = user.pw /\ x.plan # "revoke"
    BY <1>1 DEF Idle, RequestRows
  <2>2. req' = [req EXCEPT ![p] = x]
    BY <1>2 DEF Started
  <2> HIDE DEF x
  <2>3. RefreshSound(x) /\ SignOutSound(x) /\ ~SignsOut(x) /\ x.pw <= user.pw /\ x.op # "refresh" /\ x.op \notin Purposes
    BY <1>1, <2>1 DEF RefreshSound, SignOutSound, SignsOut, Purposes
  <2> QED BY <1>0, <2>1, <2>2, <2>3, Proceeds
<1>3. ASSUME NEW t \in Ids, NEW plan \in {"rotate", "replay", "revoke"}, NEW s \in SUBSET Nat, Started(p, "refresh", plan, t, s),
             Unlocked({t}, p), plan = "rotate" => rt[t].live, plan = "replay" => Benign(t)
      PROVE  SessionsInv'
  <2> DEFINE x == [Idle EXCEPT !.op = "refresh", !.plan = plan, !.id = t, !.snap = s, !.pw = user.pw]
  <2>1. x \in RequestRows /\ x.op = "refresh" /\ x.pw = user.pw /\ x.plan = plan /\ x.id = t
    BY <1>1 DEF Idle, RequestRows
  <2>2. req' = [req EXCEPT ![p] = x]
    BY <1>3 DEF Started
  <2> HIDE DEF x
  <2>3. plan # "revoke" => rt[t].born = user.pw \/ rt[t].fam \in survivors
    <3> SUFFICES ASSUME plan # "revoke" PROVE rt[t].born = user.pw \/ rt[t].fam \in survivors
      OBVIOUS
    <3>1. PICK c \in Live : rt[c].fam = rt[t].fam
      BY <1>3 DEF Live, Benign, LiveIn
    <3> QED BY <3>1 DEF SessionsInv, TokenInv, TokensSound, SignedOutEverywhere, Live
  <2>4. RefreshSound(x)
    BY <1>3, <2>1, <2>3 DEF RefreshSound, Benign
  <2>5. SignOutSound(x) /\ ~SignsOut(x) /\ x.pw <= user.pw /\ x.op \notin Purposes
    BY <1>1, <2>1 DEF SignOutSound, SignsOut, Purposes
  <2> QED BY <1>0, <1>3, <2>1, <2>2, <2>4, <2>5, Proceeds
<1>4. ASSUME NEW t \in Ids, Logout(p, t) PROVE SessionsInv'
  <2> DEFINE x == [Idle EXCEPT !.op = "logout", !.id = t]
  <2>1. x \in RequestRows /\ x.op = "logout" /\ x.pw = 0
    BY <1>1 DEF Idle, RequestRows
  <2>2. req' = [req EXCEPT ![p] = x]
    BY <1>4 DEF Logout
  <2> HIDE DEF x
  <2>3. RefreshSound(x) /\ SignOutSound(x) /\ ~SignsOut(x) /\ x.pw <= user.pw /\ x.op # "refresh" /\ x.op \notin Purposes
    BY <1>1, <2>1 DEF RefreshSound, SignOutSound, SignsOut, Purposes
  <2> QED BY <1>0, <2>1, <2>2, <2>3, Proceeds
<1>5. ASSUME NEW op \in Purposes \cup {"admin"}, NEW l \in Nat, ReadUser(p, op, l),
             op \in Purposes => /\ l \in 1 .. Len(link) /\ link[l].uses = 0 /\ link[l].purpose = op /\ LinkFree(l)
                                /\ op # "change" => link[l].email = user.email
      PROVE  SessionsInv'
  <2> DEFINE x == [Idle EXCEPT !.op = op, !.plan = "write", !.id = l, !.email = user.email, !.verified = user.verified]
  <2>1. x \in RequestRows /\ x.op = op /\ x.id = l /\ x.pw = 0 /\ x.plan = "write" /\ x.email = user.email
    BY <1>1 DEF Idle, RequestRows
  <2>2. req' = [req EXCEPT ![p] = x]
    BY <1>5 DEF ReadUser
  <2> HIDE DEF x
  <2>3. RefreshSound(x) /\ SignOutSound(x) /\ ~SignsOut(x) /\ x.pw <= user.pw /\ x.op # "refresh"
    BY <1>1, <2>1 DEF RefreshSound, SignOutSound, SignsOut, Purposes
  <2>4. x.op \in Purposes => /\ x.id \in 1 .. Len(link) /\ link[x.id].uses = 0 /\ link[x.id].purpose = x.op
                             /\ x.op # "change" => link[x.id].email = x.email
                             /\ \A q \in Requests \ {p} : req[q].op \in Purposes => req[q].id # x.id
    BY <1>5, <2>1 DEF LinkFree
  <2> QED BY <1>0, <2>1, <2>2, <2>3, <2>4, Proceeds
<1>6. ASSUME NEW t \in Ids, Refresh(p, t) PROVE SessionsInv'
  <2>1. LiveIn(rt[t].fam) \in SUBSET Nat
    BY DEF LiveIn, Live, Ids
  <2>2. Unlocked({t}, p) /\ {} \in SUBSET Nat
    BY <1>6 DEF Refresh
  <2>3. \/ rt[t].live /\ Started(p, "refresh", "rotate", t, {})
        \/ Benign(t) /\ Started(p, "refresh", "replay", t, {})
        \/ Started(p, "refresh", "revoke", t, LiveIn(rt[t].fam))
    BY <1>6 DEF Refresh
  <2>4. CASE rt[t].live /\ Started(p, "refresh", "rotate", t, {})
    BY <1>3, <2>2, <2>4
  <2>5. CASE Benign(t) /\ Started(p, "refresh", "replay", t, {})
    BY <1>3, <2>2, <2>5
  <2>6. CASE Started(p, "refresh", "revoke", t, LiveIn(rt[t].fam))
    BY <1>3, <2>1, <2>2, <2>6
  <2> QED BY <2>3, <2>4, <2>5, <2>6
<1>7. ASSUME NEW l \in 1 .. Len(link), FollowLink(p, l) PROVE SessionsInv'
  <2>1. link[l].purpose \in Purposes /\ l \in Nat
    BY LinkRowTypes DEF SessionsInv, LinkInv
  <2>2. link[l].uses = 0
    BY <1>7 DEF SessionsInv, LinkInv, LinksSound, FollowLink
  <2> QED BY <1>5, <1>7, <2>1, <2>2 DEF FollowLink
<1> QED BY <1>2, <1>4, <1>5, <1>6, <1>7 DEF Login, ChangePassword, AdminEdit, Purposes

\* A request starts to sign out.
LEMMA SignOutInv == ASSUME SessionsInv, NEW p \in Requests, SignOut(p) PROVE SessionsInv'
<1> DEFINE x == [req[p] EXCEPT !.plan = "revoke", !.snap = Live]
<1>0. req[p] \in RequestRows /\ Live \in SUBSET Nat /\ req[p].pw <= user.pw
  BY DEF SessionsInv, LinkInv, SessionsType, Live, Ids, TokenInv, RequestsSound
<1>1. /\ x \in RequestRows /\ x.op = req[p].op /\ x.snap = Live /\ x.pw = req[p].pw /\ x.id = req[p].id /\ x.email = req[p].email
      /\ x.op \in {"reset", "password"}
  BY <1>0 DEF RequestRows, SignOut
<1>2. req' = [req EXCEPT ![p] = x]
  <2>1. req' = [req EXCEPT ![p].plan = "revoke", ![p].snap = Live] /\ req \in [Requests -> RequestRows]
    BY DEF SignOut, Everything, SessionsInv, LinkInv, SessionsType
  <2> QED BY <2>1
<1>3. UNCHANGED <<user, rt, link, survivors, proven, stale>> /\ UserFree
  BY DEF SignOut
<1> HIDE DEF x
<1>4. RefreshSound(x) /\ SignOutSound(x) /\ x.pw <= user.pw /\ x.op # "refresh"
  BY <1>0, <1>1 DEF RefreshSound, SignOutSound
<1>5. x.op \in Purposes => /\ x.id \in 1 .. Len(link) /\ link[x.id].uses = 0 /\ link[x.id].purpose = x.op
                           /\ x.op # "change" => link[x.id].email = x.email
                           /\ \A q \in Requests \ {p} : req[q].op \in Purposes => req[q].id # x.id
  BY <1>1 DEF SessionsInv, LinkInv, LinksSound
<1> QED BY <1>1, <1>2, <1>3, <1>4, <1>5, Proceeds

\* Of the user row only the password matters to tokens.
LEMMA SameTokens == ASSUME TokenInv, UNCHANGED <<rt, req, survivors>>, user'.pw = user.pw PROVE TokenInv'
<1>1. TokensSound' /\ ExchangedOnce' /\ SignedOutEverywhere'
  BY DEF TokenInv, TokensSound, ExchangedOnce, Children, SignedOutEverywhere, Live, Ids
<1>2. \A p \in Requests : RefreshSound(req[p])' /\ SignOutSound(req[p])'
  BY DEF TokenInv, RequestsSound, RefreshSound, SignOutSound, SignsOut, Live, Ids
<1>3. RequestsSound'
  BY <1>2 DEF TokenInv, RequestsSound, SignsOut
<1> QED BY <1>1, <1>3 DEF TokenInv

\* A request about nothing is a request.
LEMMA IdleIsRow == Idle \in RequestRows /\ Idle.op \notin Purposes
  BY DEF Idle, RequestRows, AnyEmail, Purposes

\* A request that ends without touching links or the user.
LEMMA EndsLinks ==
    ASSUME LinkInv, NEW p \in Requests, req' = [req EXCEPT ![p] = Idle], UNCHANGED <<user, link, proven, stale>>
    PROVE  LinkInv'
<1>1. SessionsType'
  BY IdleIsRow DEF LinkInv, SessionsType
<1>2. LinksSound'
  BY IdleIsRow, LinksChange DEF LinkInv, SessionsType
<1> QED BY <1>1, <1>2 DEF LinkInv, VerifiedWasProven

\* The link a request followed is used up, for the address it was sent to.
LEMMA UseLinkInv ==
    ASSUME LinkInv, NEW p \in Requests, req[p].op \in Purposes, req' = [req EXCEPT ![p] = Idle],
           NEW u, u \in [active : BOOLEAN, pw : Nat, email : AnyEmail, verified : BOOLEAN], UseLink(p, u),
           u.verified = user.verified,
           u.email = IF req[p].op = "change" THEN link[req[p].id].email ELSE user.email
    PROVE  LinkInv' /\ user'.pw = u.pw
<1> DEFINE l == req[p].id
<1>0. l \in 1 .. Len(link) /\ link[l].purpose = req[p].op /\ (req[p].op # "change" => link[l].email = req[p].email)
  BY DEF LinkInv, LinksSound
<1>1. req[p] \in RequestRows /\ req[p].verified \in BOOLEAN /\ user.verified \in BOOLEAN
  <2>1. req[p] \in RequestRows /\ user.verified \in BOOLEAN
    BY DEF LinkInv, SessionsType
  <2> QED BY <2>1 DEF RequestRows
<1>2. \E v \in BOOLEAN : user' = [u EXCEPT !.verified = v]
  <2>1. (u.verified \/ ~req[p].verified \/ link[l].purpose = "change") \in BOOLEAN
    OBVIOUS
  <2> QED BY <2>1 DEF UseLink
<1>3. user' \in [active : BOOLEAN, pw : Nat, email : AnyEmail, verified : BOOLEAN] /\ user'.pw = u.pw /\ user'.email = u.email
  BY <1>2
<1>4. /\ link' \in Seq(LinkRows) /\ Len(link') = Len(link)
      /\ \A k \in 1 .. Len(link) :
            /\ link'[k].purpose = link[k].purpose /\ link'[k].email = link[k].email /\ (link'[k].open => link[k].open)
            /\ (link'[k].uses = link[k].uses \/ (k = l /\ link'[k].uses = link[k].uses + 1 /\ ~link'[k].open))
  <2> DEFINE g(k) == IF k = l THEN [link[k] EXCEPT !.open = FALSE, !.uses = @ + 1]
                     ELSE [link[k] EXCEPT !.open = @ /\ k \notin Closed(l)]
  <2>0. Len(link) \in Nat /\ \A k \in 1 .. Len(link) : link[k] \in LinkRows /\ link[k].uses + 1 \in Nat
    BY LinkRowTypes DEF LinkInv
  <2>1. link' = [k \in 1 .. Len(link) |-> g(k)]
    BY DEF UseLink
  <2>2. ASSUME NEW k \in 1 .. Len(link)
        PROVE  /\ g(k) \in LinkRows /\ g(k).purpose = link[k].purpose /\ g(k).email = link[k].email /\ (g(k).open => link[k].open)
               /\ (g(k).uses = link[k].uses \/ (k = l /\ g(k).uses = link[k].uses + 1 /\ ~g(k).open))
    <3>1. CASE k = l
      <4>1. g(k) = [link[k] EXCEPT !.open = FALSE, !.uses = link[k].uses + 1]
        BY <3>1
      <4>2. g(k).open = FALSE
        BY <2>0, <4>1 DEF LinkRows
      <4> QED BY <2>0, <3>1, <4>1, <4>2 DEF LinkRows
    <3>2. CASE k # l
      <4>1. PICK b \in BOOLEAN : (b => link[k].open) /\ g(k) = [link[k] EXCEPT !.open = b]
        <5>1. g(k) = [link[k] EXCEPT !.open = (link[k].open /\ k \notin Closed(l))]
          BY <3>2
        <5>2. (link[k].open /\ k \notin Closed(l)) \in BOOLEAN
          OBVIOUS
        <5> HIDE DEF g
        <5> QED BY <5>1, <5>2
      <4>2. g(k).open = b
        BY <2>0, <4>1 DEF LinkRows
      <4> QED BY <2>0, <4>1, <4>2 DEF LinkRows
    <3> QED BY <3>1, <3>2
  <2> HIDE DEF g
  <2>3. link' \in [1 .. Len(link) -> LinkRows] /\ \A k \in 1 .. Len(link) : link'[k] = g(k)
    BY <2>1, <2>2
  <2>4. link' \in Seq(LinkRows) /\ Len(link') = Len(link)
    BY <2>0, <2>3, LenDomain
  <2> QED BY <2>2, <2>3, <2>4
<1>5. SessionsType'
  BY <1>3, <1>4, IdleIsRow DEF LinkInv, SessionsType
<1>6. LinksSound'
  BY <1>4, IdleIsRow, LinksChange
<1>7. VerifiedWasProven'
  <2>1. proven' = proven \cup {link[l].email} /\ stale' = (stale \/ Outdated(p))
    BY DEF UseLink
  <2>2. CASE req[p].op = "change"
    BY <1>3, <2>1, <2>2 DEF VerifiedWasProven
  <2>3. CASE req[p].op # "change" /\ Outdated(p)
    BY <2>1, <2>3 DEF VerifiedWasProven
  <2>4. CASE req[p].op # "change" /\ ~Outdated(p)
    BY <1>0, <1>3, <2>1, <2>4 DEF VerifiedWasProven, Outdated
  <2> QED BY <2>2, <2>3, <2>4
<1> QED BY <1>3, <1>5, <1>6, <1>7 DEF LinkInv

\* An address is verified or changed.
LEMMA FinishLinkInv == ASSUME SessionsInv, NEW p \in Requests, FinishLink(p) PROVE SessionsInv'
<1> DEFINE u == IF req[p].op = "change" THEN [user EXCEPT !.email = link[req[p].id].email] ELSE user
<1>0. user \in [active : BOOLEAN, pw : Nat, email : AnyEmail, verified : BOOLEAN] /\ link[req[p].id].email \in AnyEmail
      /\ req[p].op \in Purposes
  <2>1. req[p].op \in Purposes
    BY DEF FinishLink, Purposes
  <2> QED BY <2>1, LinkRowTypes DEF SessionsInv, LinkInv, SessionsType, LinksSound
<1>1. u \in [active : BOOLEAN, pw : Nat, email : AnyEmail, verified : BOOLEAN] /\ u.verified = user.verified /\ u.pw = user.pw
      /\ u.email = IF req[p].op = "change" THEN link[req[p].id].email ELSE user.email
  BY <1>0
<1>2. UseLink(p, u) /\ req' = [req EXCEPT ![p] = Idle] /\ rt' = rt /\ survivors' = survivors
  BY DEF FinishLink, Ended
<1> HIDE DEF u
<1>3. LinkInv' /\ user'.pw = u.pw
  BY <1>0, <1>1, <1>2, UseLinkInv DEF SessionsInv
<1>4. TokenInv'
  <2>1. Idle.pw \in Nat /\ Idle.pw <= user.pw
    BY <1>0, IdleSound
  <2> QED BY <1>1, <1>2, <1>3, <2>1, IdleSound, RequestChange DEF SessionsInv
<1> QED BY <1>3, <1>4 DEF SessionsInv

\* The password is set: tokens, links and user.
LEMMA NewPasswordInv == ASSUME SessionsInv, NEW p \in Requests, SetPassword(p) PROVE SessionsInv'
<1>0. user \in [active : BOOLEAN, pw : Nat, email : AnyEmail, verified : BOOLEAN] /\ user.pw + 1 \in Nat
  BY DEF SessionsInv, LinkInv, SessionsType
<1>1. req' = [req EXCEPT ![p] = Idle] /\ req[p].op \in {"reset", "password"}
  BY DEF SetPassword, Ended
<1> DEFINE u == [user EXCEPT !.pw = user.pw + 1]
<1>2. u \in [active : BOOLEAN, pw : Nat, email : AnyEmail, verified : BOOLEAN] /\ u.verified = user.verified /\ u.pw = user.pw + 1
      /\ u.email = user.email
  BY <1>0
<1>3. CASE req[p].op = "reset"
  <2>1. UseLink(p, u)
    BY <1>3 DEF SetPassword
  <2> HIDE DEF u
  <2>2. LinkInv' /\ user'.pw = u.pw
    BY <1>1, <1>2, <1>3, <2>1, UseLinkInv DEF SessionsInv, Purposes
  <2> QED BY <1>0, <1>2, <2>2, SetPasswordInv DEF SessionsInv
<1>4. CASE req[p].op = "password"
  <2>1. user' = u /\ UNCHANGED <<proven, stale>>
        /\ link' = [k \in 1 .. Len(link) |-> [link[k] EXCEPT !.open = @ /\ link[k].purpose # "reset"]]
    BY <1>4 DEF SetPassword
  <2> HIDE DEF u
  <2>2. /\ link' \in Seq(LinkRows) /\ Len(link') = Len(link)
        /\ \A k \in 1 .. Len(link) :
              /\ link'[k].purpose = link[k].purpose /\ link'[k].email = link[k].email /\ (link'[k].open => link[k].open)
              /\ link'[k].uses = link[k].uses
    <3> DEFINE g(k) == [link[k] EXCEPT !.open = @ /\ link[k].purpose # "reset"]
    <3>0. Len(link) \in Nat /\ \A k \in 1 .. Len(link) : link[k] \in LinkRows
      BY LinkRowTypes DEF SessionsInv, LinkInv
    <3>1. link' = [k \in 1 .. Len(link) |-> g(k)]
      BY <2>1
    <3>2. ASSUME NEW k \in 1 .. Len(link)
          PROVE  /\ g(k) \in LinkRows /\ g(k).purpose = link[k].purpose /\ g(k).email = link[k].email
                 /\ (g(k).open => link[k].open) /\ g(k).uses = link[k].uses
      <4>1. PICK b \in BOOLEAN : (b => link[k].open) /\ g(k) = [link[k] EXCEPT !.open = b]
        <5>1. g(k) = [link[k] EXCEPT !.open = (link[k].open /\ link[k].purpose # "reset")]
          OBVIOUS
        <5>2. (link[k].open /\ link[k].purpose # "reset") \in BOOLEAN
          OBVIOUS
        <5> HIDE DEF g
        <5> QED BY <5>1, <5>2
      <4>2. g(k).open = b
        BY <3>0, <4>1 DEF LinkRows
      <4> QED BY <3>0, <4>1, <4>2 DEF LinkRows
    <3> HIDE DEF g
    <3>3. link' \in [1 .. Len(link) -> LinkRows] /\ \A k \in 1 .. Len(link) : link'[k] = g(k)
      BY <3>1, <3>2
    <3>4. link' \in Seq(LinkRows) /\ Len(link') = Len(link)
      BY <3>0, <3>3, LenDomain
    <3> QED BY <3>2, <3>3, <3>4
  <2>3. SessionsType'
    BY <1>1, <1>2, <2>1, <2>2, IdleIsRow DEF SessionsInv, LinkInv, SessionsType
  <2>4. LinksSound'
    BY <1>1, <2>2, IdleIsRow, LinksChange DEF SessionsInv
  <2>5. VerifiedWasProven'
    BY <1>2, <2>1 DEF SessionsInv, LinkInv, VerifiedWasProven
  <2>6. TokenInv'
    BY <1>0, <1>2, <2>1, SetPasswordInv DEF SessionsInv
  <2> QED BY <2>3, <2>4, <2>5, <2>6 DEF SessionsInv, LinkInv
<1> QED BY <1>1, <1>3, <1>4

\* The administrator edits or deactivates the account.
LEMMA AdminInv ==
    ASSUME SessionsInv, (\E p \in Requests, e \in Emails : AdminWrite(p, e)) \/ Deactivate PROVE SessionsInv'
<1>0. user \in [active : BOOLEAN, pw : Nat, email : AnyEmail, verified : BOOLEAN] /\ DOMAIN req = Requests
  BY DEF SessionsInv, LinkInv, SessionsType
<1>1. ASSUME NEW p \in Requests, NEW e \in Emails, AdminWrite(p, e) PROVE SessionsInv'
  <2>1. rt' = rt /\ link' = link /\ survivors' = survivors /\ proven' = proven /\ req' = [req EXCEPT ![p] = Idle]
        /\ stale' = (stale \/ Outdated(p)) /\ user' = [user EXCEPT !.email = e, !.verified = ClearedVerified(p)]
    BY <1>1 DEF AdminWrite, Ended
  <2>2. PICK v \in BOOLEAN : v = ClearedVerified(p)
    BY DEF ClearedVerified
  <2>3. user' \in [active : BOOLEAN, pw : Nat, email : AnyEmail, verified : BOOLEAN] /\ user'.pw = user.pw /\ user'.verified = v
    BY <1>0, <2>1, <2>2 DEF AnyEmail
  <2>4. v => Outdated(p)
    <3>1. v => user.verified /\ ~req[p].verified
      BY <2>2 DEF ClearedVerified
    <3> QED BY <3>1 DEF Outdated
  <2>5. Idle.pw \in Nat /\ Idle.pw <= user.pw
    BY <1>0, IdleSound
  <2>6. TokenInv'
    BY <2>1, <2>3, <2>5, IdleSound, RequestChange DEF SessionsInv
  <2>7. SessionsType'
    BY <2>1, <2>3, IdleIsRow DEF SessionsInv, LinkInv, SessionsType
  <2>8. LinksSound'
    BY <2>1, IdleIsRow, LinksChange DEF SessionsInv, LinkInv, SessionsType
  <2>9. VerifiedWasProven'
    BY <2>1, <2>3, <2>4 DEF VerifiedWasProven
  <2> QED BY <2>6, <2>7, <2>8, <2>9 DEF SessionsInv, LinkInv
<1>2. CASE Deactivate
  <2>1. user' = [user EXCEPT !.active = FALSE] /\ UNCHANGED <<rt, link, req, survivors, proven, stale>>
    BY <1>2 DEF Deactivate
  <2>2. user' \in [active : BOOLEAN, pw : Nat, email : AnyEmail, verified : BOOLEAN] /\ user'.pw = user.pw /\ user'.email = user.email
        /\ user'.verified = user.verified
    BY <1>0, <2>1
  <2>3. TokenInv'
    BY <2>1, <2>2, SameTokens DEF SessionsInv
  <2> QED BY <2>1, <2>2, <2>3 DEF SessionsInv, LinkInv, SessionsType, LinksSound, VerifiedWasProven
<1> QED BY <1>1, <1>2

\* A link is made and sent.
LEMMA SendMailInv ==
    ASSUME SessionsInv, NEW purpose \in Purposes, NEW e \in Emails \cup {None}, SendMail(purpose, e) PROVE SessionsInv'
<1> DEFINE k == NewLink(purpose, IF purpose = "change" THEN e ELSE user.email)
<1>0. link \in Seq(LinkRows) /\ Len(link) \in Nat /\ user.email \in AnyEmail
  BY DEF SessionsInv, LinkInv, SessionsType
<1>1. k \in LinkRows /\ k.uses = 0
  BY <1>0 DEF NewLink, LinkRows, AnyEmail
<1>2. link' = Append(link, k) /\ UNCHANGED <<user, rt, req, survivors, proven, stale>>
  BY DEF SendMail
<1> HIDE DEF k
<1>3. link' \in Seq(LinkRows) /\ Len(link') = Len(link) + 1 /\ link'[Len(link) + 1] = k /\ \A l \in 1 .. Len(link) : link'[l] = link[l]
  BY <1>0, <1>1, <1>2
<1>4. LinksSound'
  <2>1. \A l \in 1 .. Len(link') : link'[l].uses <= 1 /\ (link'[l].open => link'[l].uses = 0)
    <3> SUFFICES ASSUME NEW l \in 1 .. Len(link') PROVE link'[l].uses <= 1 /\ (link'[l].open => link'[l].uses = 0)
      OBVIOUS
    <3>1. l \in 1 .. Len(link) \/ l = Len(link) + 1
      BY <1>0, <1>3
    <3> QED BY <1>1, <1>3, <3>1 DEF SessionsInv, LinkInv, LinksSound
  <2>2. 1 .. Len(link) \subseteq 1 .. Len(link')
    BY <1>0, <1>3
  <2> QED BY <1>2, <1>3, <2>1, <2>2 DEF SessionsInv, LinkInv, LinksSound
<1>5. TokenInv'
  BY <1>2, SameTokens DEF SessionsInv
<1> QED BY <1>2, <1>3, <1>4, <1>5 DEF SessionsInv, LinkInv, SessionsType, VerifiedWasProven

\* A session that is over stays over when no token of it is revived or added and no request starts to exchange one.
LEMMA StaysDead ==
    ASSUME TokenInv, NEW f \in Ids, Dead(f), Ids \subseteq Ids',
           \A t \in Ids : rt'[t].fam = rt[t].fam /\ (rt'[t].live => rt[t].live),
           \A t \in Ids' \ Ids : rt'[t].fam # f,
           \A q \in Requests : \/ req'[q] = req[q] \/ req'[q].op # "refresh" \/ req'[q].plan = "revoke"
                               \/ req'[q].id \in Ids /\ rt[req'[q].id].fam # f
    PROVE  Dead(f)'
<1>1. {t \in Live' : rt'[t].fam = f} = {}
  BY DEF Dead, LiveIn, Live
<1>2. ASSUME NEW q \in Requests, req'[q].op = "refresh", req'[q].plan # "revoke" PROVE rt'[req'[q].id].fam # f
  <2>1. req'[q].id \in Ids /\ rt[req'[q].id].fam # f
    <3>1. CASE req'[q] = req[q]
      BY <1>2, <3>1 DEF TokenInv, RequestsSound, RefreshSound, Dead
    <3>2. CASE req'[q] # req[q]
      BY <1>2, <3>2
    <3> QED BY <3>1, <3>2
  <2> QED BY <2>1
<1> QED BY <1>1, <1>2 DEF Dead, LiveIn

\* One request changes and no other.
LEMMA OtherRequests ==
    ASSUME SessionsInv, NEW p \in Requests, NEW x, req' = [req EXCEPT ![p] = x]
    PROVE  req'[p] = x /\ \A q \in Requests \ {p} : req'[q] = req[q]
  BY DEF SessionsInv, TokenInv

\* No step brings back a session that is over.
LEMMA DeadStep == ASSUME SessionsInv, SessionsNext PROVE DeadStaysDead
<1> SUFFICES ASSUME NEW f \in Ids, Dead(f) PROVE Dead(f)'
  BY DEF DeadStaysDead
<1>0. TokenInv /\ Len(rt) \in Nat /\ rt \in Seq(TokenRows) /\ \A t \in Ids : rt[t].fam = f => ~rt[t].live
  BY DEF SessionsInv, TokenInv, Dead, LiveIn, Live
<1>1. ASSUME NEW p \in Requests, NEW x, rt' = rt, req' = [req EXCEPT ![p] = x],
             x.op # "refresh" \/ x.plan = "revoke" \/ (x.id \in Ids /\ rt[x.id].fam # f)
      PROVE  Dead(f)'
  <2>1. Ids' = Ids
    BY <1>1 DEF Ids
  <2>2. \A q \in Requests : \/ req'[q] = req[q] \/ req'[q].op # "refresh" \/ req'[q].plan = "revoke"
                            \/ req'[q].id \in Ids /\ rt[req'[q].id].fam # f
    BY <1>1, OtherRequests
  <2> QED BY <1>0, <1>1, <2>1, <2>2, StaysDead
<1>2. ASSUME NEW p \in Requests, Ended(p), Ids \subseteq Ids',
             \A t \in Ids : rt'[t].fam = rt[t].fam /\ (rt'[t].live => rt[t].live),
             \A t \in Ids' \ Ids : rt'[t].fam # f
      PROVE  Dead(f)'
  <2>1. \A q \in Requests : \/ req'[q] = req[q] \/ req'[q].op # "refresh"
    BY <1>2, OtherRequests, IdleSound DEF Ended
  <2> QED BY <1>0, <1>2, <2>1, StaysDead
<1>3. ASSUME NEW p \in Requests, NEW s, Ended(p), rt' = Revoked(s) PROVE Dead(f)'
  <2>1. Len(rt') = Len(rt) /\ \A t \in Ids : rt'[t].fam = rt[t].fam /\ (rt'[t].live => rt[t].live)
    BY <1>0, <1>3, RevokedRows
  <2> QED BY <1>2, <1>3, <2>1 DEF Ids
<1>4. ASSUME NEW p \in Requests, NEW w \in Seq(TokenRows), NEW k \in TokenRows, Ended(p), rt' = Append(w, k), Len(w) = Len(rt),
             \A t \in Ids : w[t].fam = rt[t].fam /\ (w[t].live => rt[t].live), k.fam # f
      PROVE  Dead(f)'
  <2>1. /\ Ids \subseteq Ids' /\ \A t \in Ids : rt'[t] = w[t]
        /\ \A t \in Ids' \ Ids : rt'[t] = k
    BY <1>0, <1>4 DEF Ids
  <2> QED BY <1>2, <1>4, <2>1
<1>5. Len(rt) + 1 \in Nat /\ f # Len(rt) + 1 /\ user.pw \in Nat
  BY <1>0 DEF Ids, TokenInv
<1>6. ASSUME NEW p \in Requests, StoreLogin(p) PROVE Dead(f)'
  <2>1. req[p].pw \in Nat
    BY <1>0 DEF TokenInv, RequestsSound
  <2>2. NewToken(Len(rt) + 1, 0, req[p].pw) \in TokenRows /\ NewToken(Len(rt) + 1, 0, req[p].pw).fam = Len(rt) + 1
    BY <1>5, <2>1 DEF NewToken, TokenRows
  <2>3. rt' = Append(rt, NewToken(Len(rt) + 1, 0, req[p].pw)) /\ Ended(p)
    BY <1>6 DEF StoreLogin
  <2> QED BY <1>0, <1>4, <1>5, <2>2, <2>3
<1>7. ASSUME NEW p \in Requests, StoreRefresh(p) PROVE Dead(f)'
  <2>0. PICK t \in Ids : t = req[p].id /\ rt[t].fam # f /\ rt[t] \in TokenRows /\ t \in Nat
    <3>1. req[p].op = "refresh" /\ req[p].plan # "revoke"
      BY <1>7 DEF StoreRefresh
    <3>2. req[p].id \in Ids /\ rt[req[p].id].fam # f
      BY <1>0, <3>1 DEF TokenInv, RequestsSound, RefreshSound, Dead
    <3> QED BY <1>0, <3>2 DEF Ids
  <2> DEFINE used == IF req[p].plan = "rotate" THEN [rt[t] EXCEPT !.live = FALSE, !.rotated = TRUE]
                                               ELSE [rt[t] EXCEPT !.replays = @ + 1]
             w == [rt EXCEPT ![t] = used]
             k == NewToken(rt[t].fam, t, rt[t].born)
  <2>1. k \in TokenRows /\ k.fam # f
    BY <2>0 DEF NewToken, TokenRows
  <2>2. used \in TokenRows /\ used.fam = rt[t].fam /\ (used.live => rt[t].live)
    <3>1. CASE req[p].plan = "rotate"
      <4>1. used = [rt[t] EXCEPT !.live = FALSE, !.rotated = TRUE]
        BY <3>1
      <4>2. used.live = FALSE
        BY <2>0, <4>1 DEF TokenRows
      <4> QED BY <2>0, <4>1, <4>2 DEF TokenRows
    <3>2. CASE req[p].plan # "rotate"
      <4>1. used = [rt[t] EXCEPT !.replays = rt[t].replays + 1] /\ rt[t].replays + 1 \in Nat
        BY <2>0, <3>2 DEF TokenRows
      <4> QED BY <2>0, <4>1 DEF TokenRows
    <3> QED BY <3>1, <3>2
  <2>3. rt' = Append(w, k) /\ Ended(p)
    BY <1>7, <2>0 DEF StoreRefresh
  <2> HIDE DEF used, k
  <2>4. w \in Seq(TokenRows) /\ Len(w) = Len(rt) /\ \A s \in Ids : w[s] = IF s = t THEN used ELSE rt[s]
    BY <1>0, <2>2 DEF Ids
  <2> HIDE DEF w
  <2>5. \A s \in Ids : w[s].fam = rt[s].fam /\ (w[s].live => rt[s].live)
    BY <2>2, <2>4
  <2> QED BY <1>4, <2>1, <2>3, <2>4, <2>5
<1>8. ASSUME NEW p \in Requests, SetPassword(p) PROVE Dead(f)'
  <2>1. Ended(p) /\ (rt' = Revoked(req[p].snap) \/ rt' = Append(Revoked(req[p].snap), NewToken(Len(rt) + 1, 0, user.pw + 1)))
    BY <1>8 DEF SetPassword
  <2>2. CASE rt' = Append(Revoked(req[p].snap), NewToken(Len(rt) + 1, 0, user.pw + 1))
    <3> DEFINE w == Revoked(req[p].snap)
               k == NewToken(Len(rt) + 1, 0, user.pw + 1)
    <3>1. k \in TokenRows /\ k.fam # f
      BY <1>5 DEF NewToken, TokenRows
    <3>2. w \in Seq(TokenRows) /\ Len(w) = Len(rt) /\ \A t \in Ids : w[t].fam = rt[t].fam /\ (w[t].live => rt[t].live)
      BY <1>0, RevokedRows
    <3>3. rt' = Append(w, k)
      BY <2>2
    <3> HIDE DEF w, k
    <3> QED BY <1>4, <2>1, <3>1, <3>2, <3>3
  <2> QED BY <1>3, <2>1, <2>2
<1>9. ASSUME NEW p \in Requests, NEW t \in Ids, Refresh(p, t) PROVE Dead(f)'
  <2>1. \/ rt[t].live /\ Started(p, "refresh", "rotate", t, {})
        \/ Benign(t) /\ Started(p, "refresh", "replay", t, {})
        \/ Started(p, "refresh", "revoke", t, LiveIn(rt[t].fam))
    BY <1>9 DEF Refresh
  <2>2. PICK plan, s : Started(p, "refresh", plan, t, s) /\ (plan = "revoke" \/ rt[t].live \/ Benign(t))
    BY <2>1
  <2>3. plan # "revoke" => rt[t].fam # f
    BY <1>0, <2>2 DEF Benign, Dead
  <2> DEFINE x == [Idle EXCEPT !.op = "refresh", !.plan = plan, !.id = t, !.snap = s, !.pw = user.pw]
  <2>4. x.plan = plan /\ x.id = t
    BY DEF Idle
  <2>5. req' = [req EXCEPT ![p] = x] /\ rt' = rt
    BY <1>9, <2>2 DEF Started, Refresh
  <2> HIDE DEF x
  <2> QED BY <1>1, <2>3, <2>4, <2>5
<1>10. ASSUME NEW p \in Requests, Login(p) \/ ChangePassword(p) \/ AdminEdit(p) \/ (\E t \in Ids : Logout(p, t)) \/ FinishLink(p)
              \/ (\E l \in 1 .. Len(link) : FollowLink(p, l)) \/ (\E e \in Emails : AdminWrite(p, e)) \/ SignOut(p)
       PROVE  Dead(f)'
  <2>1. rt' = rt
    BY <1>10 DEF Login, ChangePassword, AdminEdit, Logout, FinishLink, FollowLink, AdminWrite, SignOut
  <2>2. \A l \in 1 .. Len(link) : link[l].purpose # "refresh"
    BY LinkRowTypes DEF SessionsInv, LinkInv, Purposes
  <2>3. ASSUME NEW op, NEW plan, op # "refresh", Started(p, op, plan, 0, {}) PROVE Dead(f)'
    <3> DEFINE x == [Idle EXCEPT !.op = op, !.plan = plan, !.id = 0, !.snap = {}, !.pw = user.pw]
    <3>1. x.op = op /\ req' = [req EXCEPT ![p] = x]
      BY <2>3 DEF Idle, Started
    <3> HIDE DEF x
    <3> QED BY <1>1, <2>1, <2>3, <3>1
  <2>4. ASSUME NEW op, NEW l, op # "refresh", ReadUser(p, op, l) PROVE Dead(f)'
    <3> DEFINE x == [Idle EXCEPT !.op = op, !.plan = "write", !.id = l, !.email = user.email, !.verified = user.verified]
    <3>1. x.op = op /\ req' = [req EXCEPT ![p] = x]
      BY <2>4 DEF Idle, ReadUser
    <3> HIDE DEF x
    <3> QED BY <1>1, <2>1, <2>4, <3>1
  <2>5. \A t : [Idle EXCEPT !.op = "logout", !.id = t].op = "logout"
    BY DEF Idle
  <2>6. CASE Login(p) \/ ChangePassword(p)
    BY <2>3, <2>6 DEF Login, ChangePassword
  <2>7. CASE AdminEdit(p) \/ \E l \in 1 .. Len(link) : FollowLink(p, l)
    BY <2>2, <2>4, <2>7 DEF AdminEdit, FollowLink
  <2>8. CASE \E t \in Ids : Logout(p, t)
    BY <1>1, <2>1, <2>5, <2>8 DEF Logout
  <2>9. CASE FinishLink(p) \/ \E e \in Emails : AdminWrite(p, e)
    BY <1>1, <2>1, <2>9, IdleSound DEF FinishLink, AdminWrite, Ended
  <2>10. CASE SignOut(p)
    <3> DEFINE x == [req[p] EXCEPT !.plan = "revoke", !.snap = Live]
    <3>1. req' = [req EXCEPT ![p].plan = "revoke", ![p].snap = Live] /\ req \in [Requests -> RequestRows]
      BY <2>10 DEF SignOut, Everything, SessionsInv, LinkInv, SessionsType
    <3>2. req' = [req EXCEPT ![p] = x]
      BY <3>1
    <3>3. x.plan = "revoke"
      BY <3>1 DEF RequestRows
    <3> HIDE DEF x
    <3> QED BY <1>1, <2>1, <3>2, <3>3
  <2> QED BY <1>10, <2>6, <2>7, <2>8, <2>9, <2>10
<1>11. ASSUME rt' = rt, req' = req PROVE Dead(f)'
  BY <1>11 DEF Dead, LiveIn, Live, Ids
<1>12. CASE \E p \in Requests : SessionEndpoints(p)
  BY <1>3, <1>6, <1>7, <1>9, <1>10, <1>12 DEF SessionEndpoints, RevokeFamily, RevokeOne
<1>13. CASE \E p \in Requests : AccountEndpoints(p) \/ AdminEndpoints(p)
  BY <1>8, <1>10, <1>13 DEF AccountEndpoints, AdminEndpoints
<1>14. CASE Deactivate \/ \E purpose \in Purposes, e \in Emails \cup {None} : SendMail(purpose, e)
  BY <1>11, <1>14 DEF Deactivate, SendMail
<1> QED BY <1>12, <1>13, <1>14 DEF SessionsNext

\* Every step keeps the invariant.
LEMMA SessionsStep == ASSUME SessionsInv, [SessionsNext]_sessionsVars PROVE SessionsInv' /\ [DeadStaysDead]_sessionsVars
<1>1. ASSUME NEW p \in Requests, StoreLogin(p) \/ StoreRefresh(p) PROVE SessionsInv'
  <2>1. TokenInv'
    BY <1>1, StoreLoginInv, StoreRefreshInv DEF SessionsInv
  <2>2. LinkInv'
    BY <1>1, EndsLinks DEF SessionsInv, StoreLogin, StoreRefresh, Ended
  <2> QED BY <2>1, <2>2 DEF SessionsInv
<1>2. ASSUME NEW p \in Requests, RevokeFamily(p) \/ RevokeOne(p) PROVE SessionsInv'
  <2>1. PICK S : /\ Unlocked(S, p) /\ rt' = Revoked(S) /\ req' = [req EXCEPT ![p] = Idle]
                 /\ UNCHANGED <<user, link, survivors, proven, stale>>
    BY <1>2 DEF RevokeFamily, RevokeOne, Ended
  <2>2. TokenInv' /\ LinkInv'
    BY <2>1, RevokeInv, EndsLinks DEF SessionsInv
  <2> QED BY <2>2 DEF SessionsInv
<1>3. ASSUME NEW p \in Requests, SessionEndpoints(p) PROVE SessionsInv'
  BY <1>1, <1>2, <1>3, StartInv DEF SessionEndpoints
<1>4. ASSUME NEW p \in Requests, AccountEndpoints(p) \/ AdminEndpoints(p) PROVE SessionsInv'
  BY <1>4, StartInv, FinishLinkInv, SignOutInv, NewPasswordInv, AdminInv DEF AccountEndpoints, AdminEndpoints
<1>5. CASE SessionsNext
  BY <1>3, <1>4, <1>5, SendMailInv, AdminInv, DeadStep DEF SessionsNext
<1>6. CASE UNCHANGED sessionsVars
  <2>1. UNCHANGED <<user, rt, link, req, survivors, proven, stale>>
    BY <1>6 DEF sessionsVars
  <2>2. TokenInv'
    BY <2>1, SameTokens DEF SessionsInv
  <2> QED BY <1>6, <2>1, <2>2 DEF SessionsInv, LinkInv, SessionsType, LinksSound, VerifiedWasProven
<1> QED BY <1>5, <1>6

\* The invariant says what is wanted.
LEMMA SessionsSafe == SessionsInv => CredentialsHold
  BY DEF SessionsInv, TokenInv, LinkInv, CredentialsHold, LinksSound, LinkWorksOnce

\* A refresh token is exchanged once and replayed no more often than allowed, an e-mailed link works once, a new password
\* signs out every older session but those whose token was being made, and a verified address was proven, whatever
\* requests overlap (auth_service.py, account_service.py).
THEOREM CredentialsSafe ==
    /\ SessionsSpec => []CredentialsHold
    /\ Spec => []Sessions_CredentialsHold
<1> DEFINE I == part = "sessions" => SessionsInv
<1>1. SessionsInv => CredentialsHold
  BY SessionsSafe
<1>2. Init => I
  BY SessionsInitInv DEF Init
<1>3. I /\ [Next]_vars => I'
  BY PartStep, SessionsStep
<1>4. I => Sessions_CredentialsHold
  BY <1>1 DEF Sessions_CredentialsHold
<1>5. SessionsSpec => []CredentialsHold
  BY <1>1, SessionsInitInv, SessionsStep, PTL DEF SessionsSpec
<1>6. Spec => []Sessions_CredentialsHold
  <2> HIDE DEF I
  <2> QED BY <1>2, <1>3, <1>4, PTL DEF Spec
<1> QED BY <1>5, <1>6

\* A session without a live token and without an exchange under way never gets one again: not by a replay in the grace
\* window, not by a sign-in, not by a change of password (auth_service.py, _is_benign_replay).
THEOREM ShutSessions ==
    /\ SessionsSpec => [][DeadStaysDead]_sessionsVars
    /\ Spec => Sessions_DeadStaysDead
<1> DEFINE I == part = "sessions" => SessionsInv
<1>1. Init => I
  BY SessionsInitInv DEF Init
<1>2. I /\ [Next]_vars => I' /\ [part = "sessions" => DeadStaysDead]_sessionsVars
  BY PartStep, SessionsStep
<1>3. SessionsInv /\ [SessionsNext]_sessionsVars => SessionsInv' /\ [DeadStaysDead]_sessionsVars
  BY SessionsStep
<1>4. SessionsSpec => [][DeadStaysDead]_sessionsVars
  BY <1>3, SessionsInitInv, PTL DEF SessionsSpec
<1>5. Spec => Sessions_DeadStaysDead
  <2> HIDE DEF I
  <2> QED BY <1>1, <1>2, PTL DEF Spec, Sessions_DeadStaysDead
<1> QED BY <1>4, <1>5

-----------------------------------------------------------------------------
\* A line, and what a request has read.
LineRows == [id : Nat, cart : Nat, unit : Units, qty : Nat]
CartRequests ==
    [op : {"idle"}]
    \cup [op : {"add"}, owner : Owners, cart : Nat \cup {None}, seen : SUBSET LineRows, unit : Units, qty : Nat]
    \cup [op : {"update"}, line : LineRows, qty : Nat]
    \cup [op : {"remove"}, seen : SUBSET LineRows]
    \cup [op : {"login"}, guest : Nat, seen : SUBSET LineRows]
    \cup [op : {"merge"}, guest : Nat, seen : SUBSET LineRows, user : Nat \cup {None}, own : SUBSET LineRows]

\* The types of the rows.
CartType ==
    /\ carts \subseteq [id : Nat, owner : Owners] /\ lines \subseteq LineRows /\ rows \in Nat
    /\ request \in [Requests -> CartRequests] /\ asked \in [Units -> Nat]

\* The lines a request has read and may write back.
Reads(q) ==
    IF q.op \in {"add", "login"} THEN q.seen
    ELSE IF q.op = "update" THEN {q.line} ELSE IF q.op = "merge" THEN q.seen \cup q.own ELSE {}
Remembered == UNION {Reads(request[r]) : r \in Requests}
GuestLines == UNION {request[r].seen : r \in SigningIn}

\* A quantity that may still be written: of a row that is there, or of a line that a sign-in has read in the guest cart and
\* that no other has merged.
Alive(m) == \E l \in lines : l.id = m.id
Waiting(m) == m \in GuestLines /\ CartRow(m.cart, "guest") \in carts
Known == {m \in lines \cup Remembered : Alive(m) \/ Waiting(m)}

\* An owner has one cart, and a cart one line of a unit.
RowsSound ==
    /\ \A c \in carts : c.id <= rows
    /\ \A c, d \in carts : c.owner = d.owner \/ c.id = d.id => c = d
    /\ \A l \in lines : \E c \in carts : c.id = l.cart
    /\ \A l, m \in lines : l.id = m.id \/ (l.cart = m.cart /\ l.unit = m.unit) => l = m

\* A line read before has the number, the cart and the unit it had. Unless its unit was merged a second time, it has no more
\* pieces than were asked for, and two lines of the unit have not together.
AmountsSound ==
    /\ \A m \in lines \cup Remembered : m.id <= rows /\ (m.unit \notin twice => m.qty <= asked[m.unit])
    /\ \A l, m \in lines \cup Remembered : l.id = m.id => l.cart = m.cart /\ l.unit = m.unit
    /\ \A l, m \in Known : l.id # m.id /\ l.unit = m.unit /\ l.unit \notin twice => l.qty + m.qty <= asked[l.unit]

\* What a sign-in has read: the lines of one guest cart, one of each unit, and those of the user's cart. Any of them may be
\* gone since, but a cart that was the user's never becomes a guest's.
SignInReads(q) ==
    /\ q.guest <= rows
    /\ \A g \in q.seen : g.cart = q.guest
    /\ \A g, h \in q.seen : g.unit = h.unit => g = h
    /\ q.op = "merge" /\ q.user # None =>
           q.user <= rows /\ (\A c \in carts : c.id = q.user => c.owner = "user") /\ \A l \in q.own : l.cart = q.user
SignInSound == \A r \in SigningIn : SignInReads(request[r])

\* The inductive invariant of Cart.
CartInv == CartType /\ RowsSound /\ AmountsSound /\ SignInSound

\* No cart at first.
LEMMA CartInitInv == CartInit => CartInv
<1> SUFFICES ASSUME CartInit PROVE CartInv
  OBVIOUS
<1>1. \A r \in Requests : Reads(request[r]) = {} /\ request[r].op = "idle"
  BY DEF CartInit, NoRequest, Reads
<1>2. Remembered = {} /\ SigningIn = {} /\ Known = {}
  BY <1>1 DEF Remembered, SigningIn, Known, Alive, GuestLines, CartInit
<1> QED BY <1>2 DEF CartInit, CartInv, CartType, CartRequests, NoRequest, RowsSound, AmountsSound, SignInSound

\* The invariant says what is wanted.
LEMMA CartSafe == CartInv => CountedOnce
<1> SUFFICES ASSUME CartInv PROVE CountedOnce
  OBVIOUS
<1>1. lines \subseteq Known
  BY DEF Known, Alive
<1>2. \A l, m \in lines : (l.unit = m.unit /\ l.cart = m.cart) => l = m
  BY DEF CartInv, RowsSound
<1>3. \A l, m \in lines : (l.unit = m.unit /\ l # m /\ l.unit \notin twice) => l.qty + m.qty <= asked[l.unit]
  BY <1>1 DEF CartInv, RowsSound, AmountsSound
<1>4. \A l \in lines : l.unit \notin twice => l.qty <= asked[l.unit]
  BY DEF CartInv, AmountsSound
<1> QED BY <1>2, <1>3, <1>4 DEF CountedOnce, InCartsOnce

\* What a request reads are lines.
LEMMA ReadsAreLines ==
    ASSUME NEW q \in CartRequests
    PROVE  Reads(q) \subseteq LineRows /\ (q.op \in {"login", "merge"} => q.seen \subseteq Reads(q))
  BY DEF CartRequests, Reads

\* After a request goes on with x, what is remembered was remembered or is read by x.
LEMMA RequestReads ==
    ASSUME CartType, NEW r \in Requests, NEW x \in CartRequests, request' = [request EXCEPT ![r] = x]
    PROVE  /\ request' \in [Requests -> CartRequests]
           /\ \A m \in Remembered' : m \in Reads(x) \/ m \in Remembered
           /\ \A m \in GuestLines' : m \in GuestLines \/ (x.op \in {"login", "merge"} /\ m \in x.seen)
           /\ \A s \in SigningIn' : (s = r /\ request'[s] = x /\ x.op \in {"login", "merge"}) \/ (s \in SigningIn /\ s # r /\ request'[s] = request[s])
<1>1. request' \in [Requests -> CartRequests] /\ \A s \in Requests : request'[s] = IF s = r THEN x ELSE request[s]
  BY DEF CartType
<1>2. \A s \in SigningIn' : (s = r /\ request'[s] = x /\ x.op \in {"login", "merge"}) \/ (s \in SigningIn /\ s # r /\ request'[s] = request[s])
  BY <1>1 DEF SigningIn
<1>3. \A m \in Remembered' : m \in Reads(x) \/ m \in Remembered
  <2> SUFFICES ASSUME NEW m \in Remembered' PROVE m \in Reads(x) \/ m \in Remembered
    OBVIOUS
  <2>1. PICK s \in Requests : m \in Reads(request'[s])
    BY DEF Remembered, Reads
  <2> QED BY <1>1, <2>1 DEF Remembered
<1>4. \A m \in GuestLines' : m \in GuestLines \/ (x.op \in {"login", "merge"} /\ m \in x.seen)
  <2> SUFFICES ASSUME NEW m \in GuestLines' PROVE m \in GuestLines \/ (x.op \in {"login", "merge"} /\ m \in x.seen)
    OBVIOUS
  <2>1. PICK s \in SigningIn' : m \in request'[s].seen
    BY DEF GuestLines
  <2> QED BY <1>2, <2>1 DEF GuestLines
<1> QED BY <1>1, <1>2, <1>3, <1>4

\* A request that has ended remembers nothing.
LEMMA RequestEnds ==
    ASSUME CartType, NEW r \in Requests, Done(r)
    PROVE  /\ request' \in [Requests -> CartRequests] /\ Remembered' \subseteq Remembered /\ GuestLines' \subseteq GuestLines
           /\ \A s \in SigningIn' : s \in SigningIn /\ s # r /\ request'[s] = request[s]
<1>1. NoRequest \in CartRequests /\ Reads(NoRequest) = {} /\ NoRequest.op = "idle"
  BY DEF NoRequest, CartRequests, Reads
<1>2. request' = [request EXCEPT ![r] = NoRequest]
  BY DEF Done
<1> QED BY <1>1, <1>2, RequestReads

\* What a sign-in has read stays so when no cart becomes a guest's but a new one.
LEMMA ReadsStay ==
    ASSUME rows \in Nat, rows' \in Nat, rows <= rows', NEW q \in CartRequests, q.op \in {"login", "merge"}, SignInReads(q),
           \A c \in carts' : c.id \in Nat, \A c \in carts' : c \in carts \/ c.id > rows \/ c.owner = "user"
    PROVE  SignInReads(q)'
<1>1. q.guest \in Nat /\ (q.op = "merge" /\ q.user # None => q.user \in Nat)
  BY DEF CartRequests
<1>2. q.guest <= rows'
  BY <1>1 DEF SignInReads
<1>3. ASSUME q.op = "merge", q.user # None
      PROVE  q.user <= rows' /\ \A c \in carts' : c.id = q.user => c.owner = "user"
  BY <1>1, <1>3 DEF SignInReads
<1> QED BY <1>2, <1>3 DEF SignInReads

\* Nor does a line that no sign-in waits for begin to be waited for.
LEMMA WaitingStays ==
    ASSUME CartInv, GuestLines' \subseteq GuestLines, NEW m, Waiting(m)',
           \A c \in carts' : c \in carts \/ c.id > rows \/ c.owner = "user"
    PROVE  Waiting(m)
<1>1. m \in GuestLines /\ CartRow(m.cart, "guest") \in carts'
  BY DEF Waiting, CartRow
<1>2. PICK s \in SigningIn : m \in request[s].seen
  BY <1>1 DEF GuestLines
<1>3. m.cart = request[s].guest /\ m.cart <= rows /\ m.cart \in Nat /\ rows \in Nat
  <2>1. request[s] \in CartRequests /\ request[s].op \in {"login", "merge"} /\ rows \in Nat
    BY DEF SigningIn, CartInv, CartType
  <2>2. request[s].guest \in Nat
    BY <2>1 DEF CartRequests
  <2> QED BY <1>2, <2>1, <2>2 DEF CartInv, SignInSound, SignInReads
<1>4. CartRow(m.cart, "guest").id = m.cart /\ CartRow(m.cart, "guest").owner = "guest"
  BY DEF CartRow
<1>5. ~(m.cart > rows)
  BY <1>3
<1> QED BY <1>1, <1>4, <1>5 DEF Waiting

\* A request goes on without having written anything.
LEMMA ReadInv ==
    ASSUME CartInv, NEW r \in Requests, NEW x \in CartRequests, request' = [request EXCEPT ![r] = x],
           UNCHANGED <<carts, lines, rows, asked, twice>>, Reads(x) \subseteq lines \cup Reads(request[r]),
           x.op \in {"login", "merge"} => x.seen \subseteq lines \cup GuestLines /\ SignInReads(x)
    PROVE  CartInv'
<1>1. /\ request' \in [Requests -> CartRequests]
      /\ \A m \in Remembered' : m \in Reads(x) \/ m \in Remembered
      /\ \A m \in GuestLines' : m \in GuestLines \/ (x.op \in {"login", "merge"} /\ m \in x.seen)
      /\ \A s \in SigningIn' : (s = r /\ request'[s] = x /\ x.op \in {"login", "merge"}) \/ (s \in SigningIn /\ s # r /\ request'[s] = request[s])
  BY RequestReads DEF CartInv
<1>2. lines' \cup Remembered' \subseteq lines \cup Remembered
  BY <1>1 DEF Remembered
<1>3. Known' \subseteq Known
  <2> SUFFICES ASSUME NEW m \in Known' PROVE m \in Known
    OBVIOUS
  <2>1. m \in lines \cup Remembered /\ (Alive(m) \/ (m \in GuestLines' /\ CartRow(m.cart, "guest") \in carts))
    BY <1>2 DEF Known, Alive, Waiting, CartRow
  <2>2. m \in GuestLines' => m \in GuestLines \/ m \in lines
    BY <1>1
  <2> QED BY <2>1, <2>2 DEF Known, Alive, Waiting
<1>4. CartType' /\ RowsSound'
  BY <1>1 DEF CartInv, CartType, RowsSound
<1>5. AmountsSound'
  BY <1>2, <1>3 DEF CartInv, AmountsSound
<1>6. SignInSound'
  <2> SUFFICES ASSUME NEW s \in SigningIn' PROVE SignInReads(request[s])'
    BY DEF SignInSound
  <2>1. SignInReads(request'[s])
    BY <1>1 DEF CartInv, SignInSound
  <2> QED BY <2>1 DEF SignInReads
<1> QED BY <1>4, <1>5, <1>6 DEF CartInv

\* A request ends with nothing written.
LEMMA RefusedInv == ASSUME CartInv, NEW r \in Requests, Refused(r) PROVE CartInv'
<1>1. NoRequest \in CartRequests /\ Reads(NoRequest) = {} /\ NoRequest.op = "idle"
  BY DEF NoRequest, CartRequests, Reads
<1>2. request' = [request EXCEPT ![r] = NoRequest] /\ UNCHANGED <<carts, lines, rows, asked, twice>>
  BY DEF Refused, Done
<1> QED BY <1>1, <1>2, ReadInv

\* The other sign-ins keep what they have read.
LEMMA SignInsStay ==
    ASSUME CartInv, NEW r \in Requests, Done(r), rows' \in Nat, rows <= rows', \A c \in carts' : c.id \in Nat,
           \A c \in carts' : c \in carts \/ c.id > rows \/ c.owner = "user"
    PROVE  SignInSound'
<1> SUFFICES ASSUME NEW s \in SigningIn' PROVE SignInReads(request[s])'
  BY DEF SignInSound
<1>1. s \in SigningIn /\ request'[s] = request[s]
  BY RequestEnds DEF CartInv
<1>2. rows \in Nat /\ request[s] \in CartRequests /\ request[s].op \in {"login", "merge"} /\ SignInReads(request[s])
  BY <1>1 DEF SigningIn, CartInv, CartType, SignInSound
<1> DEFINE q == request[s]
<1>3. PICK x \in CartRequests : x = q
  BY <1>2
<1>4. x.op \in {"login", "merge"} /\ SignInReads(x)
  BY <1>2, <1>3
<1> HIDE DEF q
<1>5. SignInReads(x)'
  BY <1>2, <1>4, ReadsStay
<1>6. x = request'[s]
  BY <1>1, <1>3 DEF q
<1> QED BY <1>5, <1>6 DEF SignInReads

\* Lines and carts are only deleted.
LEMMA DropInv ==
    ASSUME CartInv, NEW r \in Requests, Done(r), lines' \subseteq lines, carts' \subseteq carts, twice \subseteq twice', asked' = asked,
           rows' \in Nat, rows <= rows', \A l \in lines' : \E c \in carts' : c.id = l.cart
    PROVE  CartInv'
<1>1. /\ request' \in [Requests -> CartRequests] /\ Remembered' \subseteq Remembered /\ GuestLines' \subseteq GuestLines
  BY RequestEnds DEF CartInv
<1>2. Known' \subseteq Known
  <2> SUFFICES ASSUME NEW m \in Known' PROVE m \in Known
    OBVIOUS
  <2>1. m \in lines \cup Remembered /\ (Alive(m) \/ Waiting(m)')
    BY <1>1 DEF Known, Alive
  <2>2. Waiting(m)' => Waiting(m)
    BY <1>1, WaitingStays
  <2> QED BY <2>1, <2>2 DEF Known
<1>3. CartType'
  BY <1>1 DEF CartInv, CartType
<1>4. RowsSound'
  <2>1. \A c \in carts : c.id \in Nat /\ c.id <= rows /\ rows \in Nat
    BY DEF CartInv, CartType, RowsSound
  <2>2. \A c \in carts' : c.id <= rows'
    BY <2>1
  <2> QED BY <2>2 DEF CartInv, RowsSound
<1>5. AmountsSound'
  <2>1. \A m \in lines \cup Remembered : m.id \in Nat /\ m.id <= rows /\ rows \in Nat
    <3>1. lines \cup Remembered \subseteq LineRows /\ rows \in Nat
      BY ReadsAreLines DEF CartInv, CartType, Remembered
    <3> QED BY <3>1 DEF LineRows, CartInv, AmountsSound
  <2>2. \A m \in lines' \cup Remembered' : m.id <= rows'
    BY <1>1, <2>1
  <2> QED BY <1>1, <1>2, <2>2 DEF CartInv, AmountsSound
<1>6. SignInSound'
  BY SignInsStay DEF CartInv, CartType
<1> QED BY <1>3, <1>4, <1>5, <1>6 DEF CartInv

\* One line w is written or inserted, and d pieces of its unit are asked for.
LEMMA WriteLineInv ==
    ASSUME CartInv, NEW r \in Requests, Done(r), NEW w \in LineRows, NEW d \in Nat,
           w \in lines', lines' \subseteq lines \cup {w}, \A l \in lines' : l.id = w.id => l = w,
           \A m \in lines \cup Remembered : m.id = w.id => m.cart = w.cart /\ m.unit = w.unit,
           \A m \in lines : m.cart = w.cart /\ m.unit = w.unit => m.id = w.id,
           w.id > rows \/ Alive(w), rows' \in Nat, rows <= rows', w.id <= rows',
           asked' = [asked EXCEPT ![w.unit] = @ + d], twice' = twice,
           w.unit \notin twice =>
               /\ w.qty <= asked[w.unit] + d
               /\ \A m \in Known : m.id # w.id /\ m.unit = w.unit => w.qty + m.qty <= asked[w.unit] + d,
           carts \subseteq carts', carts' \subseteq [id : Nat, owner : Owners], \A c \in carts' : c.id <= rows',
           \A c \in carts' : c \in carts \/ c.id > rows,
           \A c, e \in carts' : c.owner = e.owner \/ c.id = e.id => c = e, \E c \in carts' : c.id = w.cart
    PROVE  CartInv'
<1>0. rows \in Nat /\ lines \subseteq LineRows /\ asked \in [Units -> Nat] /\ Remembered \subseteq LineRows
  <2>1. rows \in Nat /\ lines \subseteq LineRows /\ asked \in [Units -> Nat] /\ request \in [Requests -> CartRequests]
    BY DEF CartInv, CartType
  <2> QED BY <2>1, ReadsAreLines DEF Remembered
<1>1. /\ request' \in [Requests -> CartRequests] /\ Remembered' \subseteq Remembered /\ GuestLines' \subseteq GuestLines
  BY RequestEnds DEF CartInv
<1>2. /\ w.unit \in Units /\ w.id \in Nat /\ w.qty \in Nat /\ asked' \in [Units -> Nat]
      /\ \A u \in Units : asked[u] \in Nat /\ asked'[u] = IF u = w.unit THEN asked[u] + d ELSE asked[u]
  BY <1>0 DEF LineRows
<1>3. \A m \in lines \cup Remembered : /\ m.id \in Nat /\ m.qty \in Nat /\ m.unit \in Units /\ m.id <= rows
                                       /\ (m.unit \notin twice => m.qty <= asked[m.unit] /\ m.qty <= asked'[m.unit])
  <2> SUFFICES ASSUME NEW m \in lines \cup Remembered
               PROVE  /\ m.id \in Nat /\ m.qty \in Nat /\ m.unit \in Units /\ m.id <= rows
                      /\ (m.unit \notin twice => m.qty <= asked[m.unit] /\ m.qty <= asked'[m.unit])
    OBVIOUS
  <2>1. m.id \in Nat /\ m.qty \in Nat /\ m.unit \in Units
    BY <1>0 DEF LineRows
  <2>2. m.id <= rows /\ (m.unit \notin twice => m.qty <= asked[m.unit])
    BY DEF CartInv, AmountsSound
  <2> QED BY <1>2, <2>1, <2>2
<1>4. CartType'
  BY <1>0, <1>1, <1>2 DEF CartType
<1>5. RowsSound'
  <2>1. \A l \in lines' : \E c \in carts' : c.id = l.cart
    BY DEF CartInv, RowsSound
  <2>2. \A l, m \in lines' : l.id = m.id \/ (l.cart = m.cart /\ l.unit = m.unit) => l = m
    BY DEF CartInv, RowsSound
  <2> QED BY <2>1, <2>2 DEF RowsSound
<1>6. ASSUME NEW m \in Known' PROVE m = w \/ (m \in Known /\ m.id # w.id) \/ (m \in Known /\ m.id = w.id)
  <2>1. m \in lines' \cup Remembered' /\ (Waiting(m)' \/ \E l \in lines' : l.id = m.id)
    BY DEF Known, Alive
  <2>2. CASE m \in lines'
    BY <2>2 DEF Known, Alive
  <2>3. CASE m \in Remembered'
    <3>1. m \in Remembered /\ m.id <= rows /\ m.id \in Nat
      BY <1>1, <1>3, <2>3
    <3>2. Waiting(m) \/ Alive(m)
      <4>1. CASE Waiting(m)'
        BY <1>1, <4>1, WaitingStays
      <4>2. CASE \E l \in lines' : l.id = m.id
        BY <1>0, <1>2, <3>1, <4>2 DEF Alive
      <4> QED BY <2>1, <4>1, <4>2
    <3> QED BY <3>1, <3>2 DEF Known
  <2> QED BY <2>1, <2>2, <2>3
<1>7. AmountsSound'
  <2>1. \A m \in lines' \cup Remembered' : m.id <= rows' /\ (m.unit \notin twice => m.qty <= asked'[m.unit])
    <3> SUFFICES ASSUME NEW m \in lines' \cup Remembered' PROVE m.id <= rows' /\ (m.unit \notin twice => m.qty <= asked'[m.unit])
      OBVIOUS
    <3>1. CASE m = w
      BY <1>2, <3>1
    <3>2. CASE m \in lines \cup Remembered
      BY <1>0, <1>3, <3>2
    <3> QED BY <1>1, <3>1, <3>2
  <2>2. \A l, m \in lines' \cup Remembered' : l.id = m.id => l.cart = m.cart /\ l.unit = m.unit
    BY <1>1 DEF CartInv, AmountsSound
  <2>3. ASSUME NEW l \in Known', NEW m \in Known', l.id # m.id, l.unit = m.unit, l.unit \notin twice PROVE l.qty + m.qty <= asked'[l.unit]
    <3>1. \A k \in Known : k.qty \in Nat /\ k.unit \in Units
      BY <1>3 DEF Known
    <3>2. CASE l = w /\ m \in Known
      BY <1>2, <2>3, <3>1, <3>2
    <3>3. CASE m = w /\ l \in Known
      <4>1. w.qty + l.qty <= asked[w.unit] + d
        BY <2>3, <3>3
      <4> QED BY <1>2, <2>3, <3>1, <3>3, <4>1
    <3>4. CASE l \in Known /\ m \in Known
      <4>1. l.qty + m.qty <= asked[l.unit]
        BY <2>3, <3>4 DEF CartInv, AmountsSound
      <4> QED BY <1>2, <3>1, <3>4, <4>1
    <3> QED BY <1>6, <2>3, <3>2, <3>3, <3>4
  <2> QED BY <2>1, <2>2, <2>3 DEF AmountsSound
<1>8. SignInSound'
  BY SignInsStay DEF CartInv, CartType
<1> QED BY <1>4, <1>5, <1>7, <1>8 DEF CartInv

\* The cart of an owner.
LEMMA CartOfRow ==
    ASSUME CartInv, NEW owner \in Owners
    PROVE  /\ CartOf(owner) \in Nat \cup {None}
           /\ CartOf(owner) # None => CartRow(CartOf(owner), owner) \in carts
           /\ CartOf(owner) = None => \A c \in carts : c.owner # owner
<1>0. \A c \in carts : c \in [id : Nat, owner : Owners] /\ c = CartRow(c.id, c.owner) /\ c.id \in Nat
  BY DEF CartInv, CartType, CartRow
<1>1. CASE \E c \in carts : c.owner = owner
  <2>1. PICK c \in carts : c.owner = owner /\ CartOf(owner) = c.id
    BY <1>1 DEF CartOf
  <2> QED BY <1>0, <2>1, CartAssumption
<1>2. CASE ~ \E c \in carts : c.owner = owner
  BY <1>2 DEF CartOf
<1> QED BY <1>1, <1>2

\* A request reads a cart.
LEMMA LoadInv ==
    ASSUME CartInv, NEW r \in Requests, NEW owner \in Owners,
           \/ \E unit \in Units, qty \in 1 .. Stock : LoadAdd(r, owner, unit, qty)
           \/ \E line \in Seen(owner), qty \in 1 .. Stock : LoadUpdate(r, owner, line, qty)
           \/ \E seen \in SUBSET Seen(owner) : LoadRemove(r, owner, seen)
    PROVE  CartInv'
<1>0. lines \subseteq LineRows /\ Seen(owner) \subseteq lines /\ Stock \in Nat
  BY CartAssumption DEF CartInv, CartType, Seen, Of
<1>1. ASSUME NEW x \in CartRequests, Load(r, x), Reads(x) \subseteq lines, x.op \notin {"login", "merge"} PROVE CartInv'
  BY <1>1, ReadInv DEF Load
<1>2. ASSUME NEW unit \in Units, NEW qty \in 1 .. Stock, LoadAdd(r, owner, unit, qty) PROVE CartInv'
  <2> DEFINE x == [op |-> "add", owner |-> owner, cart |-> CartOf(owner), seen |-> Seen(owner), unit |-> unit, qty |-> qty]
  <2>1. qty \in Nat /\ CartOf(owner) \in Nat \cup {None}
    BY <1>0, CartOfRow
  <2>2. x \in CartRequests /\ Reads(x) = Seen(owner) /\ x.op = "add"
    BY <1>0, <2>1 DEF CartRequests, Reads
  <2>3. Load(r, x)
    BY <1>2 DEF LoadAdd
  <2> HIDE DEF x
  <2> QED BY <1>0, <1>1, <2>2, <2>3
<1>3. ASSUME NEW line \in Seen(owner), NEW qty \in 1 .. Stock, LoadUpdate(r, owner, line, qty) PROVE CartInv'
  <2> DEFINE x == [op |-> "update", line |-> line, qty |-> qty]
  <2>1. x \in CartRequests /\ Reads(x) = {line} /\ x.op = "update"
    BY <1>0 DEF CartRequests, Reads
  <2>2. Load(r, x)
    BY <1>3 DEF LoadUpdate
  <2> HIDE DEF x
  <2> QED BY <1>0, <1>1, <2>1, <2>2
<1>4. ASSUME NEW seen \in SUBSET Seen(owner), LoadRemove(r, owner, seen) PROVE CartInv'
  <2> DEFINE x == [op |-> "remove", seen |-> seen]
  <2>1. x \in CartRequests /\ Reads(x) = {} /\ x.op = "remove"
    BY <1>0 DEF CartRequests, Reads
  <2>2. Load(r, x)
    BY <1>4 DEF LoadRemove
  <2> HIDE DEF x
  <2> QED BY <1>1, <2>1, <2>2
<1> QED BY <1>2, <1>3, <1>4

\* A sign-in begins.
LEMMA LoadGuestInv == ASSUME CartInv, NEW r \in Requests, LoadGuest(r) PROVE CartInv'
<1> DEFINE x == [op |-> "login", guest |-> CartOf("guest"), seen |-> Seen("guest")]
<1>1. CartOf("guest") \in Nat /\ CartRow(CartOf("guest"), "guest") \in carts /\ CartRow(CartOf("guest"), "guest").id = CartOf("guest")
  BY CartOfRow DEF LoadGuest, Owners, CartRow
<1>2. CartOf("guest") <= rows
  BY <1>1 DEF CartInv, RowsSound
<1>3. lines \subseteq LineRows /\ Seen("guest") \subseteq lines /\ \A g \in Seen("guest") : g.cart = CartOf("guest")
  BY DEF CartInv, CartType, Seen, Of
<1>4. x \in CartRequests /\ x.op = "login" /\ x.guest = CartOf("guest") /\ x.seen = Seen("guest") /\ Reads(x) = Seen("guest")
  BY <1>1, <1>3 DEF CartRequests, Reads
<1>5. request' = [request EXCEPT ![r] = x] /\ UNCHANGED <<carts, lines, rows, asked, twice>>
  BY DEF LoadGuest, Load
<1> HIDE DEF x
<1>6. \A g, h \in x.seen : g.unit = h.unit => g = h
  BY <1>3, <1>4 DEF CartInv, RowsSound
<1>7. SignInReads(x)
  BY <1>2, <1>3, <1>4, <1>6 DEF SignInReads
<1>8. Reads(x) \subseteq lines \cup Reads(request[r]) /\ x.seen \subseteq lines \cup GuestLines
  BY <1>3, <1>4
<1> QED BY <1>4, <1>5, <1>7, <1>8, ReadInv

\* The sign-in reads the cart of the user.
LEMMA LoadUserInv == ASSUME CartInv, NEW r \in Requests, LoadUser(r) PROVE CartInv'
<1> DEFINE q == request[r]
           x == [op |-> "merge", guest |-> q.guest, seen |-> q.seen, user |-> CartOf("user"), own |-> Seen("user")]
<1>1. q \in CartRequests /\ q.op = "login" /\ r \in SigningIn
  BY DEF CartInv, CartType, LoadUser, SigningIn
<1>2. q.guest \in Nat /\ q.seen \subseteq LineRows /\ Reads(q) = q.seen
  BY <1>1 DEF CartRequests, Reads
<1>3. lines \subseteq LineRows /\ Seen("user") \subseteq lines /\ \A g \in Seen("user") : g.cart = CartOf("user")
  BY DEF CartInv, CartType, Seen, Of
<1>4. CartOf("user") \in Nat \cup {None} /\ (CartOf("user") # None => CartRow(CartOf("user"), "user") \in carts)
  BY CartOfRow DEF Owners
<1>5. CartOf("user") # None => CartOf("user") <= rows /\ \A c \in carts : c.id = CartOf("user") => c.owner = "user"
  <2>1. CartRow(CartOf("user"), "user").id = CartOf("user") /\ CartRow(CartOf("user"), "user").owner = "user"
    BY DEF CartRow
  <2> QED BY <1>4, <2>1 DEF CartInv, RowsSound
<1>6. /\ x \in CartRequests /\ x.op = "merge" /\ x.guest = q.guest /\ x.seen = q.seen /\ Reads(x) = q.seen \cup Seen("user")
      /\ x.user = CartOf("user") /\ x.own = Seen("user")
  BY <1>2, <1>3, <1>4 DEF CartRequests, Reads
<1>7. request' = [request EXCEPT ![r] = x] /\ UNCHANGED <<carts, lines, rows, asked, twice>>
  BY DEF LoadUser
<1>8. SignInReads(q) /\ q.seen \subseteq GuestLines
  BY <1>1 DEF CartInv, SignInSound, GuestLines
<1> HIDE DEF x
<1>9. Reads(x) \subseteq lines \cup Reads(request[r])
  BY <1>2, <1>3, <1>6
<1> HIDE DEF q
<1>10. SignInReads(x) /\ x.seen \subseteq lines \cup GuestLines
  BY <1>3, <1>5, <1>6, <1>8 DEF SignInReads
<1> QED BY <1>6, <1>7, <1>9, <1>10, ReadInv

\* A line is written whose row is there.
LEMMA SetQuantityInv ==
    ASSUME CartInv, NEW r \in Requests, Done(r), UNCHANGED <<carts, rows, twice>>, NEW s \in Remembered, Alive(s), NEW n \in Nat, NEW d \in Nat,
           lines' = {IF l.id = s.id THEN [l EXCEPT !.qty = n] ELSE l : l \in lines},
           asked' = [asked EXCEPT ![s.unit] = @ + d],
           s.unit \notin twice =>
               /\ n <= asked[s.unit] + d
               /\ \A m \in Known : m.id # s.id /\ m.unit = s.unit => n + m.qty <= asked[s.unit] + d
    PROVE  CartInv'
<1>0. lines \subseteq LineRows /\ rows \in Nat /\ carts \subseteq [id : Nat, owner : Owners]
  BY DEF CartInv, CartType
<1>1. PICK k \in lines : k.id = s.id
  BY DEF Alive
<1>2. \A l \in lines : l.id = s.id => l = k
  BY <1>1 DEF CartInv, RowsSound
<1>3. k.cart = s.cart /\ k.unit = s.unit /\ k.id <= rows /\ k \in LineRows
  BY <1>0, <1>1 DEF CartInv, AmountsSound
<1> DEFINE w == [k EXCEPT !.qty = n]
<1>4. w \in LineRows /\ w.id = k.id /\ w.cart = k.cart /\ w.unit = k.unit /\ w.qty = n
  BY <1>3 DEF LineRows
<1>5. w \in lines' /\ lines' \subseteq lines \cup {w} /\ \A l \in lines' : l.id = s.id => l = w
  <2>1. w \in lines'
    BY <1>1
  <2>2. \A l \in lines : (IF l.id = s.id THEN [l EXCEPT !.qty = n] ELSE l) = IF l.id = s.id THEN w ELSE l
    BY <1>2
  <2>3. lines' = {IF l.id = s.id THEN w ELSE l : l \in lines}
    BY <2>2
  <2> HIDE DEF w
  <2> QED BY <1>1, <1>4, <2>1, <2>3
<1> HIDE DEF w
<1>6. \A m \in lines \cup Remembered : m.id = w.id => m.cart = w.cart /\ m.unit = w.unit
  BY <1>1, <1>4 DEF CartInv, AmountsSound
<1>7. \A m \in lines : m.cart = w.cart /\ m.unit = w.unit => m.id = w.id
  BY <1>4 DEF CartInv, RowsSound
<1>8. Alive(w) /\ w.id <= rows /\ rows <= rows
  BY <1>0, <1>3, <1>4 DEF Alive
<1>9. \E c \in carts : c.id = w.cart
  BY <1>4 DEF CartInv, RowsSound
<1>10. (\A c \in carts : c.id <= rows) /\ (\A c, e \in carts : c.owner = e.owner \/ c.id = e.id => c = e)
  BY DEF CartInv, RowsSound
<1>11. /\ asked' = [asked EXCEPT ![w.unit] = @ + d]
       /\ w.unit \notin twice =>
              /\ w.qty <= asked[w.unit] + d
              /\ \A m \in Known : m.id # w.id /\ m.unit = w.unit => w.qty + m.qty <= asked[w.unit] + d
       /\ \A l \in lines' : l.id = w.id => l = w
  BY <1>1, <1>3, <1>4, <1>5
<1> QED BY <1>0, <1>4, <1>5, <1>6, <1>7, <1>8, <1>9, <1>10, <1>11, WriteLineInv

\* More of a unit that is in the cart.
LEMMA AddMoreInv == ASSUME CartInv, NEW r \in Requests, request[r].op = "add", AddMore(r) PROVE CartInv'
<1> DEFINE q == request[r]
<1>1. q \in CartRequests /\ q.op = "add"
  BY DEF CartInv, CartType
<1>2. q.unit \in Units /\ q.qty \in Nat /\ q.seen \subseteq LineRows /\ Reads(q) = q.seen
  BY <1>1 DEF CartRequests, Reads
<1>3. PICK s \in q.seen :
         /\ s.unit = q.unit
         /\ IF s.qty + q.qty <= Stock /\ \E l \in lines : l.id = s.id
            THEN /\ lines' = {IF l.id = s.id THEN [l EXCEPT !.qty = s.qty + q.qty] ELSE l : l \in lines}
                 /\ asked' = [asked EXCEPT ![q.unit] = @ + q.qty]
                 /\ Done(r)
                 /\ UNCHANGED <<carts, rows, twice>>
            ELSE Refused(r)
  BY DEF AddMore
<1>4. CASE Refused(r)
  BY <1>4, RefusedInv
<1>5. CASE ~Refused(r)
  <2>1. s \in Remembered /\ s \in LineRows
    BY <1>2 DEF Remembered
  <2>2. s.qty \in Nat /\ s.qty + q.qty \in Nat
    BY <1>2, <2>1 DEF LineRows
  <2>3. Alive(s) /\ s \in Known
    BY <1>3, <1>5, <2>1 DEF Alive, Known
  <2>4. asked \in [Units -> Nat] /\ asked[s.unit] \in Nat /\ (s.unit \notin twice => s.qty <= asked[s.unit])
    BY <1>2, <1>3, <2>1 DEF CartInv, CartType, AmountsSound
  <2>5. \A m \in Known : m.qty \in Nat
    <3>1. lines \cup Remembered \subseteq LineRows
      BY ReadsAreLines DEF CartInv, CartType, Remembered
    <3> QED BY <3>1 DEF Known, LineRows
  <2>6. s.unit \notin twice => \A m \in Known : m.id # s.id /\ m.unit = s.unit => s.qty + m.qty <= asked[s.unit]
    BY <2>3 DEF CartInv, AmountsSound
  <2>7. s.unit \notin twice =>
        /\ s.qty + q.qty <= asked[s.unit] + q.qty
        /\ \A m \in Known : m.id # s.id /\ m.unit = s.unit => s.qty + q.qty + m.qty <= asked[s.unit] + q.qty
    BY <1>2, <2>2, <2>4, <2>5, <2>6
  <2>8. /\ lines' = {IF l.id = s.id THEN [l EXCEPT !.qty = s.qty + q.qty] ELSE l : l \in lines}
        /\ asked' = [asked EXCEPT ![s.unit] = @ + q.qty] /\ Done(r) /\ UNCHANGED <<carts, rows, twice>>
    BY <1>3, <1>5
  <2> QED BY <1>2, <2>1, <2>2, <2>3, <2>7, <2>8, SetQuantityInv
<1> QED BY <1>4, <1>5

\* A quantity is set.
LEMMA UpdateItemInv == ASSUME CartInv, NEW r \in Requests, UpdateItem(r) PROVE CartInv'
<1> DEFINE q == request[r]
           s == q.line
<1>1. q \in CartRequests /\ q.op = "update"
  BY DEF CartInv, CartType, UpdateItem
<1>2. q.qty \in Nat /\ s \in LineRows /\ Reads(q) = {s}
  BY <1>1 DEF CartRequests, Reads
<1>3. CASE Refused(r)
  BY <1>3, RefusedInv
<1>4. CASE ~Refused(r)
  <2>1. s \in Remembered
    BY <1>2 DEF Remembered
  <2>2. asked \in [Units -> Nat] /\ asked[s.unit] \in Nat
    BY <1>2 DEF CartInv, CartType, LineRows
  <2>3. \A m \in Known : m.qty \in Nat /\ (m.unit \notin twice => m.qty <= asked[m.unit])
    <3>1. lines \cup Remembered \subseteq LineRows
      BY ReadsAreLines DEF CartInv, CartType, Remembered
    <3> QED BY <3>1 DEF Known, LineRows, CartInv, AmountsSound
  <2>4. s.unit \notin twice =>
        q.qty <= asked[s.unit] + q.qty /\ \A m \in Known : m.id # s.id /\ m.unit = s.unit => q.qty + m.qty <= asked[s.unit] + q.qty
    <3>1. q.qty <= asked[s.unit] + q.qty
      BY <1>2, <2>2
    <3>2. ASSUME NEW m \in Known, m.unit = s.unit, s.unit \notin twice PROVE q.qty + m.qty <= asked[s.unit] + q.qty
      <4>1. m.qty \in Nat /\ m.qty <= asked[s.unit]
        BY <2>3, <3>2
      <4> QED BY <1>2, <2>2, <4>1
    <3> QED BY <3>1, <3>2
  <2>5. Alive(s) /\ lines' = {IF l.id = s.id THEN [l EXCEPT !.qty = q.qty] ELSE l : l \in lines}
        /\ asked' = [asked EXCEPT ![s.unit] = @ + q.qty] /\ Done(r) /\ UNCHANGED <<carts, rows, twice>>
    BY <1>4 DEF UpdateItem, Alive
  <2> HIDE DEF s, q
  <2> QED BY <1>2, <2>1, <2>4, <2>5, SetQuantityInv
<1> QED BY <1>3, <1>4

\* A new line, and perhaps its cart.
LEMMA AddLineInv == ASSUME CartInv, NEW r \in Requests, request[r].op = "add", AddLine(r) PROVE CartInv'
<1> DEFINE q == request[r]
           cart == IF q.cart = None THEN rows + 1 ELSE q.cart
           id == IF q.cart = None THEN rows + 2 ELSE rows + 1
           w == Line(id, cart, q.unit, q.qty)
<1>0. rows \in Nat /\ lines \subseteq LineRows /\ carts \subseteq [id : Nat, owner : Owners] /\ asked \in [Units -> Nat]
  BY DEF CartInv, CartType
<1>1. q \in CartRequests /\ q.op = "add"
  BY DEF CartInv, CartType
<1>2. q.unit \in Units /\ q.qty \in Nat /\ q.cart \in Nat \cup {None} /\ q.owner \in Owners
  BY <1>1 DEF CartRequests
<1>3. CASE Refused(r)
  BY <1>3, RefusedInv
<1>4. CASE ~Refused(r)
  <2>1. /\ Insertable(q.owner, q.cart) /\ LineFree(cart, q.unit)
        /\ carts' = carts \cup (IF q.cart = None THEN {CartRow(cart, q.owner)} ELSE {})
        /\ lines' = lines \cup {w} /\ rows' = id /\ asked' = [asked EXCEPT ![q.unit] = @ + q.qty] /\ Done(r) /\ twice' = twice
    BY <1>4 DEF AddLine
  <2>2. id \in Nat /\ cart \in Nat /\ id > rows /\ rows <= id /\ (q.cart = None => cart = rows + 1)
    BY <1>0, <1>2
  <2>3. w \in LineRows /\ w.id = id /\ w.cart = cart /\ w.unit = q.unit /\ w.qty = q.qty
    BY <1>2, <2>2 DEF Line, LineRows
  <2>4. /\ carts \subseteq carts' /\ carts' \subseteq [id : Nat, owner : Owners] /\ (\A c \in carts' : c.id <= id)
        /\ (\A c, e \in carts' : c.owner = e.owner \/ c.id = e.id => c = e) /\ (\E c \in carts' : c.id = cart)
        /\ \A c \in carts' : c \in carts \/ c.id > rows
    <3>0. \A c \in carts : c.id \in Nat /\ c.id <= rows
      BY <1>0 DEF CartInv, RowsSound
    <3>1. CASE q.cart = None
      <4> DEFINE c == CartRow(cart, q.owner)
      <4>1. c \in [id : Nat, owner : Owners] /\ c.id = rows + 1 /\ c.owner = q.owner /\ cart = rows + 1 /\ id = rows + 2
        BY <1>2, <2>2, <3>1 DEF CartRow
      <4>2. carts' = carts \cup {c}
        BY <2>1, <3>1
      <4>3. \A e \in carts : e.owner # q.owner
        BY <1>2, <2>1, <3>1, CartOfRow DEF Insertable
      <4> HIDE DEF c, cart, id
      <4>4. \A e \in carts : e.id # rows + 1
        BY <1>0, <3>0
      <4>5. \A e, f \in carts' : e.owner = f.owner \/ e.id = f.id => e = f
        BY <4>1, <4>2, <4>3, <4>4 DEF CartInv, RowsSound
      <4>6. \A e \in carts' : e.id <= id
        BY <1>0, <3>0, <4>1, <4>2
      <4>7. \A e \in carts' : e \in carts \/ e.id > rows
        BY <1>0, <4>1, <4>2
      <4> QED BY <1>0, <4>1, <4>2, <4>5, <4>6, <4>7
    <3>2. CASE q.cart # None
      <4>1. carts' = carts /\ id = rows + 1 /\ \E c \in carts : c.id = cart
        BY <2>1, <3>2 DEF Insertable
      <4> HIDE DEF cart, id
      <4>2. \A c \in carts' : c.id <= id
        BY <1>0, <3>0, <4>1
      <4> QED BY <1>0, <4>1, <4>2 DEF CartInv, RowsSound
    <3> QED BY <3>1, <3>2
  <2>5. \A m \in lines \cup Remembered : m.id \in Nat /\ m.id <= rows /\ m.qty \in Nat /\ (m.unit \notin twice => m.qty <= asked[m.unit])
    <3>1. lines \cup Remembered \subseteq LineRows
      BY ReadsAreLines DEF CartInv, CartType, Remembered
    <3> QED BY <3>1 DEF LineRows, CartInv, AmountsSound
  <2>6. \A m \in lines : ~(m.cart = cart /\ m.unit = q.unit)
    BY <2>1 DEF LineFree, Of
  <2> HIDE DEF w, cart, id
  <2>7. \A m \in lines \cup Remembered : m.id # id
    BY <1>0, <2>2, <2>5
  <2>8. asked[q.unit] \in Nat /\ q.qty <= asked[q.unit] + q.qty
    BY <1>0, <1>2
  <2>9. q.unit \notin twice => \A m \in Known : m.unit = q.unit => q.qty + m.qty <= asked[q.unit] + q.qty
    <3> SUFFICES ASSUME q.unit \notin twice, NEW m \in Known, m.unit = q.unit PROVE q.qty + m.qty <= asked[q.unit] + q.qty
      OBVIOUS
    <3>1. m.qty \in Nat /\ m.qty <= asked[q.unit]
      BY <2>5 DEF Known
    <3> QED BY <1>2, <2>8, <3>1
  <2> HIDE DEF q
  <2>10. w \in lines' /\ lines' \subseteq lines \cup {w} /\ \A l \in lines' : l.id = w.id => l = w
    BY <2>1, <2>3, <2>7
  <2>11. rows' \in Nat /\ rows <= rows' /\ w.id <= rows' /\ w.id > rows
    BY <2>1, <2>2, <2>3
  <2>12. /\ \A m \in lines \cup Remembered : m.id = w.id => m.cart = w.cart /\ m.unit = w.unit
         /\ \A m \in lines : m.cart = w.cart /\ m.unit = w.unit => m.id = w.id
    BY <2>3, <2>6, <2>7
  <2>13. /\ asked' = [asked EXCEPT ![w.unit] = @ + q.qty]
         /\ w.unit \notin twice =>
            /\ w.qty <= asked[w.unit] + q.qty
            /\ \A m \in Known : m.id # w.id /\ m.unit = w.unit => w.qty + m.qty <= asked[w.unit] + q.qty
    BY <2>1, <2>3, <2>8, <2>9
  <2>14. (\A c \in carts' : c.id <= rows') /\ \E c \in carts' : c.id = w.cart
    BY <2>1, <2>3, <2>4
  <2> QED BY <1>2, <2>1, <2>3, <2>4, <2>10, <2>11, <2>12, <2>13, <2>14, WriteLineInv
<1> QED BY <1>3, <1>4

\* Lines are deleted.
LEMMA RemoveItemsInv == ASSUME CartInv, NEW r \in Requests, RemoveItems(r) PROVE CartInv'
<1>1. lines' \subseteq lines /\ Done(r) /\ UNCHANGED <<carts, rows, asked, twice>>
  BY DEF RemoveItems
<1>2. rows \in Nat /\ \A l \in lines' : \E c \in carts' : c.id = l.cart
  BY <1>1 DEF CartInv, CartType, RowsSound
<1> QED BY <1>1, <1>2, DropInv

\* The guest cart becomes the cart of the user, unless it is already.
LEMMA ReassignInv == ASSUME CartInv, NEW r \in Requests, Reassign(r) PROVE CartInv'
<1> DEFINE q == request[r]
<1>0. carts \subseteq [id : Nat, owner : Owners] /\ rows \in Nat
  BY DEF CartInv, CartType
<1>1. CASE Refused(r)
  BY <1>1, RefusedInv
<1>2. CASE ~Refused(r)
  <2>1. /\ carts' = {IF c.id = q.guest THEN CartRow(c.id, "user") ELSE c : c \in carts} /\ Done(r) /\ UNCHANGED <<lines, rows, asked, twice>>
        /\ CartOf("user") \in {None, q.guest}
    BY <1>2 DEF Reassign
  <2> DEFINE h(c) == IF c.id = q.guest THEN CartRow(c.id, "user") ELSE c
  <2>2. ASSUME NEW c \in carts
        PROVE  /\ h(c) \in [id : Nat, owner : Owners] /\ h(c).id = c.id
               /\ h(c) = c \/ h(c).owner = "user"
    BY <1>0 DEF CartRow, Owners
  <2>3. ASSUME NEW c \in carts, c.owner = "user" PROVE c.id = q.guest
    <3>1. CartOf("user") # None /\ CartRow(CartOf("user"), "user") \in carts
      BY <2>3, CartOfRow DEF Owners
    <3>2. CartRow(q.guest, "user") \in carts /\ CartRow(q.guest, "user").owner = "user" /\ CartRow(q.guest, "user").id = q.guest
      BY <2>1, <3>1 DEF CartRow
    <3> QED BY <2>3, <3>2 DEF CartInv, RowsSound
  <2>4. ASSUME NEW c \in carts, NEW e \in carts, h(c).owner = h(e).owner \/ h(c).id = h(e).id PROVE h(c) = h(e)
    <3>1. CASE c.id = q.guest /\ e.id = q.guest
      BY <3>1
    <3>2. CASE c.id # q.guest /\ e.id # q.guest
      BY <2>4, <3>2 DEF CartInv, RowsSound
    <3>3. CASE c.id = q.guest /\ e.id # q.guest
      BY <2>2, <2>3, <2>4, <3>3 DEF CartRow
    <3>4. CASE c.id # q.guest /\ e.id = q.guest
      BY <2>2, <2>3, <2>4, <3>4 DEF CartRow
    <3> QED BY <3>1, <3>2, <3>3, <3>4
  <2>5. carts' = {h(c) : c \in carts}
    BY <2>1
  <2> HIDE DEF h, q
  <2>6. \A c \in carts' : c.id \in Nat /\ (c \in carts \/ c.owner = "user") /\ c \in [id : Nat, owner : Owners]
    BY <2>2, <2>5
  <2>7. request' \in [Requests -> CartRequests] /\ Remembered' \subseteq Remembered /\ GuestLines' \subseteq GuestLines
    BY <2>1, RequestEnds DEF CartInv
  <2>8. Known' \subseteq Known
    <3> SUFFICES ASSUME NEW m \in Known' PROVE m \in Known
      OBVIOUS
    <3>1. m \in lines \cup Remembered /\ (Alive(m) \/ Waiting(m)')
      BY <2>1, <2>7 DEF Known, Alive
    <3>2. Waiting(m)' => Waiting(m)
      BY <2>6, <2>7, WaitingStays
    <3> QED BY <3>1, <3>2 DEF Known
  <2>9. CartType'
    BY <2>1, <2>6, <2>7 DEF CartInv, CartType
  <2>10. RowsSound'
    <3>1. \A c, e \in carts' : c.owner = e.owner \/ c.id = e.id => c = e
      BY <2>4, <2>5
    <3>2. \A c \in carts' : c.id <= rows'
      BY <2>1, <2>2, <2>5 DEF CartInv, RowsSound
    <3>3. \A l \in lines' : \E c \in carts' : c.id = l.cart
      BY <2>1, <2>2, <2>5 DEF CartInv, RowsSound
    <3> QED BY <2>1, <3>1, <3>2, <3>3 DEF CartInv, RowsSound
  <2>11. AmountsSound'
    BY <2>1, <2>7, <2>8 DEF CartInv, AmountsSound
  <2>12. SignInSound'
    BY <1>0, <2>1, <2>6, SignInsStay
  <2> QED BY <2>9, <2>10, <2>11, <2>12 DEF CartInv
<1> QED BY <1>1, <1>2

\* The guest lines that a sign-in has read are finitely many.
LEMMA SeenFinite == ASSUME CartInv, NEW r \in SigningIn PROVE IsFiniteSet(request[r].seen)
<1> DEFINE S == request[r].seen
           f == [g \in S |-> g.id]
<1>1. S \subseteq Remembered /\ rows \in Nat /\ S \subseteq LineRows
  <2>1. r \in Requests /\ request[r] \in CartRequests /\ request[r].op \in {"login", "merge"} /\ rows \in Nat
    BY DEF SigningIn, CartInv, CartType
  <2>2. S \subseteq Reads(request[r]) /\ Reads(request[r]) \subseteq LineRows
    BY <2>1, ReadsAreLines
  <2> QED BY <2>1, <2>2 DEF Remembered
<1>2. \A g \in S : g.id \in 0 .. rows
  BY <1>1 DEF CartInv, AmountsSound, LineRows
<1>3. \A g, h \in S : g.id = h.id => g = h
  BY <1>1 DEF CartInv, AmountsSound, SignInSound, SignInReads
<1> HIDE DEF S
<1>4. f \in Injection(S, 0 .. rows)
  BY <1>2, <1>3 DEF Injection, IsInjective
<1>5. IsFiniteSet(0 .. rows)
  BY <1>1, FS_Interval
<1>6. IsFiniteSet(S)
  BY <1>4, <1>5, FS_Injection
<1> QED BY <1>6 DEF S

\* The lines that a merge adds to are the user's, and there is a cart to add them to.
LEMMA MergeTarget ==
    ASSUME CartInv, NEW q \in CartRequests, q.op = "merge", q.user # None, q.seen # {}, SignInReads(q), q.own \subseteq Remembered, Mergeable(q)
    PROVE  CartRow(q.user, "user") \in carts
<1>1. q.seen \subseteq LineRows /\ carts \subseteq [id : Nat, owner : Owners]
  BY DEF CartRequests, CartInv, CartType
<1>2. \E c \in carts : c.id = q.user
  <2>1. PICK g \in q.seen : TRUE
    OBVIOUS
  <2>2. CASE g \in Fresh(q)
    BY <2>2 DEF Mergeable
  <2>3. CASE g \notin Fresh(q)
    <3>1. PICK o \in q.own : o.unit = g.unit
      BY <2>3 DEF Fresh
    <3>2. <<o, g>> \in Common(q) /\ <<o, g>>[1] = o
      BY <3>1 DEF Common
    <3>3. PICK l \in lines : l.id = o.id
      BY <3>2 DEF Mergeable
    <3>4. l.cart = q.user
      BY <3>1, <3>3 DEF CartInv, AmountsSound, SignInReads
    <3> QED BY <3>3, <3>4 DEF CartInv, RowsSound
  <2> QED BY <2>2, <2>3
<1>3. PICK c \in carts : c.id = q.user
  BY <1>2
<1>4. c.owner = "user" /\ c = CartRow(c.id, c.owner)
  BY <1>1, <1>3 DEF SignInReads, CartRow
<1> QED BY <1>3, <1>4

\* Unless a sign-in merges a guest cart that is gone, the two carts are all there are.
LEMMA MergeSource ==
    ASSUME CartInv, NEW q \in CartRequests, q.op = "merge", q.user # q.guest, CartRow(q.user, "user") \in carts, ~Gone(q)
    PROVE  /\ CartRow(q.guest, "guest") \in carts
           /\ \A c \in carts : c = CartRow(q.guest, "guest") \/ c = CartRow(q.user, "user")
<1>0. carts \subseteq [id : Nat, owner : Owners] /\ CartRow(q.user, "user").id = q.user /\ CartRow(q.user, "user").owner = "user"
  BY DEF CartInv, CartType, CartRow
<1>1. PICK c \in carts : c.id = q.guest
  BY DEF Gone
<1>2. c.owner # "user"
  BY <1>0, <1>1 DEF CartInv, RowsSound
<1>3. c = CartRow(q.guest, "guest") /\ c.owner = "guest"
  BY <1>0, <1>1, <1>2 DEF CartRow, Owners
<1>4. ASSUME NEW d \in carts PROVE d = c \/ d = CartRow(q.user, "user")
  <2>1. d.owner = "guest" \/ d.owner = "user"
    BY <1>0 DEF Owners
  <2> QED BY <1>0, <1>3, <2>1 DEF CartInv, RowsSound
<1> QED BY <1>1, <1>3, <1>4

\* What a merge leaves: one line of each unit in a cart, with no more pieces than were asked for. If the guest cart was
\* there, no other cart is left but the user's; if it was gone, the units that were in it are counted twice and the lines
\* of the others are as they were.
LEMMA MergeInv == ASSUME CartInv, NEW r \in Requests, Merge(r) PROVE CartInv'
<1> DEFINE q == request[r]
<1>0. /\ r \in SigningIn /\ carts \subseteq [id : Nat, owner : Owners] /\ lines \subseteq LineRows /\ rows \in Nat
      /\ asked \in [Units -> Nat] /\ q \in CartRequests /\ q.op = "merge" /\ q.user # None
  BY DEF Merge, SigningIn, CartInv, CartType
<1>1. CASE Refused(r)
  BY <1>1, RefusedInv
<1>2. CASE ~Refused(r)
  <2>1. SignInReads(q)
    BY <1>0 DEF CartInv, SignInSound
  <2>2. /\ q.guest \in Nat /\ q.user \in Nat /\ q.seen \subseteq LineRows /\ q.own \subseteq LineRows
        /\ q.seen \cup q.own \subseteq Remembered /\ q.seen \subseteq GuestLines
    <3>1. q.guest \in Nat /\ q.user \in Nat /\ q.seen \subseteq LineRows /\ q.own \subseteq LineRows /\ Reads(q) = q.seen \cup q.own
      BY <1>0 DEF CartRequests, Reads
    <3> QED BY <1>0, <3>1 DEF Remembered, GuestLines
  <2> DEFINE F == Fresh(q)
             card == Cardinality(F)
             New(f) == {Line(f[g], q.user, g.unit, g.qty) : g \in F}
  <2>3. F \subseteq q.seen /\ IsFiniteSet(F) /\ card \in Nat
    <3>1. F \subseteq q.seen
      BY DEF Fresh
    <3> QED BY <1>0, <3>1, SeenFinite, FS_Subset, FS_CardinalityType
  <2>4. PICK f \in [F -> rows + 1 .. rows + card] :
           /\ \A g, h \in F : f[g] = f[h] => g = h
           /\ lines' = IF q.user = q.guest THEN Without(lines, q.guest) ELSE Without(MergeItems(q), q.guest) \cup New(f)
           /\ carts' = {c \in carts : c.id # q.guest} /\ rows' = rows + card /\ Done(r) /\ asked' = asked
           /\ twice' = IF q.user # q.guest /\ Gone(q) THEN twice \cup {g.unit : g \in q.seen} ELSE twice
           /\ q.user = q.guest \/ Mergeable(q)
    BY <1>2 DEF Merge
  <2>5. rows' \in Nat /\ rows <= rows' /\ \A g \in F : f[g] \in Nat /\ f[g] > rows /\ f[g] <= rows'
    <3> HIDE DEF F
    <3> QED BY <1>0, <2>3, <2>4
  <2>6. carts' \subseteq carts /\ twice \subseteq twice' /\ \A l \in lines : l.cart # q.guest => \E c \in carts' : c.id = l.cart
    BY <2>4 DEF CartInv, RowsSound
  <2>7. CASE q.user = q.guest \/ q.seen = {}
    <3>1. lines' = Without(lines, q.guest)
      <4>1. CASE q.user = q.guest
        BY <2>4, <4>1
      <4>2. CASE q.user # q.guest /\ q.seen = {}
        <5>1. F = {} /\ Common(q) = {}
          BY <4>2 DEF Fresh, Common
        <5>2. MergeItems(q) = lines /\ New(f) = {}
          BY <5>1 DEF MergeItems
        <5> QED BY <2>4, <4>2, <5>2
      <4> QED BY <2>7, <4>1, <4>2
    <3>2. lines' \subseteq lines /\ \A l \in lines' : l.cart # q.guest
      BY <3>1 DEF Without
    <3> QED BY <2>4, <2>5, <2>6, <3>2, DropInv
  <2>8. CASE q.user # q.guest /\ q.seen # {}
    <3>1. Mergeable(q) /\ CartRow(q.user, "user") \in carts /\ CartRow(q.user, "user").id = q.user
      BY <1>0, <2>1, <2>2, <2>4, <2>8, MergeTarget DEF CartRow
    <3>2. ~Gone(q) =>
              /\ CartRow(q.guest, "guest") \in carts
              /\ \A c \in carts : c = CartRow(q.guest, "guest") \/ c = CartRow(q.user, "user")
      BY <1>0, <2>8, <3>1, MergeSource
    <3>3. Gone(q) => twice' = twice \cup {g.unit : g \in q.seen}
      BY <2>4, <2>8
    <3> DEFINE Merged(l, k) == k \in LineRows /\ k.id = l.id /\ k.cart = l.cart /\ k.unit = l.unit /\ (k.unit \notin twice' => k.qty <= asked[k.unit])
               h(l) == IF \E pair \in Common(q) : pair[1].id = l.id
                       THEN LET pair == CHOOSE pair \in Common(q) : pair[1].id = l.id IN [l EXCEPT !.qty = pair[1].qty + pair[2].qty]
                       ELSE l
    <3>4. ASSUME NEW l \in lines PROVE Merged(l, h(l)) /\ (Gone(q) /\ l.unit \notin twice' => h(l) = l)
      <4>1. l \in LineRows /\ (l.unit \notin twice' => l.qty <= asked[l.unit])
        BY <1>0, <2>6 DEF CartInv, AmountsSound
      <4>2. CASE \E pair \in Common(q) : pair[1].id = l.id
        <5>1. PICK pair \in Common(q) : pair[1].id = l.id /\ h(l) = [l EXCEPT !.qty = pair[1].qty + pair[2].qty]
          BY <4>2
        <5>2. pair[1] \in q.own /\ pair[2] \in q.seen /\ pair[1].unit = pair[2].unit
          BY <5>1 DEF Common
        <5>3. pair[1] \in LineRows /\ pair[2] \in LineRows /\ pair[1] \in Remembered /\ pair[2] \in Remembered
          BY <2>2, <5>2
        <5>4. pair[1].unit = l.unit /\ pair[1].id # pair[2].id /\ pair[2].cart = q.guest
          <6>1. pair[1].cart = q.user /\ pair[2].cart = q.guest
            BY <1>0, <2>1, <5>2 DEF SignInReads
          <6>2. pair[1].id = pair[2].id => pair[1].cart = pair[2].cart
            BY <5>3 DEF CartInv, AmountsSound
          <6>3. pair[1].unit = l.unit
            BY <5>1, <5>3 DEF CartInv, AmountsSound
          <6> QED BY <2>8, <6>1, <6>2, <6>3
        <5>5. Gone(q) => l.unit \in twice'
          BY <3>3, <5>2, <5>4
        <5>6. ~Gone(q) /\ l.unit \notin twice' => pair[1].qty + pair[2].qty <= asked[l.unit]
          <6>1. pair[1] \in Known
            BY <5>1, <5>3 DEF Known, Alive
          <6>2. ~Gone(q) => pair[2] \in Known
            BY <2>2, <3>2, <5>2, <5>3, <5>4 DEF Known, Waiting
          <6> QED BY <2>6, <5>2, <5>4, <6>1, <6>2 DEF CartInv, AmountsSound
        <5>7. pair[1].qty + pair[2].qty \in Nat
          BY <5>3 DEF LineRows
        <5> HIDE DEF h
        <5>8. h(l) \in LineRows /\ h(l).id = l.id /\ h(l).cart = l.cart /\ h(l).unit = l.unit /\ h(l).qty = pair[1].qty + pair[2].qty
          BY <4>1, <5>1, <5>7 DEF LineRows
        <5> QED BY <5>5, <5>6, <5>8
      <4>3. CASE ~ \E pair \in Common(q) : pair[1].id = l.id
        <5>1. h(l) = l
          BY <4>3
        <5> HIDE DEF h
        <5> QED BY <4>1, <5>1
      <4> QED BY <4>2, <4>3
    <3>5. MergeItems(q) = {h(l) : l \in lines}
      BY DEF MergeItems
    <3> HIDE DEF h
    <3>6. ASSUME NEW k \in lines'
          PROVE  \/ \E l \in lines : k = h(l) /\ l.cart # q.guest
                 \/ \E g \in F : k = Line(f[g], q.user, g.unit, g.qty)
      <4>1. CASE k \in New(f)
        BY <4>1
      <4>2. CASE k \in Without(MergeItems(q), q.guest)
        <5>1. PICK l \in lines : k = h(l)
          BY <3>5, <4>2 DEF Without
        <5>2. k.cart = l.cart /\ k.cart # q.guest
          BY <3>4, <4>2, <5>1 DEF Without
        <5> QED BY <5>1, <5>2
      <4> QED BY <2>4, <2>8, <4>1, <4>2
    <3>7. ASSUME NEW g \in F
          PROVE  LET k == Line(f[g], q.user, g.unit, g.qty) IN
                 /\ k \in LineRows /\ k.id = f[g] /\ k.cart = q.user /\ k.unit = g.unit
                 /\ k.unit \notin twice' => k.qty <= asked[k.unit]
                 /\ Gone(q) => k.unit \in twice'
      <4>1. g \in LineRows /\ g \in Remembered /\ g \in q.seen /\ (g.unit \notin twice' => g.qty <= asked[g.unit])
        BY <2>2, <2>3, <2>6 DEF CartInv, AmountsSound
      <4> QED BY <2>2, <2>5, <3>3, <4>1 DEF Line, LineRows
    <3>8. ASSUME NEW k \in lines'
          PROVE  /\ k \in LineRows /\ k.id <= rows' /\ (k.unit \notin twice' => k.qty <= asked[k.unit])
                 /\ \E c \in carts' : c.id = k.cart
                 /\ Gone(q) /\ k.unit \notin twice' => k \in lines
      <4>1. CASE \E l \in lines : k = h(l) /\ l.cart # q.guest
        <5>1. PICK l \in lines : k = h(l) /\ l.cart # q.guest
          BY <4>1
        <5>2. Merged(l, k) /\ l.id <= rows /\ l.id \in Nat
          BY <1>0, <3>4, <5>1 DEF CartInv, AmountsSound, LineRows
        <5>3. k.id <= rows'
          BY <1>0, <2>5, <5>2
        <5> QED BY <2>6, <3>4, <5>1, <5>2, <5>3
      <4>2. CASE \E g \in F : k = Line(f[g], q.user, g.unit, g.qty)
        <5>1. PICK g \in F : k = Line(f[g], q.user, g.unit, g.qty)
          BY <4>2
        <5>2. \E c \in carts' : c.id = q.user
          BY <2>4, <2>8, <3>1
        <5> QED BY <2>5, <3>7, <5>1, <5>2
      <4> QED BY <3>6, <4>1, <4>2
    <3>9. \A g \in F, l \in lines : l.cart = q.user => l.unit # g.unit
      BY <3>1 DEF Mergeable, LineFree, Of
    <3>10. \A l \in lines : l.id \in Nat /\ l.id <= rows
      BY <1>0 DEF CartInv, AmountsSound, LineRows
    <3>11. ASSUME NEW k \in lines', NEW m \in lines', (k.cart = m.cart /\ k.unit = m.unit) \/ k.id = m.id PROVE k = m
      <4>1. CASE (\E l \in lines : k = h(l)) /\ (\E l \in lines : m = h(l))
        <5>1. PICK a \in lines : k = h(a)
          BY <4>1
        <5>2. PICK b \in lines : m = h(b)
          BY <4>1
        <5>3. Merged(a, k) /\ Merged(b, m)
          BY <3>4, <5>1, <5>2
        <5>4. a = b
          BY <3>11, <5>3 DEF CartInv, RowsSound
        <5> QED BY <5>1, <5>2, <5>4
      <4>2. ASSUME NEW x, NEW y, (x.cart = y.cart /\ x.unit = y.unit) \/ x.id = y.id, NEW l \in lines, x = h(l),
                   NEW g \in F, y = Line(f[g], q.user, g.unit, g.qty)
            PROVE  FALSE
        <5>1. x.id = l.id /\ x.unit = l.unit /\ x.cart = l.cart /\ y.id = f[g] /\ y.unit = g.unit /\ y.cart = q.user
          BY <3>4, <3>7, <4>2
        <5>2. (l.cart = q.user => l.unit # g.unit) /\ l.id # f[g]
          BY <1>0, <2>5, <3>9, <3>10
        <5> QED BY <4>2, <5>1, <5>2
      <4>3. CASE (\E g \in F : k = Line(f[g], q.user, g.unit, g.qty)) /\ (\E g \in F : m = Line(f[g], q.user, g.unit, g.qty))
        <5>1. PICK a \in F : k = Line(f[a], q.user, a.unit, a.qty)
          BY <4>3
        <5>2. PICK b \in F : m = Line(f[b], q.user, b.unit, b.qty)
          BY <4>3
        <5>3. k.id = f[a] /\ k.unit = a.unit /\ m.id = f[b] /\ m.unit = b.unit
          BY <3>7, <5>1, <5>2
        <5>4. a = b
          BY <2>1, <2>3, <2>4, <3>11, <5>3 DEF SignInReads
        <5> QED BY <5>1, <5>2, <5>4
      <4> QED BY <3>6, <3>11, <4>1, <4>2, <4>3
    <3>12. request' \in [Requests -> CartRequests] /\ Remembered' \subseteq Remembered /\ GuestLines' \subseteq GuestLines
      BY <2>4, RequestEnds DEF CartInv
    <3>13. ASSUME NEW m \in Remembered' PROVE m \in Remembered /\ m.id \in Nat /\ m.id <= rows
      <4>1. m \in Remembered /\ Remembered \subseteq LineRows
        BY <3>12, ReadsAreLines DEF CartInv, CartType, Remembered
      <4> QED BY <4>1 DEF CartInv, AmountsSound, LineRows
    <3>14. ASSUME NEW k \in lines', NEW m \in Remembered', k.id = m.id PROVE k.cart = m.cart /\ k.unit = m.unit
      <4>1. CASE \E l \in lines : k = h(l)
        <5>1. PICK l \in lines : k = h(l)
          BY <4>1
        <5>2. Merged(l, k)
          BY <3>4, <5>1
        <5> QED BY <3>13, <3>14, <5>2 DEF CartInv, AmountsSound
      <4>2. CASE \E g \in F : k = Line(f[g], q.user, g.unit, g.qty)
        <5>1. PICK g \in F : k.id = f[g]
          BY <3>7, <4>2
        <5>2. m.id \in Nat /\ m.id <= rows /\ f[g] \in Nat /\ f[g] > rows /\ m.id = f[g]
          BY <2>5, <3>13, <3>14, <5>1
        <5> QED BY <1>0, <5>2
      <4> QED BY <3>6, <4>1, <4>2
    <3> HIDE DEF q, F, New
    <3>15. CartType'
      <4>1. carts' \subseteq [id : Nat, owner : Owners] /\ lines' \subseteq LineRows
        BY <1>0, <2>6, <3>8
      <4> QED BY <1>0, <2>4, <2>5, <3>12, <4>1 DEF CartType
    <3>16. RowsSound'
      <4>1. \A c \in carts' : c.id <= rows'
        <5>1. \A c \in carts' : c.id \in Nat /\ c.id <= rows
          BY <1>0, <2>6 DEF CartInv, RowsSound
        <5> QED BY <1>0, <2>5, <5>1
      <4>2. \A c, d \in carts' : c.owner = d.owner \/ c.id = d.id => c = d
        BY <2>6 DEF CartInv, RowsSound
      <4> QED BY <3>8, <3>11, <4>1, <4>2 DEF RowsSound
    <3>17. \A m \in lines' \cup Remembered' : m.id <= rows' /\ (m.unit \notin twice' => m.qty <= asked'[m.unit])
      <4> SUFFICES ASSUME NEW m \in lines' \cup Remembered' PROVE m.id <= rows' /\ (m.unit \notin twice' => m.qty <= asked'[m.unit])
        OBVIOUS
      <4>1. CASE m \in lines'
        BY <2>4, <3>8, <4>1
      <4>2. CASE m \in Remembered'
        <5>1. m.unit \notin twice' => m.qty <= asked[m.unit]
          BY <2>6, <3>13, <4>2 DEF CartInv, AmountsSound
        <5>2. m.id <= rows'
          BY <1>0, <2>5, <3>13, <4>2
        <5> QED BY <2>4, <5>1, <5>2
      <4> QED BY <4>1, <4>2
    <3>18. \A l, m \in lines' \cup Remembered' : l.id = m.id => l.cart = m.cart /\ l.unit = m.unit
      <4>1. \A l, m \in Remembered' : l.id = m.id => l.cart = m.cart /\ l.unit = m.unit
        BY <3>12 DEF CartInv, AmountsSound
      <4> QED BY <3>11, <3>14, <4>1
    <3>19. ASSUME NEW l \in Known', NEW m \in Known', l.id # m.id, l.unit = m.unit, l.unit \notin twice' PROVE l.qty + m.qty <= asked'[l.unit]
      <4>1. CASE Gone(q)
        <5>1. ASSUME NEW x \in Known', x.unit \notin twice' PROVE x \in Known
          <6>1. x \in lines' \cup Remembered' /\ ((\E k \in lines' : k.id = x.id) \/ Waiting(x)')
            BY DEF Known, Alive
          <6>2. Waiting(x)' => Waiting(x)
            BY <2>6, <3>12, WaitingStays
          <6>3. x \in lines' => x \in lines
            BY <3>8, <4>1, <5>1
          <6>4. (\E k \in lines' : k.id = x.id) => Alive(x)
            <7> SUFFICES ASSUME NEW k \in lines', k.id = x.id PROVE Alive(x)
              OBVIOUS
            <7>1. k.unit = x.unit
              BY <3>18, <6>1
            <7> QED BY <3>8, <4>1, <5>1, <7>1 DEF Alive
          <6> QED BY <3>12, <6>1, <6>2, <6>3, <6>4 DEF Known
        <5>2. l \in Known /\ m \in Known
          BY <3>19, <5>1
        <5> QED BY <2>4, <2>6, <3>19, <5>2 DEF CartInv, AmountsSound
      <4>2. CASE ~Gone(q)
        <5>1. carts' = {CartRow(q.user, "user")}
          <6>1. CartRow(q.guest, "guest").id = q.guest
            BY DEF CartRow
          <6> QED BY <2>4, <2>8, <3>1, <3>2, <4>2, <6>1
        <5>2. ASSUME NEW x \in Known' PROVE \E k \in lines' : k.id = x.id
          <6>1. ~Waiting(x)'
            BY <5>1 DEF Waiting, CartRow
          <6> QED BY <6>1 DEF Known, Alive
        <5>3. PICK a \in lines' : a.id = l.id
          BY <5>2
        <5>4. PICK b \in lines' : b.id = m.id
          BY <5>2
        <5>5. a.unit = l.unit /\ b.unit = m.unit
          BY <3>18, <5>3, <5>4 DEF Known
        <5>6. a.cart = b.cart
          BY <3>8, <5>1
        <5> QED BY <3>11, <3>19, <5>3, <5>4, <5>5, <5>6
      <4> QED BY <4>1, <4>2
    <3>20. AmountsSound'
      BY <3>17, <3>18, <3>19 DEF AmountsSound
    <3>21. SignInSound'
      BY <1>0, <2>4, <2>5, <2>6, SignInsStay
    <3> QED BY <3>15, <3>16, <3>20, <3>21 DEF CartInv
  <2> QED BY <2>7, <2>8
<1> QED BY <1>1, <1>2

\* Every step keeps the invariant.
LEMMA CartStep ==
    ASSUME CartInv, [CartNext]_cartVars PROVE CartInv'
<1>1. ASSUME NEW r \in Requests, AddItem(r) PROVE CartInv'
  BY <1>1, AddMoreInv, AddLineInv DEF AddItem
<1>2. CASE CartEndpoints
  BY <1>1, <1>2, LoadInv, UpdateItemInv, RemoveItemsInv DEF CartEndpoints
<1>3. CASE SignIn
  BY <1>3, LoadGuestInv, LoadUserInv, ReassignInv, MergeInv DEF SignIn
<1>4. CASE UNCHANGED cartVars
  <2>1. UNCHANGED <<carts, lines, request, rows, asked, twice>>
    BY <1>4 DEF cartVars
  <2>2. Remembered' = Remembered /\ SigningIn' = SigningIn /\ GuestLines' = GuestLines
    BY <2>1 DEF Remembered, Reads, SigningIn, GuestLines
  <2>3. Known' = Known
    BY <2>1, <2>2 DEF Known, Alive, Waiting, CartRow
  <2> QED BY <2>1, <2>2, <2>3 DEF CartInv, CartType, RowsSound, AmountsSound, SignInSound, SignInReads
<1> QED BY <1>2, <1>3, <1>4 DEF CartNext

\* However many requests and sign-ins overlap, neither a merge nor an addition to a quantity read before is counted twice:
\* a cart has one line of a unit, and the carts hold no more pieces of a unit than the shopper asked for, save of the
\* units that two overlapping sign-ins merged from one guest cart (cart_service.py).
THEOREM NothingTwice ==
    /\ CartSpec => []CountedOnce
    /\ Spec => []Cart_CountedOnce
<1> DEFINE I == part = "cart" => CartInv
<1>1. CartInv => CountedOnce
  BY CartSafe
<1>2. Init => I
  BY CartInitInv DEF Init
<1>3. I /\ [Next]_vars => I'
  BY PartStep, CartStep
<1>4. I => Cart_CountedOnce
  BY <1>1 DEF Cart_CountedOnce
<1>5. CartInv /\ [CartNext]_cartVars => CartInv'
  BY CartStep
<1>6. CartSpec => []CountedOnce
  BY <1>1, <1>5, CartInitInv, PTL DEF CartSpec
<1>7. Spec => []Cart_CountedOnce
  <2> HIDE DEF I
  <2> QED BY <1>2, <1>3, <1>4, PTL DEF Spec
<1> QED BY <1>6, <1>7
=============================================================================
