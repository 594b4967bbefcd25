--------------------------- MODULE MCOperations -----------------------------
(***************************************************************************)
(* What the shop sells and ships, for TLC: products with their variants and*)
(* stock, what follows the payment of an order, cached lists, and the      *)
(* gateway adapters. Their models share no state, so a behaviour exercises *)
(* one of them.                                                            *)
(***************************************************************************)
EXTENDS Catalogue, Fulfilment, Cache, Gateways, TLC

CONSTANTS o1, o2, big, small, p1, p2, r1, r2, w1, st, rz, rz2, dm

VARIABLE part   \* the component exercised

\* Two orders that share the document series, or one that is returned.
Begins(buyer1, kind1, buyer2, kind2) ==
    (o1 :> [buyer |-> buyer1, kind |-> kind1]) @@ (o2 :> [buyer |-> buyer2, kind |-> kind2])
MCStarts == {Begins("guest", "gst", "guest", "gst"), Begins("guest", "demo", "guest", "plain"),
             Begins("registered", "gst", "cancelled", "plain")}

MCBought == (big :> 2) @@ (small :> 1)

\* Two processes, one of which only reads.
MCHome == (r1 :> p1) @@ (r2 :> p2) @@ (w1 :> p1)

\* Two configurations of one Razorpay account.
MCProvider == (st :> "stripe") @@ (rz :> "razorpay") @@ (rz2 :> "razorpay") @@ (dm :> "demo")
MCAccount == (st :> "s") @@ (rz :> "r") @@ (rz2 :> "r") @@ (dm :> "d")

vars == <<part, catalogueVars, fulfilmentVars, cacheVars, gatewaysVars>>

\* A component that is not exercised has no state.
NoCatalogue == product = None /\ values = None /\ variants = None /\ cart = None /\ orders = None /\
               edit = None /\ adding = None /\ supplied = None
NoFulfilment == order = None /\ parcels = None /\ recent = None /\ ret = None /\ restocked = None /\
                profile = None /\ year = None /\ last = None /\ doc = None /\ issuer = None /\ late = None /\
                shipped = None
NoCache == db = None /\ ver = None /\ top = None /\ entry = None /\ proc = None /\ rd = None /\ wr = None /\
           faults = None /\ announced = None /\ noted = None /\ finished = None /\ dropped = None
NoGateways == gateway = None /\ planned = None /\ heard = None /\ row = None /\ orderStatus = None /\
              paidBy = None /\ sent = None /\ claimed = None /\ deferred = None /\ flags = None /\
              reads = None /\ vouched = None

Init ==
    \/ part = "catalogue" /\ CatalogueInit /\ NoFulfilment /\ NoCache /\ NoGateways
    \/ part = "fulfilment" /\ FulfilmentInit /\ NoCatalogue /\ NoCache /\ NoGateways
    \/ part = "cache" /\ CacheInit /\ NoCatalogue /\ NoFulfilment /\ NoGateways
    \/ part = "gateways" /\ GatewaysInit /\ NoCatalogue /\ NoFulfilment /\ NoCache

Next ==
    /\ UNCHANGED part
    /\ \/ /\ part = "catalogue" /\ CatalogueNext
          /\ UNCHANGED <<fulfilmentVars, cacheVars, gatewaysVars>>
       \/ /\ part = "fulfilment" /\ FulfilmentNext
          /\ UNCHANGED <<catalogueVars, cacheVars, gatewaysVars>>
       \/ /\ part = "cache" /\ CacheNext
          /\ UNCHANGED <<catalogueVars, fulfilmentVars, gatewaysVars>>
       \/ /\ part = "gateways" /\ GatewaysNext
          /\ UNCHANGED <<catalogueVars, fulfilmentVars, cacheVars>>

Spec == Init /\ [][Next]_vars

\* Option values are interchangeable, and so are returns.
Symmetry == Permutations(Values) \cup Permutations(Returns)

-----------------------------------------------------------------------------
\* However the editing of a product interleaves with carts, orders and returns, no stock is lost or invented, every line
\* names a unit it is sold as, and its availability and price range are those of its variants.
Catalogue_CatalogueConsistent == part = "catalogue" => CatalogueConsistent

\* Document numbers have no gap and no repetition, and a refund of an invoiced order has its credit note.
Fulfilment_BooksComplete == part = "fulfilment" => BooksComplete

\* Nothing is returned that was not bought, put back twice, or refunded before it came back.
Fulfilment_GoodsAccounted == part = "fulfilment" => GoodsAccounted

\* A list that is served is as new as the writes its reader may rely on.
Cache_ServedIsFresh == part = "cache" => ServedIsFresh

\* Only money that came is credited, once, what was credited can be given back, and what the gateway gave back is on record.
Gateways_MoneyIsRight == part = "gateways" => MoneyIsRight
=============================================================================
