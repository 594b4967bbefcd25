------------------------------ MODULE Pricing ------------------------------
(***************************************************************************)
(* What an order costs: discount arithmetic, shipping, the GST arithmetic, *)
(* the quote of a cart and the amounts a checkout freezes in the order,    *)
(* and the coupon an administrator edits meanwhile.                        *)
(*                                                                         *)
(* Amounts are whole minor units and rates are in tenths of a percent. A   *)
(* checkout and every edit of the coupon hold the lock of the coupon row,  *)
(* so each is one step.                                                    *)
(***************************************************************************)
EXTENDS Common, Integers, Sequences, FiniteSets, Functions

CONSTANTS
    Baskets,  \* carts: the value of each line (price times quantity)
    RateOf,   \* the rate of each line; 0 for one that is not taxable
    Shops,    \* configurations of shipping and tax
    Terms,    \* what an administrator may ask a coupon to give: [kind, percent, amount, cap]
    Minimums, \* minimum subtotals of a coupon
    MaxOrders \* bound: orders

VARIABLES
    basket, \* the values of the cart's lines
    shop,   \* the configuration in force
    coupon, \* the coupon row, None when there is none
    quoted, \* the last quote
    charged \* the amounts of the orders made

\* The values of a cart's lines are not below zero and each has a rate.
ASSUME BasketsAssumption == Baskets \subseteq Seq(Nat) /\ \A b \in Baskets : \A i \in DOMAIN b : RateOf[i] \in Nat

\* Shipping, its threshold and the rates are not below zero; shipping may not be configured.
ASSUME ShopsAssumption == Shops \subseteq
    [mode : {"exclusive", "inclusive", "flat"}, rounding : {"line", "invoice"}, shippingTaxed : BOOLEAN, intra : BOOLEAN,
     flat : Nat \cup {None}, threshold : Nat, flatRate : Nat]

\* A coupon is of one of three kinds, and what it gives is not below zero.
ASSUME TermsAssumption == Terms \subseteq
    [kind : {"percentage", "fixed", "free_shipping"}, percent : Nat \cup {None}, amount : Nat \cup {None}, cap : Nat \cup {None}]

\* NULL is not a row.
ASSUME NoCouponIsNone ==
    None \notin [terms : Terms, minimum : Minimums, limit : {1, None}, active : BOOLEAN, running : BOOLEAN]

pricingVars == <<basket, shop, coupon, quoted, charged>>

Total(f) == SumFunction(f)
AtMost(a, b) == IF a <= b THEN a ELSE b

\* half_up: n / d rounded to the nearest, a half upwards.
HalfUp(n, d) == (2 * n + d) \div (2 * d)

-----------------------------------------------------------------------------
(* The shares of a total: _allocate, by largest remainder.                 *)

\* Mutant: what is left over goes to nobody.
AllocateFloor(total, weights) ==
    LET sum == Total(weights) IN
    [i \in DOMAIN weights |-> IF sum = 0 THEN 0 ELSE (total * weights[i]) \div sum]

Allocate(total, weights) ==
    LET sum == Total(weights)
        part(i) == (total * weights[i]) \div sum
        rest(i) == (total * weights[i]) % sum
        leftover == total - Total([i \in DOMAIN weights |-> part(i)])
        ahead(i) == {j \in DOMAIN weights : rest(j) > rest(i) \/ (rest(j) = rest(i) /\ j < i)}
    IN [i \in DOMAIN weights |->
          IF total = 0 \/ sum = 0 THEN 0
          ELSE part(i) + (IF Cardinality(ahead(i)) < leftover THEN 1 ELSE 0)]

\* share_discount
ShareDiscount(discount, values) == Allocate(discount, values)

-----------------------------------------------------------------------------
(* gst_calc.py                                                             *)

\* _rates: central and state tax within the state, integrated tax across.
Rates(cfg, i) == IF cfg.intra THEN <<RateOf[i] \div 2, RateOf[i] \div 2, 0>> ELSE <<0, 0, RateOf[i]>>

\* _slab_tax: the taxable value and the three taxes of one value.
SlabTax(cfg, value, rates) ==
    LET all == rates[1] + rates[2] + rates[3]
        taxable == IF cfg.mode = "exclusive" THEN value ELSE HalfUp(value * 1000, 1000 + all)
        tax(k) == HalfUp(taxable * rates[k], 1000)
    IN <<taxable, tax(1), tax(2), tax(3)>>

\* The lines taxed at the rates of line i.
Slab(cfg, i, gross) == {j \in DOMAIN gross : Rates(cfg, j) = Rates(cfg, i)}

\* The parts of line i: rounded for itself, or for all the lines of its rates and then shared.
LineTax(cfg, i, gross) ==
    LET members == Restrict(gross, Slab(cfg, i, gross))
        whole == SlabTax(cfg, Total(members), Rates(cfg, i))
    IN IF cfg.rounding = "line" THEN SlabTax(cfg, gross[i], Rates(cfg, i))
       ELSE [k \in 1 .. 4 |-> Allocate(whole[k], members)[i]]

TaxOf(line) == line[2] + line[3] + line[4]

\* calculate. values: the lines after their discount.
Calculate(cfg, values, shipping) ==
    LET taxed == cfg.shippingTaxed /\ shipping # 0
        shipped == IF taxed THEN Allocate(shipping, values) ELSE [i \in DOMAIN values |-> 0]
        gross == [i \in DOMAIN values |-> values[i] + shipped[i]]
        lines == [i \in DOMAIN values |-> LineTax(cfg, i, gross)]
        taxes == Total([i \in DOMAIN values |-> TaxOf(lines[i])])
    IN [gross |-> gross, lines |-> lines,
        roundOff |-> IF cfg.mode = "exclusive" THEN 0
                     ELSE Total([i \in DOMAIN values |-> gross[i] - lines[i][1] - TaxOf(lines[i])]),
        untaxed |-> IF taxed THEN 0 ELSE shipping,
        added |-> IF cfg.mode = "exclusive" THEN taxes ELSE 0]

\* FlatInterimTaxEngine.calculate: one rate on the goods, no lines.
FlatTax(cfg, net, shipping) ==
    [gross |-> <<net>>, lines |-> << >>, roundOff |-> 0, untaxed |-> shipping, added |-> HalfUp(net * cfg.flatRate, 1000)]

\* _calculate_tax
CalculateTax(cfg, values, shipping) ==
    IF cfg.mode = "flat" THEN FlatTax(cfg, Total(values), shipping) ELSE Calculate(cfg, values, shipping)

-----------------------------------------------------------------------------
(* Coupons                                                                 *)

NoCoupon == [kind |-> "none"]

\* ALIVE, uses: a cancelled or refunded order gives its use back.
Uses == Cardinality({o \in DOMAIN charged : charged[o].alive /\ charged[o].terms # NoCoupon})

\* _ever_used
EverUsed == \E o \in DOMAIN charged : charged[o].terms # NoCoupon

\* compute_discount
ComputeDiscount(terms, subtotal, shipping) ==
    CASE terms.kind = "percentage"    -> LET raw == HalfUp(subtotal * terms.percent, 100)
                                             capped == IF terms.cap = None THEN raw ELSE AtMost(raw, terms.cap)
                                         IN [goods |-> AtMost(capped, subtotal), shipping |-> 0]
      [] terms.kind = "fixed"         -> [goods |-> AtMost(terms.amount, subtotal), shipping |-> 0]
      [] terms.kind = "free_shipping" -> [goods |-> 0, shipping |-> shipping]

\* evaluate: the coupon exists, is on and in its dates, its minimum is met, it has a use left, and it takes something off.
Applies(subtotal, shipping) ==
    /\ coupon # None
    /\ coupon.active /\ coupon.running
    /\ subtotal >= coupon.minimum
    /\ coupon.limit # None => Uses < coupon.limit
    /\ LET d == ComputeDiscount(coupon.terms, subtotal, shipping) IN d.goods + d.shipping > 0

-----------------------------------------------------------------------------
(* The amounts of an order.                                                *)

\* _calculate_shipping: flat, waived from the threshold on. A threshold of 0 is none.
Shipping(cfg, paid) == IF cfg.threshold # 0 /\ paid >= cfg.threshold THEN 0 ELSE cfg.flat

\* Net value of each line.
Net(values, shares) == [i \in DOMAIN values |-> values[i] - shares[i]]

NoShares(values) == [i \in DOMAIN values |-> 0]

\* What the terms of a coupon, if any, take off.
DiscountOf(cfg, values, terms) ==
    IF terms = NoCoupon THEN [goods |-> 0, shipping |-> 0]
    ELSE ComputeDiscount(terms, Total(values), Shipping(cfg, Total(values)))

\* The discount of each line.
SharesOf(values, goods) == IF goods # 0 THEN ShareDiscount(goods, values) ELSE NoShares(values)

\* checkout, after the lines are checked: discount, then shipping on what is paid for the goods, then tax.
Charge(cfg, values, terms) ==
    LET subtotal == Total(values)
        goods == DiscountOf(cfg, values, terms).goods
        shipping == IF terms = NoCoupon THEN Shipping(cfg, subtotal)
                    ELSE IF goods # 0 THEN Shipping(cfg, subtotal - goods) ELSE 0
        shares == SharesOf(values, goods)
        tax == CalculateTax(cfg, Net(values, shares), shipping)
    IN [terms |-> terms, values |-> values, shares |-> shares, discount |-> goods,
        shipping |-> shipping, tax |-> tax, total |-> subtotal - goods + shipping + tax.added, alive |-> TRUE]

\* quote: the threshold counts what is paid for the goods.
QuoteShipping(cfg, subtotal, goods) == Shipping(cfg, subtotal - goods)

\* quote, for a delivery address that is known.
QuoteTotal(cfg, values, terms) ==
    LET subtotal == Total(values)
        goods == DiscountOf(cfg, values, terms).goods
        shipping == IF terms # NoCoupon /\ goods = 0 THEN 0 ELSE QuoteShipping(cfg, subtotal, goods)
    IN subtotal - goods + shipping + CalculateTax(cfg, Net(values, SharesOf(values, goods)), shipping).added

\* _assert_pricing_configured
Configured == shop.flat # None

PricingInit ==
    /\ basket \in Baskets
    /\ shop \in Shops
    /\ coupon = None /\ quoted = None /\ charged = << >>

-----------------------------------------------------------------------------
\* A coupon is asked for, or not, and then it has to apply.
AskedFor(use) == use => Applies(Total(basket), Shipping(shop, Total(basket)))

\* The terms an amount rests on.
TermsOf(use) == IF use THEN coupon.terms ELSE NoCoupon

Quote(use) ==
    /\ Configured /\ AskedFor(use)
    /\ quoted' = [terms |-> TermsOf(use), total |-> QuoteTotal(shop, basket, TermsOf(use))]
    /\ UNCHANGED <<basket, shop, coupon, charged>>

CheckoutAmounts(use) ==
    /\ Len(charged) < MaxOrders
    /\ Configured /\ AskedFor(use)
    /\ charged' = Append(charged, Charge(shop, basket, TermsOf(use)))
    /\ UNCHANGED <<basket, shop, coupon, quoted>>

\* An order is cancelled, expires or is refunded.
EndOrder(o) ==
    /\ charged[o].alive
    /\ charged' = [charged EXCEPT ![o].alive = FALSE]
    /\ UNCHANGED <<basket, shop, coupon, quoted>>

SetCoupon(row) ==
    /\ coupon' = row
    /\ UNCHANGED <<basket, shop, quoted, charged>>

\* validate_value_fields: each kind carries the fields it needs and no others.
ValidTerms(terms) ==
    CASE terms.kind = "percentage"    -> terms.percent # None /\ terms.percent \in 1 .. 100 /\ terms.amount = None
      [] terms.kind = "fixed"         -> terms.amount # None /\ terms.percent = None /\ terms.cap = None
      [] terms.kind = "free_shipping" -> {terms.percent, terms.amount, terms.cap} = {None}

CreateCoupon(terms, minimum, limit) ==
    /\ coupon = None /\ ValidTerms(terms)
    /\ SetCoupon([terms |-> terms, minimum |-> minimum, limit |-> limit, active |-> TRUE, running |-> TRUE])

\* update: what the coupon gives only while no order has used it, the rest at any time.
UpdateTerms(terms) ==
    /\ coupon # None /\ terms # coupon.terms
    /\ ~EverUsed /\ ValidTerms(terms)
    /\ SetCoupon([coupon EXCEPT !.terms = terms])

UpdateRules(minimum, limit, active) ==
    /\ coupon # None
    /\ SetCoupon([coupon EXCEPT !.minimum = minimum, !.limit = limit, !.active = active])

\* The dates of the coupon begin or end, or are changed.
CouponPeriod ==
    /\ coupon # None
    /\ SetCoupon([coupon EXCEPT !.running = ~@])

DeleteCoupon ==
    /\ coupon # None /\ ~EverUsed
    /\ SetCoupon(None)

CouponEndpoints ==
    \/ \E terms \in Terms, minimum \in Minimums, limit \in {1, None} : CreateCoupon(terms, minimum, limit)
    \/ \E terms \in Terms : UpdateTerms(terms)
    \/ \E minimum \in Minimums, limit \in {1, None}, active \in BOOLEAN : UpdateRules(minimum, limit, active)
    \/ DeleteCoupon

PricingNext ==
    \/ \E use \in BOOLEAN : Quote(use) \/ CheckoutAmounts(use)
    \/ \E o \in DOMAIN charged : EndOrder(o)
    \/ CouponPeriod
    \/ CouponEndpoints

PricingSpec == PricingInit /\ [][PricingNext]_pricingVars

-----------------------------------------------------------------------------
\* The invoice of an order accounts for what the customer pays: its lines, the shipping that is not on a line and the
\* tax that is added.
Accounted(o) == o.total = Total(o.tax.gross) + o.tax.untaxed + o.tax.added

\* The shares of a discount add up to it and none exceeds its line, the lines of the invoice add up to what is paid, with
\* the tax included in the prices taxable value, tax and round-off make up the gross value, and what is rounded once for
\* all the lines of a rate is spread over them without rest.
AddsUp(cfg, o) ==
    /\ Total(o.shares) = o.discount
    /\ \A i \in DOMAIN o.values : 0 <= o.shares[i] /\ o.shares[i] <= o.values[i]
    /\ Total(o.values) > o.discount => Accounted(o)
    /\ cfg.mode = "inclusive" =>
          Total(o.tax.gross) = o.tax.roundOff + Total([i \in DOMAIN o.tax.lines |-> o.tax.lines[i][1] + TaxOf(o.tax.lines[i])])
    /\ cfg.rounding = "invoice" =>
          \A i \in DOMAIN o.tax.lines : LET slab == Slab(cfg, i, o.tax.gross) IN \A k \in 1 .. 4 :
              Total([j \in slab |-> o.tax.lines[j][k]]) = SlabTax(cfg, Total(Restrict(o.tax.gross, slab)), Rates(cfg, i))[k]

\* Nothing is lost or invented by rounding (gst_calc.py, discount.py).
AmountsAddUp == \A n \in DOMAIN charged : AddsUp(shop, charged[n])

\* What a used coupon gives does not change under the orders that carry it, whatever became of them (coupon_service.py,
\* CouponUpdate): the coupon of an order is still there, with the terms the order recorded.
UsedTermsKept ==
    \A o \in DOMAIN charged : charged[o].terms # NoCoupon => coupon # None /\ coupon.terms = charged[o].terms

\* What was quoted is what checkout charges for the same cart under the same coupon terms (order_service.py, quote).
QuoteIsCharged ==
    quoted # None => \A o \in DOMAIN charged : charged[o].terms = quoted.terms => charged[o].total = quoted.total

\* The amounts of an order are right: they add up, they are those quoted, and the coupon they rest on is kept as it was
\* (discount.py, gst_calc.py, order_service.py, coupon_service.py).
AmountsAreRight == AmountsAddUp /\ QuoteIsCharged /\ UsedTermsKept
=============================================================================
