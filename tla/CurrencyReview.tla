--------------------------- MODULE CurrencyReview ---------------------------
(***************************************************************************)
(* Orders placed before currencies were recorded: an administrator         *)
(* establishes the currency from evidence, or records that the evidence    *)
(* does not settle it (app/modules/orders/services/                        *)
(* currency_remediation.py).                                               *)
(*                                                                         *)
(* A review locks its order from its first read to its commit.  Until it   *)
(* is established nothing can be paid or refunded on the order; payments   *)
(* recorded before are immutable and may even disagree with each other.    *)
(***************************************************************************)
EXTENDS Common, Naturals, Sequences

CONSTANTS
    Orders,    \* the orders without a currency
    Reviewers, \* requests in flight
    CurrencyCodes,
    MaxReviews \* bound: reviews recorded of one order

ASSUME CurrencyCodesAssumption == None \notin CurrencyCodes

Evidence == {"provider_record", "accounting_record", "store_history_reviewed"}

VARIABLES
    currency,      \* orders.currency, None until established
    paid,          \* the currencies of the order's payments
    reviews,       \* the rows of order_currency_remediations of each order, oldest first
    review,        \* what each request is doing
    storeCurrency, \* the store's configured currency
    changed        \* the audit log holds a change of it (possible before it became fixed)

currencyReviewVars == <<currency, paid, reviews, review, storeCurrency, changed>>

NotReviewing == [order |-> None]

\* A recorded review; a currency goes with an established one only.
Remediation(decision, code, evidence) == [decision |-> decision, currency |-> code, evidence |-> evidence]

CurrencyReviewInit ==
    /\ currency = [o \in Orders |-> None]
    /\ paid \in [Orders -> SUBSET CurrencyCodes]
    /\ reviews = [o \in Orders |-> <<>>]
    /\ review = [r \in Reviewers |-> NotReviewing]
    /\ storeCurrency \in CurrencyCodes \cup {None} /\ changed \in BOOLEAN

\* Mutant: the order is read without FOR UPDATE.
OrderFreeAlways(o) == TRUE

\* get_by_id_for_update
OrderFree(o) == \A r \in Reviewers : review[r].order # o

\* The request: what it decides and what it cites.
Request == [decision : {"established"}, code : CurrencyCodes, evidence : Evidence,
            cites : {"order", "payment", "nothing"}, attested : BOOLEAN]
           \cup [decision : {"unresolved_conflicting", "unresolved_inconclusive"}, evidence : Evidence]

\* review: the order is locked; it must not have a currency.
StartReview(r, o) ==
    /\ review[r] = NotReviewing /\ OrderFree(o)
    /\ currency[o] = None /\ Len(reviews[o]) < MaxReviews
    /\ review' = [review EXCEPT ![r] = [order |-> o]]
    /\ UNCHANGED <<currency, paid, reviews, storeCurrency, changed>>

\* A provider record must cite one of the order's payments, an accounting record the order or a payment; store
\* history must be attested, agree with the store's currency and never have changed.
Specific(o, q) ==
    CASE q.evidence = "provider_record" -> paid[o] # {} /\ q.cites = "payment"
      [] q.evidence = "accounting_record" -> q.cites = "order" \/ (paid[o] # {} /\ q.cites = "payment")
      [] OTHER -> q.attested /\ storeCurrency = q.code /\ ~changed

\* _check: a payment in another currency conflicts; evidence that is not specific settles nothing.
Check(o, q) ==
    IF \E c \in paid[o] : c # q.code THEN "unresolved_conflicting"
    ELSE IF Specific(o, q) THEN "established"
    ELSE "unresolved_inconclusive"

\* One established review per order, by a partial unique index.
OneEstablished(o) == \A i \in 1 .. Len(reviews[o]) : reviews[o][i].decision # "established"

\* The rest of review: the outcome, a failed check's too, is recorded before the answer, and an established one sets
\* the order's currency in the same transaction.
FinishReview(r, q) ==
    LET o == review[r].order
        decision == IF q.decision = "established" THEN Check(o, q) ELSE q.decision
        code == IF decision = "established" THEN q.code ELSE None
    IN  /\ o # None
        /\ review' = [review EXCEPT ![r] = NotReviewing]
        /\ IF decision = "established" /\ ~OneEstablished(o)
           THEN UNCHANGED <<currency, reviews>>
           ELSE /\ reviews' = [reviews EXCEPT ![o] = Append(@, Remediation(decision, code, q.evidence))]
                /\ currency' = IF code = None THEN currency ELSE [currency EXCEPT ![o] = code]
        /\ UNCHANGED <<paid, storeCurrency, changed>>

\* report: orders without a currency, and those of them a review left for a human.
UnknownCurrency == {o \in Orders : currency[o] = None}
ManualReviewRequired(o) == o \in UnknownCurrency /\ \E i \in 1 .. Len(reviews[o]) : reviews[o][i].decision # "established"

\* A payment is started in the order's currency, which must be known.
StartPayment(o) ==
    /\ OrderFree(o) /\ o \notin UnknownCurrency
    /\ paid' = [paid EXCEPT ![o] = @ \cup {currency[o]}]
    /\ UNCHANGED <<currency, reviews, review, storeCurrency, changed>>

\* set_currency: once, and never "from" another.
SetStoreCurrency(code) ==
    /\ storeCurrency = None
    /\ storeCurrency' = code
    /\ UNCHANGED <<currency, paid, reviews, review, changed>>

CurrencyReviewNext ==
    \/ \E r \in Reviewers :
           \/ \E o \in Orders : StartReview(r, o)
           \/ \E q \in Request : FinishReview(r, q)
    \/ \E o \in Orders : StartPayment(o)
    \/ \E code \in CurrencyCodes : SetStoreCurrency(code)

CurrencyReviewSpec == CurrencyReviewInit /\ [][CurrencyReviewNext]_currencyReviewVars

-----------------------------------------------------------------------------
\* An order has a currency exactly when a review established it, that review closes its history (nobody leaves for
\* manual review what another reviewer has just settled), and no payment of the order, recorded before or after, is in
\* another currency (currency_remediation.py: "it is never forced through").
CurrencyIsEvidenced ==
    \A o \in Orders :
        LET established == {i \in 1 .. Len(reviews[o]) : reviews[o][i].decision = "established"}
        IN  IF currency[o] = None THEN established = {}
            ELSE /\ established = {Len(reviews[o])}
                 /\ reviews[o][Len(reviews[o])].currency = currency[o]
                 /\ paid[o] \subseteq {currency[o]}
=============================================================================
