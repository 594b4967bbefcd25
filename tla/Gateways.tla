------------------------------ MODULE Gateways ------------------------------
(***************************************************************************)
(* The payment gateways behind one order: the Stripe, Razorpay and demo    *)
(* adapters (app/core/payments), the signed events they send and the way   *)
(* PaymentService verifies, claims, matches, applies and defers them.      *)
(*                                                                         *)
(* OrderPayment has the interleavings inside one webhook handler; here a   *)
(* handler is one step and the questions are those of the adapters: which  *)
(* event is which, which configuration vouches for it, which amount it     *)
(* carries and which reference a later refund needs.  The demo gateway     *)
(* pays inside the shop's own request, so that request has two steps.      *)
(***************************************************************************)
EXTENDS Common, FiniteSets, Naturals

CONSTANTS
  Intents,  \* the payment intents (Razorpay: orders) gateways may create
  Configs,  \* stored provider configurations
  Provider, \* Provider[c] \in {"stripe", "razorpay", "demo"}
  Account,  \* Account[c]: the gateway account its credentials belong to
  Payers,   \* requests of POST /payments/demo/pay
  Headers,  \* values of headers outside the signature, one per delivery
  MaxEvents \* bound: events of the gateways

\* NULL is neither an intent nor a configuration.
ASSUME IntentsAssumption == None \notin Intents \cup Configs

VARIABLES
  gateway,     \* gateway[i]: what the gateway remembers of intent i
  planned,     \* idempotency keys (attempt numbers) requests have planned
  heard,       \* intents whose creation was answered to the shop
  row,         \* row[i]: the payment recorded for intent i
  orderStatus, \* the order: "pending", "paid" or "cancelled"
  paidBy,      \* the intent whose payment made the order paid
  sent,        \* events signed by the gateways; each may be redelivered
  claimed,     \* identities in processed_webhook_events
  deferred,    \* verified events about a payment with no row yet
  flags,       \* reconciliation records, <<kind, intent>>
  reads,       \* reads[p]: the payment row a demo payer has read
  vouched      \* vouched[i]: the configuration whose event credited i

gatewaysVars == <<gateway, planned, heard, row, orderStatus, paidBy, sent, claimed, deferred, flags,
          reads, vouched>>

Recovered == "recovered"    \* in vouched: credited from a deferred event

NoIntent == [state |-> "none", cfg |-> None, key |-> None, received |-> None]
NoRow == [status |-> "none", reference |-> None]
Refs(i) == Provider[gateway[i].cfg] = "razorpay"

GatewaysInit ==
  /\ gateway = [i \in Intents |-> NoIntent]
  /\ planned = {}
  /\ heard = {}
  /\ row = [i \in Intents |-> NoRow]
  /\ orderStatus = "pending"
  /\ paidBy = None
  /\ sent = {}
  /\ claimed = {}
  /\ deferred = {}
  /\ flags = {}
  /\ reads = [p \in Payers |-> None]
  /\ vouched = [i \in Intents |-> None]

(***************************************************************************)
(* Creating and cancelling intents.  A request plans first: while the      *)
(* order has a payment that can go on it is continued, else the key of a   *)
(* new intent names the number of payments there are.  Stripe and the demo *)
(* gateway answer a key they know with the same intent, Razorpay creates   *)
(* another order.                                                          *)
(***************************************************************************)
Rows == {i \in Intents : row[i].status # "none"}
Reusable == {i \in Rows : row[i].status \in {"pending", "failed"}}

PlanPayment ==
  /\ orderStatus = "pending"
  /\ ~\E i \in Rows : row[i].status = "succeeded"
  /\ \A i \in Reusable : row[i].status = "failed" /\ gateway[i].state = "canceled"
  /\ planned' = planned \cup {Cardinality(Rows)}
  /\ UNCHANGED <<gateway, heard, row, orderStatus, paidBy, sent, claimed, deferred, flags, reads,
                 vouched>>

(* retrieve_payment_intent of a payment to be continued: open at the       *)
(* gateway makes it pending again, cancelled there makes it failed, and    *)
(* paid there refuses the request and leaves the rest to the webhook.      *)
Retrieved(i) ==
  CASE gateway[i].state = "open" -> "pending"
    [] gateway[i].state = "canceled" -> "failed"
    [] OTHER -> row[i].status

ReusePayment(i) ==
  /\ orderStatus = "pending"
  /\ i \in Reusable
  /\ row' = [row EXCEPT ![i].status = Retrieved(i)]
  /\ UNCHANGED <<gateway, planned, heard, orderStatus, paidBy, sent, claimed, deferred, flags,
                 reads, vouched>>

SupportsCancel(c) == Provider[c] # "razorpay"
Known(c, k) == {i \in Intents : gateway[i].cfg = c /\ gateway[i].key = k}

(* The next intent that has not been used. *)
NewIntent(i, c, k) ==
  /\ gateway[i] = NoIntent /\ i = CHOOSE j \in Intents : gateway[j] = NoIntent
  /\ gateway' = [gateway EXCEPT ![i] =
       [NoIntent EXCEPT !.state = "open", !.cfg = c, !.key = k]]

(* A Stripe call that times out may have worked.                           *)
StripeCreate(i, c, k) ==
  /\ Provider[c] = "stripe"
  /\ \/ /\ Known(c, k) = {}
        /\ NewIntent(i, c, k)
        /\ heard' \in {heard, heard \cup {i}}
     \/ /\ i \in Known(c, k)
        /\ heard' = heard \cup {i}
        /\ UNCHANGED gateway

RazorpayCreate(i, c, k) ==
  /\ Provider[c] = "razorpay"
  /\ NewIntent(i, c, k)
  /\ heard' \in {heard, heard \cup {i}}

(* The demo gateway is a table of the shop's own database: no lost answer. *)
DemoCreate(i, c, k) ==
  /\ Provider[c] = "demo"
  /\ \/ Known(c, k) = {} /\ NewIntent(i, c, k)
     \/ i \in Known(c, k) /\ UNCHANGED gateway
  /\ heard' = heard \cup {i}

CreatePaymentIntent(i, c, k) ==
  /\ k \in planned
  /\ StripeCreate(i, c, k) \/ RazorpayCreate(i, c, k) \/ DemoCreate(i, c, k)
  /\ UNCHANGED <<planned, row, orderStatus, paidBy, sent, claimed, deferred, flags, reads, vouched>>

(* What a gateway does with a cancellation: a paid intent stays paid (the  *)
(* Stripe adapter then asks for the state, the demo one returns it).       *)
StripeCancels(i) == Provider[gateway[i].cfg] = "stripe" /\ gateway[i].state = "open"
DemoCancels(i) == Provider[gateway[i].cfg] = "demo" /\ gateway[i].state = "open"

Canceled(i) ==
  IF StripeCancels(i) \/ DemoCancels(i)
  THEN [gateway EXCEPT ![i].state = "canceled"] ELSE gateway

(* An answered intent is recorded, unless the order was decided meanwhile  *)
(* or another payment is pending: then it is an orphan, made unpayable     *)
(* where the gateway can and reported where it cannot.                     *)
Orphan == orderStatus # "pending" \/ \E i \in Intents : row[i].status \in {"pending", "succeeded"}

RecordPayment(i) ==
  /\ i \in heard
  /\ row[i] = NoRow
  /\ heard' = heard \ {i}
  /\ IF Orphan
     THEN /\ \/ gateway' = Canceled(i) /\ SupportsCancel(gateway[i].cfg) /\ UNCHANGED flags
             \/ flags' = flags \cup {<<"orphan", i>>} /\ UNCHANGED gateway
          /\ UNCHANGED row
     ELSE /\ row' = [row EXCEPT ![i].status = "pending"]
          /\ UNCHANGED <<gateway, flags>>
  /\ UNCHANGED <<planned, orderStatus, paidBy, sent, claimed, deferred, reads, vouched>>

(* cancel_order: every recorded intent is first made unpayable.  One that  *)
(* turns out paid stops the cancellation, and so does a call whose outcome *)
(* stays unknown; a gateway that cannot cancel is passed over.             *)
Asked == {i \in Rows : row[i].status # "refunded" /\ SupportsCancel(gateway[i].cfg)}

CancelOrder ==
  /\ orderStatus = "pending"
  /\ ~\E i \in Rows : row[i].status = "succeeded"
  /\ gateway' = [i \in Intents |-> IF i \in Asked THEN Canceled(i)[i] ELSE gateway[i]]
  /\ \/ /\ \A i \in Asked : gateway'[i].state = "canceled"
        /\ orderStatus' = "cancelled"
        /\ row' = [i \in Intents |-> IF row[i].status = "pending"
                                     THEN [row[i] EXCEPT !.status = "failed"] ELSE row[i]]
        /\ UNCHANGED flags
     \/ /\ \E i \in Asked : gateway'[i].state # "canceled"
        /\ flags' = flags \cup {<<"cancel_payment_succeeded", None>>}
        /\ UNCHANGED <<orderStatus, row>>
     \/ /\ \E i \in Asked : Provider[gateway[i].cfg] = "stripe"
        /\ flags' = flags \cup {<<"cancel_uncertain", None>>}
        /\ UNCHANGED <<orderStatus, row>>
  /\ UNCHANGED <<planned, heard, paidBy, sent, claimed, deferred, reads, vouched>>

(***************************************************************************)
(* What happens at the gateway (external): the customer pays, all or part, *)
(* or is declined; money is given back in the gateway's own dashboard.     *)
(* Each is told in a signed event; only Razorpay names its payment.        *)
(***************************************************************************)
Event(kind, i, amount) ==
  [kind |-> kind, i |-> i, amount |-> amount, reference |-> None, n |-> Cardinality(sent)]

StripeEvent(kind, i, amount) == Event(kind, i, amount)
RazorpayEvent(kind, i, amount) == [Event(kind, i, amount) EXCEPT !.reference = i]
DemoEvent(succeeds, i) == Event(IF succeeds THEN "succeeded" ELSE "failed", i, "full")

Told(kind, i, amount) ==
  sent \cup {IF Refs(i) THEN RazorpayEvent(kind, i, amount) ELSE StripeEvent(kind, i, amount)}

PaysAtGateway(i) == gateway[i].state = "open" /\ Provider[gateway[i].cfg] # "demo"

Capture(i, amount) ==
  /\ PaysAtGateway(i)
  /\ Cardinality(sent) < MaxEvents
  /\ gateway' = [gateway EXCEPT ![i].state = "succeeded", ![i].received = amount]
  /\ sent' = Told("succeeded", i, amount)
  /\ UNCHANGED <<planned, heard, row, orderStatus, paidBy, claimed, deferred, flags, reads, vouched>>

Decline(i) ==
  /\ PaysAtGateway(i)
  /\ Cardinality(sent) < MaxEvents
  /\ sent' = Told("failed", i, None)
  /\ UNCHANGED <<gateway, planned, heard, row, orderStatus, paidBy, claimed, deferred, flags, reads,
                 vouched>>

RefundAtGateway(i) ==
  /\ gateway[i].state = "succeeded"
  /\ Provider[gateway[i].cfg] # "demo"
  /\ Cardinality(sent) < MaxEvents
  /\ gateway' = [gateway EXCEPT ![i].state = "refunded"]
  /\ sent' = Told("refund", i, gateway[i].received)
  /\ UNCHANGED <<planned, heard, row, orderStatus, paidBy, claimed, deferred, flags, reads, vouched>>

(* Mutant: whichever configuration verified the event will do.             *)
MatchesAnyConfig(e, c) == e.amount = "full"

(***************************************************************************)
(* The handlers.  seen is the payment's status as the session holds it,    *)
(* open the reconciliation records a new one is added to.                  *)
(***************************************************************************)
(* _event_matches_payment: the configuration that verified the event is    *)
(* the payment's own, or unknown; amount and amount_received are ours.     *)
Matches(e, c) ==
  /\ c \in {None, gateway[e.i].cfg}
  /\ e.amount = "full"

(* Mutant: the reference of the captured payment is not stored.            *)
LearnedNothing(e) == row[e.i].reference

(* The reference of a captured payment is stored once, for a refund.       *)
LearnedReference(e) ==
  IF row[e.i].reference = None THEN e.reference ELSE row[e.i].reference

HandlePaymentSucceeded(e, c, open) ==
  \/ /\ row[e.i] = NoRow
     /\ flags' = open \cup {<<"unmatched", e.i>>}
     /\ UNCHANGED <<row, orderStatus, paidBy, vouched>>
  \/ /\ row[e.i] # NoRow /\ ~Matches(e, c)
     /\ flags' = open \cup {<<"mismatch", e.i>>}
     /\ UNCHANGED <<row, orderStatus, paidBy, vouched>>
  \/ /\ row[e.i] # NoRow /\ Matches(e, c)
     /\ row' = [row EXCEPT ![e.i] = [status |-> "succeeded",
                                     reference |-> LearnedReference(e)]]
     /\ vouched' = [vouched EXCEPT ![e.i] = IF c = None THEN Recovered ELSE c]
     /\ IF orderStatus = "pending"
        THEN orderStatus' = "paid" /\ paidBy' = e.i /\ flags' = open
        ELSE flags' = open \cup {<<"late", e.i>>} /\ UNCHANGED <<orderStatus, paidBy>>

HandlePaymentFailed(e, seen, open) ==
  /\ row' = [row EXCEPT ![e.i].status =
       IF row[e.i] = NoRow \/ seen = "succeeded" THEN @ ELSE "failed"]
  /\ flags' = open
  /\ UNCHANGED <<orderStatus, paidBy, vouched>>

(* _handle_refund_event, for a refund made at the gateway.  A Razorpay     *)
(* refund names only the payment it refunds, so it is found through the    *)
(* reference learned at capture.                                           *)
FoundForRefund(e) ==
  IF Refs(e.i) THEN e.reference # None /\ row[e.i].reference = e.reference
  ELSE row[e.i] # NoRow

HandleRefundEvent(e, open) ==
  /\ IF FoundForRefund(e)
     THEN /\ row' = [row EXCEPT ![e.i].status = IF e.amount = "full" THEN "refunded" ELSE @]
          /\ flags' = open \cup {<<"external_refund", e.i>>}
     ELSE flags' = open \cup {<<"unknown_refund", e.i>>} /\ UNCHANGED row
  /\ UNCHANGED <<orderStatus, paidBy, vouched>>

Apply(e, c, seen, open) ==
  \/ e.kind = "succeeded" /\ HandlePaymentSucceeded(e, c, open)
  \/ e.kind = "failed" /\ HandlePaymentFailed(e, seen, open)
  \/ e.kind = "refund" /\ HandleRefundEvent(e, open)

(* _defer_event keeps an event whose payment is unknown, if it names one;  *)
(* it keeps identifiers only: neither the reference nor the configuration. *)
Defers(e) ==
  /\ row[e.i] = NoRow
  /\ \/ e.kind = "succeeded"
     \/ e.kind = "refund" /\ ~Refs(e.i)

Kept(e) == [e EXCEPT !.reference = None]

(***************************************************************************)
(* handle_webhook.  An account sends its events to every configuration     *)
(* made for it, signed with that configuration's secret, as often as it    *)
(* likes.  Only signed bytes decide which event it is.                     *)
(***************************************************************************)
EventId(e, header) == <<Provider[gateway[e.i].cfg], e>>

SignedFor(e, c) == Account[c] = Account[gateway[e.i].cfg]

Verifies(e, c) ==
  /\ Provider[c] = Provider[gateway[e.i].cfg]
  /\ SignedFor(e, c)

HandleWebhook(e, c, header) ==
  /\ e \in sent
  /\ Verifies(e, c)
  /\ EventId(e, header) \notin claimed
  /\ claimed' = claimed \cup {EventId(e, header)}
  /\ Apply(e, c, row[e.i].status, flags)
  /\ deferred' = IF Defers(e) THEN deferred \cup {Kept(e)} ELSE deferred
  /\ UNCHANGED <<gateway, planned, heard, sent, reads>>

(* reprocess_deferred_events: applied by the same handlers once the row    *)
(* exists, and the record of the missing payment is closed; or given up    *)
(* when the attempts or the window are used.                               *)
Closes(e) ==
  {<<"unmatched", e.i>>} \cup (IF e.kind = "refund" THEN {<<"unknown_refund", e.i>>} ELSE {})

ReprocessDeferredEvent(e) ==
  /\ e \in deferred
  /\ row[e.i] # NoRow
  /\ Apply(e, None, row[e.i].status, flags \ Closes(e))
  /\ deferred' = deferred \ {e}
  /\ UNCHANGED <<gateway, planned, heard, sent, claimed, reads>>

ExpireDeferredEvent(e) ==
  /\ e \in deferred
  /\ deferred' = deferred \ {e}
  /\ UNCHANGED <<gateway, planned, heard, row, orderStatus, paidBy, sent, claimed, flags, reads, vouched>>

(***************************************************************************)
(* DemoCheckoutService.pay: read the order's payments, then lock the demo  *)
(* intent, record the outcome and deliver the event to oneself.            *)
(***************************************************************************)
DemoRead(p, i) ==
  /\ reads[p] = None
  /\ i \in Reusable
  /\ Provider[gateway[i].cfg] = "demo"
  /\ ~\E j \in Rows : row[j].status = "succeeded" /\ Provider[gateway[j].cfg] = "demo"
  /\ reads' = [reads EXCEPT ![p] = [i |-> i, status |-> row[i].status]]
  /\ UNCHANGED <<gateway, planned, heard, row, orderStatus, paidBy, sent, claimed, deferred, flags, vouched>>

(* record_outcome: a paid intent stays paid whatever is tried afterwards.  *)
RecordOutcome(i, succeeds) ==
  [gateway EXCEPT ![i] = IF succeeds \/ @.state = "succeeded"
                         THEN [@ EXCEPT !.state = "succeeded", !.received = "full"] ELSE @]

DemoPay(p, succeeds) ==
  /\ reads[p] # None
  /\ LET i == reads[p].i
         e == DemoEvent(succeeds, i) IN
     IF gateway[i].state = "canceled"
     THEN UNCHANGED <<gateway, row, orderStatus, paidBy, deferred, flags, vouched>>
     ELSE /\ gateway' = RecordOutcome(i, succeeds)
          /\ Apply(e, gateway[i].cfg, reads[p].status, flags)
          /\ UNCHANGED deferred
  /\ reads' = [reads EXCEPT ![p] = None]
  /\ UNCHANGED <<planned, heard, sent, claimed>>

(***************************************************************************)
(* execute_refund of a whole payment.  Razorpay refunds a payment by its   *)
(* own reference: with only the order's id the adapter refuses, and after  *)
(* the attempts the refund is left uncertain.                              *)
(***************************************************************************)
RefundTarget(i) == IF Refs(i) THEN row[i].reference ELSE i

StripeRefund(i) == Provider[gateway[i].cfg] = "stripe"
RazorpayRefund(i) == Refs(i) /\ RefundTarget(i) # None
DemoRefund(i) == Provider[gateway[i].cfg] = "demo"

ExecuteRefund(i) ==
  /\ row[i].status = "succeeded"
  /\ IF StripeRefund(i) \/ RazorpayRefund(i) \/ DemoRefund(i)
     THEN /\ gateway' = [gateway EXCEPT ![i].state = "refunded"]
          /\ row' = [row EXCEPT ![i].status = "refunded"]
          /\ UNCHANGED flags
     ELSE flags' = flags \cup {<<"refund_uncertain", i>>} /\ UNCHANGED <<gateway, row>>
  /\ UNCHANGED <<planned, heard, orderStatus, paidBy, sent, claimed, deferred, reads, vouched>>

GatewaysNext ==
  \/ PlanPayment
  \/ \E i \in Intents : ReusePayment(i)
  \/ \E i \in Intents, c \in Configs, k \in planned : CreatePaymentIntent(i, c, k)
  \/ \E i \in Intents : RecordPayment(i)
  \/ CancelOrder
  \/ \E i \in Intents, amount \in {"full", "part"} : Capture(i, amount)
  \/ \E i \in Intents : Decline(i)
  \/ \E i \in Intents : RefundAtGateway(i)
  \/ \E e \in sent, c \in Configs, header \in Headers : HandleWebhook(e, c, header)
  \/ \E e \in deferred : ReprocessDeferredEvent(e)
  \/ \E e \in deferred : ExpireDeferredEvent(e)
  \/ \E p \in Payers, i \in Intents : DemoRead(p, i)
  \/ \E p \in Payers, succeeds \in BOOLEAN : DemoPay(p, succeeds)
  \/ \E i \in Intents : ExecuteRefund(i)

GatewaysSpec == GatewaysInit /\ [][GatewaysNext]_gatewaysVars

(* A record of a late payment made at a real gateway means that the order  *)
(* was decided without that payment: a redelivered event, whatever its     *)
(* headers, is never taken for a second payment.  (The demo gateway signs  *)
(* a new event for every click, so there two clicks do open a record.)     *)
LateIsLate ==
  \A i \in Intents : <<"late", i>> \in flags /\ Provider[gateway[i].cfg] # "demo" => paidBy # i

(* A credited payment was captured in full at its gateway, and the event   *)
(* that credited it was verified by the configuration the payment was made *)
(* with; only an event recovered from deferral no longer says by which.    *)
CreditIsBacked ==
  \A i \in Intents : row[i].status = "succeeded" =>
    /\ gateway[i].state \in {"succeeded", "refunded"}
    /\ gateway[i].received = "full"
    /\ vouched[i] \in {gateway[i].cfg, Recovered}

(* A credited Razorpay payment can be refunded: its reference is known,    *)
(* unless it was credited from a deferred event, which had lost it.        *)
RefundableUnlessRecovered ==
  \A i \in Intents : row[i].status = "succeeded" /\ vouched[i] # Recovered =>
    RefundTarget(i) # None

(* A refund made at the gateway whose event was taken is on an open record,*)
(* also when the event came before the payment's row.                      *)
RefundSeen ==
  \A e \in sent : e.kind = "refund" /\ <<Provider[gateway[e.i].cfg], e>> \in claimed =>
    <<"external_refund", e.i>> \in flags \/ <<"unknown_refund", e.i>> \in flags

(* Only money that came is credited, and a second event of one payment is  *)
(* not taken for a second payment (_event_matches_payment, mark_paid).     *)
CreditIsRight == CreditIsBacked /\ LateIsLate

(* A credited payment can be given back, and one that the gateway gave     *)
(* back is on record (_handle_payment_succeeded, _handle_refund_event).    *)
RefundsReach == RefundableUnlessRecovered /\ RefundSeen

(* What the shop has recorded of a gateway's money is right, both ways.    *)
MoneyIsRight == CreditIsRight /\ RefundsReach
=============================================================================
