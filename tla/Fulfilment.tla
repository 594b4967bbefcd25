----------------------------- MODULE Fulfilment -----------------------------
(***************************************************************************)
(* What happens to an order after it is paid: it is shipped, comes back in *)
(* parts and is refunded, and the tax documents follow it (ShipmentService,*)
(* ReturnService, invoice_service, and the parts of OrderLifecycleService  *)
(* that fulfil an order and confirm a refund).                             *)
(*                                                                         *)
(* Every handler here locks the order row, the return row, or first the    *)
(* return and then the order, and keeps the locks until its commit: it is  *)
(* one step. The exception is an administrator asking for an invoice,      *)
(* which reads the order without a lock and writes later.                  *)
(***************************************************************************)
EXTENDS Common, Naturals, FiniteSets, FiniteSetsExt, Functions

CONSTANTS
    Orders,       \* paid orders
    Lines,        \* the lines of every order
    Bought,       \* the quantity of each line
    Starts,       \* the orders to begin with: of a guest, of a registered customer or already cancelled, and
                  \* taxed by the GST engine ("gst"), without tax ("plain") or paid in demo mode ("demo")
    Returns,      \* return requests customers may make
    Issuers,      \* administrators asking for an invoice
    Prefixes,     \* invoice prefixes the business profile may have
    MaxShipments, \* bound: parcels of one order
    MaxYears,     \* bound: financial years
    MaxRefunds    \* bound: refunds requested of one order

CREDIT_NOTE_PREFIX == "CN"
DocTypes == {"invoice", "credit_note"}

\* An order begins in one of these ways, and NULL is no order and no document.
ASSUME StartsAssumption ==
    Starts \subseteq [Orders -> [buyer : {"guest", "registered", "cancelled"}, kind : {"gst", "plain", "demo"}]]
ASSUME OrdersAssumption == IsFiniteSet(Orders) /\ None \notin Orders /\ MaxYears \in Nat \ {0}
ASSUME ReturnsAssumption == IsFiniteSet(Returns) /\ Bought \in [Lines -> Nat]
ASSUME DocumentsAssumption ==
    None \notin (Prefixes \cup {CREDIT_NOTE_PREFIX}) \X (1 .. MaxYears) \X (1 .. Cardinality(Orders))

VARIABLES
    order,     \* orders: status, buyer, kind, units released by a cancellation, refund in progress
    parcels,   \* order_shipments of each order: on the way, delivered in the window, delivered before it
    recent,    \* the order was fulfilled within the return window
    ret,       \* return_requests with their items
    restocked, \* order_items.restocked_quantity
    profile,   \* invoice_prefix of the business profile; None: not set
    year,      \* the financial year
    last,      \* invoice_sequences: last number of each series
    doc,       \* invoices: the documents of each order, None or <<prefix, year, sequence>>
    issuer,    \* requests for an invoice in progress
    late,      \* history: orders invoiced by a request that had read them before their refund
    shipped    \* history: orders that were ever fulfilled

fulfilmentVars == <<order, parcels, recent, ret, restocked, profile, year, last, doc, issuer, late, shipped>>
returnVars == <<ret, restocked>>
docVars == <<last, doc>>

Nothing == [l \in Lines |-> 0]
NoParcels == [out |-> 0, fresh |-> 0, old |-> 0]
Series == DocTypes \X (1 .. MaxYears)
NoReturn == [order |-> None, status |-> "none", qty |-> Nothing, got |-> Nothing, back |-> Nothing, resolution |-> "none"]

FulfilmentInit ==
    /\ \E start \in Starts :
         order = [o \in Orders |-> [status |-> IF start[o].buyer = "cancelled" THEN "cancelled" ELSE "paid",
                                    buyer |-> start[o].buyer, kind |-> start[o].kind, released |-> FALSE,
                                    refund |-> "none", cancels |-> FALSE, refunds |-> 0]]
    /\ parcels = [o \in Orders |-> NoParcels]
    /\ recent = [o \in Orders |-> TRUE]
    /\ ret = [r \in Returns |-> NoReturn]
    /\ restocked = [o \in Orders |-> Nothing]
    /\ profile = None /\ year = 1
    /\ last = [s \in Series |-> 0]
    /\ doc = [o \in Orders |-> [t \in DocTypes |-> None]]
    /\ issuer = [i \in Issuers |-> None]
    /\ late = {} /\ shipped = {}

-----------------------------------------------------------------------------
\* Invoices and credit notes.

\* format_number.
Number(t, seq) == <<IF t = "invoice" THEN profile ELSE CREDIT_NOTE_PREFIX, year, seq>>

\* uq_invoices_number and uq_invoices_order_doc_type.
Storable(o, t, number) ==
    /\ doc[o][t] = None
    /\ \A p \in Orders, u \in DocTypes : doc[p][u] # number

\* _issue: the next number of the series is taken and the document stored, in one transaction.
Issue(o, t) ==
    LET seq == last[<<t, year>>] + 1 IN
    /\ profile # None
    /\ Storable(o, t, Number(t, seq))
    /\ last' = [last EXCEPT ![<<t, year>>] = seq]
    /\ doc' = [doc EXCEPT ![o][t] = Number(t, seq)]

\* issue_invoice on dispatch: the existing one, none for an order that has no tax invoice, or a
\* new one; a GST order whose invoice cannot be issued is not dispatched.
InvoiceOnDispatch(o) ==
    IF doc[o]["invoice"] = None /\ order[o].kind = "gst" THEN Issue(o, "invoice") ELSE UNCHANGED docVars

\* issue_credit_note: only an order that was invoiced has one.
CreditNote(o) ==
    IF doc[o]["invoice"] # None /\ doc[o]["credit_note"] = None THEN Issue(o, "credit_note") ELSE UNCHANGED docVars

\* issue_order_invoice reads the order and its invoice, without a lock.
AskInvoice(i, o) ==
    /\ issuer[i] = None
    /\ doc[o]["invoice"] = None
    /\ order[o].kind = "gst" /\ order[o].status \in {"paid", "fulfilled"}
    /\ issuer' = [issuer EXCEPT ![i] = o]
    /\ UNCHANGED <<order, parcels, recent, ret, restocked, profile, year, last, doc, late, shipped>>

\* ... and then issues it.
IssueAsked(i) ==
    LET o == issuer[i] IN
    /\ o # None
    /\ Issue(o, "invoice")
    /\ late' = IF order[o].status = "refunded" THEN late \cup {o} ELSE late
    /\ issuer' = [issuer EXCEPT ![i] = None]
    /\ UNCHANGED <<order, parcels, recent, ret, restocked, profile, year, shipped>>

\* Mutant: the number stays taken when the document could not be stored.
NumberKept(o) == [last EXCEPT ![<<"invoice", year>>] = IF profile = None THEN @ ELSE @ + 1]

\* "if the transaction rolls back, the number is given back with it".
NumberAfterRollback(o) == last

\* The document cannot be stored: no profile, an invoice issued meanwhile, a number taken. The
\* request fails and its transaction rolls back.
IssueFails(i) ==
    LET o == issuer[i]
        seq == last[<<"invoice", year>>] + 1
    IN
    /\ o # None
    /\ profile = None \/ ~Storable(o, "invoice", Number("invoice", seq))
    /\ last' = NumberAfterRollback(o)
    /\ issuer' = [issuer EXCEPT ![i] = None]
    /\ UNCHANGED <<order, parcels, recent, ret, restocked, profile, year, doc, late, shipped>>

\* write_business_profile.
WriteProfile(prefix) ==
    /\ profile # prefix /\ profile' = prefix
    /\ UNCHANGED <<order, parcels, recent, ret, restocked, year, last, doc, issuer, late, shipped>>

\* fiscal_year: the next 1 April.
NewYear ==
    /\ year < MaxYears /\ year' = year + 1
    /\ UNCHANGED <<order, parcels, recent, ret, restocked, profile, last, doc, issuer, late, shipped>>

-----------------------------------------------------------------------------
\* Dispatch.
CancellingRefund(o) == order[o].refund = "requested" /\ order[o].cancels

\* The order becomes fulfilled, with its invoice.
Dispatched(o) ==
    /\ order' = [order EXCEPT ![o].status = "fulfilled"]
    /\ recent' = [recent EXCEPT ![o] = TRUE]
    /\ shipped' = shipped \cup {o}
    /\ InvoiceOnDispatch(o)

OrderStatus == {"pending", "paid", "fulfilled", "cancelled", "refunded"}

\* OrderLifecycleService.fulfil_order.
FulfilOrder(o) ==
    /\ order[o].status = "paid"
    /\ ~CancellingRefund(o)
    /\ Dispatched(o)
    /\ UNCHANGED <<parcels, ret, restocked, profile, year, issuer, late>>

\* admin_change_status: by hand an order is fulfilled and nothing else.
AdminChangeStatus(o, new) == new = "fulfilled" /\ FulfilOrder(o)

Parcels(o) == parcels[o].out + parcels[o].fresh + parcels[o].old

\* ShipmentService.create without fulfill_order, or for an order fulfilled before.
AddShipment(o) ==
    /\ order[o].status \in {"paid", "fulfilled"} /\ Parcels(o) < MaxShipments
    /\ parcels' = [parcels EXCEPT ![o].out = @ + 1]
    /\ UNCHANGED <<order, recent, ret, restocked, profile, year, last, doc, issuer, late, shipped>>

\* ShipmentService.create with fulfill_order.
ShipAndFulfil(o) ==
    /\ order[o].status = "paid" /\ Parcels(o) < MaxShipments
    /\ parcels' = [parcels EXCEPT ![o].out = @ + 1]
    /\ Dispatched(o)
    /\ UNCHANGED <<ret, restocked, profile, year, issuer, late>>

\* ShipmentService.update: shipped -> delivered, once.
Deliver(o) ==
    /\ parcels[o].out > 0
    /\ parcels' = [parcels EXCEPT ![o].out = @ - 1, ![o].fresh = @ + 1]
    /\ UNCHANGED <<order, recent, ret, restocked, profile, year, last, doc, issuer, late, shipped>>

\* ShipmentService.delete.
DeleteShipment(o) ==
    /\ \E s \in {"out", "fresh", "old"} :
         parcels[o][s] > 0 /\ parcels' = [parcels EXCEPT ![o][s] = @ - 1]
    /\ UNCHANGED <<order, recent, ret, restocked, profile, year, last, doc, issuer, late, shipped>>

\* RETURN_WINDOW_DAYS pass. Only a return asks how long ago an order was sent.
WindowPasses(o) ==
    /\ order[o].buyer = "registered" /\ o \in shipped /\ (recent[o] \/ parcels[o].fresh > 0)
    /\ recent' = [recent EXCEPT ![o] = FALSE]
    /\ parcels' = [parcels EXCEPT ![o] = [out |-> @.out, fresh |-> 0, old |-> @.old + @.fresh]]
    /\ UNCHANGED <<order, ret, restocked, profile, year, last, doc, issuer, late, shipped>>

-----------------------------------------------------------------------------
\* Refunds of the whole order (Refunds models their execution).
RefundActive(o) == order[o].refund \in {"requested", "succeeded"}

\* What request_refund leaves of the order; asking again for the refund in progress changes nothing.
RefundRequested(o, cancels) ==
    /\ order[o].status \in {"paid", "fulfilled"}
    /\ IF RefundActive(o) THEN order[o].cancels = cancels /\ UNCHANGED order
       ELSE /\ order[o].refunds < MaxRefunds
            /\ order' = [order EXCEPT ![o].refund = "requested", ![o].cancels = cancels, ![o].refunds = @ + 1]

\* POST /payments/{order}/refund and POST /admin/orders/{order}/cancel-and-refund.
RequestRefund(o, cancels) ==
    /\ ~RefundActive(o)
    /\ cancels => order[o].status = "paid"
    /\ RefundRequested(o, cancels)
    /\ UNCHANGED <<parcels, recent, ret, restocked, profile, year, last, doc, issuer, late, shipped>>

\* Mutant: the release does not ask whether the order had been shipped.
ReleasesShippedToo(o) == order[o].cancels

\* Only a cancellation puts the goods back, and only those never shipped.
Releases(o) == order[o].cancels /\ order[o].status # "fulfilled"

\* _confirm_refund: the order is refunded, its credit note issued, and the stock of a cancelled
\* order released (_restock_once: what is left of each line, once).
ConfirmRefund(o) ==
    /\ order[o].refund = "requested"
    /\ order' = [order EXCEPT ![o].refund = "succeeded", ![o].status = "refunded", ![o].released = @ \/ Releases(o)]
    /\ restocked' = IF Releases(o) /\ ~order[o].released THEN [restocked EXCEPT ![o] = Bought] ELSE restocked
    /\ CreditNote(o)
    /\ UNCHANGED <<parcels, recent, ret, profile, year, issuer, late, shipped>>

\* The provider refuses the refund.
FailRefund(o) ==
    /\ order[o].refund = "requested"
    /\ order' = [order EXCEPT ![o].refund = "failed"]
    /\ UNCHANGED <<parcels, recent, ret, restocked, profile, year, last, doc, issuer, late, shipped>>

-----------------------------------------------------------------------------
\* Returns.
Of(o, statuses) == {r \in Returns : ret[r].order = o /\ ret[r].status \in statuses}

\* Everything that uses up part of a line.
COUNTED == {"requested", "approved", "received", "closed"}

\* _used: units of a line that requests have claimed.
Used(o, l) == SumFunctionOnSet([r \in Returns |-> ret[r].qty[l]], Of(o, COUNTED))

\* _window_start: the latest delivery if there is one, else the dispatch.
InWindow(o) == IF parcels[o].fresh + parcels[o].old > 0 THEN parcels[o].fresh > 0 ELSE recent[o]

\* eligibility: a shipped order in its window of which something is left.
Eligible(o) ==
    /\ order[o].status = "fulfilled"
    /\ InWindow(o)
    /\ \E l \in Lines : Used(o, l) < Bought[l]

\* ReturnCreate: some lines, each with a quantity.
Wishes == {q \in [Lines -> 0 .. Max(Range(Bought))] : q # Nothing}

\* create: a registered customer's own order; of each line at most what is left.
CreateReturn(r, o, qty) ==
    /\ ret[r] = NoReturn /\ order[o].buyer = "registered"
    /\ Eligible(o)
    /\ \A l \in Lines : qty[l] + Used(o, l) <= Bought[l]
    /\ ret' = [ret EXCEPT ![r] = [NoReturn EXCEPT !.order = o, !.status = "requested", !.qty = qty]]
    /\ UNCHANGED <<order, parcels, recent, restocked, profile, year, last, doc, issuer, late, shipped>>

\* A return whose row is locked moves on; nothing else changes.
MoveReturn(r, from, to, resolution) ==
    /\ ret[r].status \in from
    /\ ret' = [ret EXCEPT ![r].status = to, ![r].resolution = resolution]
    /\ UNCHANGED <<order, parcels, recent, restocked, profile, year, last, doc, issuer, late, shipped>>

CancelReturn(r) == MoveReturn(r, {"requested", "approved"}, "cancelled", "none")
Approve(r) == MoveReturn(r, {"requested"}, "approved", "none")
Reject(r) == MoveReturn(r, {"requested"}, "rejected", "none")

\* "refunded_outside", "replacement_sent" and "no_refund" are told apart by nothing here.
Close(r) == MoveReturn(r, {"approved", "received"}, "closed", "outside")

\* _restock: of what arrived, the lines the administrator wants back in stock.
Restock(got, sellable) == [l \in Lines |-> IF l \in sellable THEN got[l] ELSE 0]

\* ReturnReceive: how many arrived of every line, and which lines go back in stock.
Receipts == [got : [Lines -> 0 .. Max(Range(Bought))], sellable : SUBSET Lines]

\* receive: what arrived of every line, at most what was requested; the CHECK on
\* order_items.restocked_quantity refuses more than was bought.
Receive(r, got, sellable) ==
    LET o == ret[r].order
        back == Restock(got, sellable)
    IN
    /\ ret[r].status = "approved"
    /\ \A l \in Lines : got[l] <= ret[r].qty[l] /\ restocked[o][l] + back[l] <= Bought[l]
    /\ \A l \in sellable : got[l] > 0
    /\ ret' = [ret EXCEPT ![r].status = "received", ![r].got = got, ![r].back = Restock(got, sellable)]
    /\ restocked' = [restocked EXCEPT ![o] = [l \in Lines |-> @[l] + back[l]]]
    /\ UNCHANGED <<order, parcels, recent, profile, year, last, doc, issuer, late, shipped>>

\* Units of a line that came back with received returns.
Arrived(o, l) == SumFunctionOnSet([r \in Returns |-> ret[r].got[l]], Of(o, {"received", "closed"}))

EverythingBack(o) == \A l \in Lines : Arrived(o, l) >= Bought[l]

\* ReturnService.refund: the whole order is refunded when all of it came back.
RefundReturn(r) ==
    LET o == ret[r].order IN
    /\ ret[r].status = "received"
    /\ EverythingBack(o)
    /\ RefundRequested(o, FALSE)
    /\ ret' = [ret EXCEPT ![r].status = "closed", ![r].resolution = "refunded"]
    /\ UNCHANGED <<parcels, recent, restocked, profile, year, last, doc, issuer, late, shipped>>

-----------------------------------------------------------------------------
\* The endpoints, each with its inputs.
InvoiceEndpoints ==
    \/ \E i \in Issuers : IssueAsked(i) \/ IssueFails(i) \/ \E o \in Orders : AskInvoice(i, o)
    \/ \E prefix \in Prefixes : WriteProfile(prefix)

ShipmentEndpoints ==
    \E o \in Orders : AddShipment(o) \/ ShipAndFulfil(o) \/ Deliver(o) \/ DeleteShipment(o)

OrderEndpoints ==
    \E o \in Orders :
        \/ \E new \in OrderStatus : AdminChangeStatus(o, new)
        \/ \E cancels \in BOOLEAN : RequestRefund(o, cancels)

CustomerReturnEndpoints ==
    \E r \in Returns : CancelReturn(r) \/ \E o \in Orders, qty \in Wishes : CreateReturn(r, o, qty)

AdminReturnEndpoints ==
    \E r \in Returns :
        \/ Approve(r) \/ Reject(r) \/ Close(r) \/ RefundReturn(r)
        \/ \E receipt \in Receipts : Receive(r, receipt.got, receipt.sellable)

\* The payment provider's answers, and time.
Environment == NewYear \/ \E o \in Orders : ConfirmRefund(o) \/ FailRefund(o) \/ WindowPasses(o)

FulfilmentNext ==
    \/ InvoiceEndpoints \/ ShipmentEndpoints \/ OrderEndpoints
    \/ CustomerReturnEndpoints \/ AdminReturnEndpoints \/ Environment

FulfilmentSpec == FulfilmentInit /\ [][FulfilmentNext]_fulfilmentVars

-----------------------------------------------------------------------------
\* Invoice numbers are consecutive in every series, whoever issues at the same time and whatever
\* fails on the way: the documents of a series carry exactly the numbers 1 .. last (GST.md: "a
\* number is taken inside the same database transaction that stores the invoice").
NumbersConsecutive ==
    \A s \in Series :
        LET issued == {o \in Orders : doc[o][s[1]] # None /\ doc[o][s[1]][2] = s[2]} IN
        /\ Cardinality(issued) = last[s]
        /\ {doc[o][s[1]][3] : o \in issued} = 1 .. last[s]

\* Over all the requests that were not rejected or cancelled, a line is never returned more than
\* it was bought.
ReturnedWithinBought ==
    \A o \in Orders, l \in Lines :
        SumFunctionOnSet([r \in Returns |-> ret[r].qty[l]],
                         {r \in Returns : ret[r].order = o /\ ret[r].status \notin {"rejected", "cancelled"}}) <= Bought[l]

\* The units an order put back in stock are exactly those that never left (a cancelled order that
\* was not shipped) or those returns brought back and an administrator found sellable; never both.
BackInStockOnce ==
    \A o \in Orders, l \in Lines :
        restocked[o][l] = IF order[o].released /\ o \notin shipped THEN Bought[l]
                          ELSE SumFunctionOnSet([r \in Returns |-> ret[r].back[l]], {r \in Returns : ret[r].order = o})

\* A return is closed as refunded by the shop only if every unit of the order has arrived.
RefundedCameBack ==
    \A r \in Returns : ret[r].resolution = "refunded" =>
        \A l \in Lines :
            SumFunctionOnSet([q \in Returns |-> ret[q].got[l]], {q \in Returns : ret[q].order = ret[r].order}) = Bought[l]

\* A refunded order that was invoiced has its credit note, unless the invoice was issued by a
\* request that had read the order before the refund (GST.md: "A full refund of an invoiced order
\* is followed automatically by a credit note").
CreditNoteFollows ==
    \A o \in Orders : order[o].status = "refunded" /\ doc[o]["invoice"] # None
                        => doc[o]["credit_note"] # None \/ o \in late

\* The books are complete: the numbers of each series have no gap and no repetition, and a refund of an invoiced order
\* has its credit note (invoice_service.py).
BooksComplete == NumbersConsecutive /\ CreditNoteFollows

\* The goods are accounted for through shipping, returns and cancellation: nothing is returned that was not bought, put
\* back twice, or refunded before it came back (return_service.py, lifecycle_service.py).
GoodsAccounted == ReturnedWithinBought /\ BackInStockOnce /\ RefundedCameBack
=============================================================================
