----------------------------- MODULE OrderLedger -----------------------------
(***************************************************************************)
(* What the payment side of NovaCart promises about ONE order, with all    *)
(* requests, webhooks, jobs and provider calls abstracted away: the order  *)
(* is decided once, either confirmed by one payment the provider really    *)
(* captured or cancelled together with the release of its stock, and any   *)
(* other captured payment is only ever reported to a human.                *)
(***************************************************************************)
EXTENDS Naturals

CONSTANTS
    Intents,    \* payments the provider knows for the order
    NoIntent    \* "paid by nobody yet"

VARIABLES
    outcome,    \* "open", "paid" or "cancelled"
    paidBy,     \* the payment that confirmed the order
    releases,   \* how often the order's stock was put back
    captured,   \* payments the provider has taken money for
    reported    \* payments a reconciliation record was opened for

ledger == <<outcome, paidBy, releases, captured, reported>>

Init ==
    /\ outcome = "open"
    /\ paidBy = NoIntent
    /\ releases = 0
    /\ captured = {}
    /\ reported = {}

\* The provider takes the money of one payment.
Capture(i) ==
    /\ captured' = captured \cup {i}
    /\ UNCHANGED <<outcome, paidBy, releases, reported>>

\* A captured payment decides an open order.
Confirm(i) ==
    /\ outcome = "open"
    /\ i \in captured
    /\ outcome' = "paid"
    /\ paidBy' = i
    /\ UNCHANGED <<releases, captured, reported>>

\* Cancelling an open order returns its stock in the same step.
Cancel ==
    /\ outcome = "open"
    /\ outcome' = "cancelled"
    /\ releases' = releases + 1
    /\ UNCHANGED <<paidBy, captured, reported>>

\* A captured payment that is not (or cannot be) credited is reported.
Report(i) ==
    /\ i \in captured
    /\ reported' = reported \cup {i}
    /\ UNCHANGED <<outcome, paidBy, releases, captured>>

Next ==
    \/ Cancel
    \/ \E i \in Intents : Capture(i) \/ Confirm(i) \/ Report(i)

Spec == Init /\ [][Next]_ledger
=============================================================================
