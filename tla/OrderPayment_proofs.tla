------------------------- MODULE OrderPayment_proofs -------------------------
(***************************************************************************)
(* For any number of intents, concurrent payers and cancellations, any     *)
(* provider, any number of handler failures and lost commits: what         *)
(* OrderPayment's transactions preserve, and that they implement           *)
(* OrderLedger.                                                            *)
(*                                                                         *)
(* The invariant is about orders, payments, events and reconciliation      *)
(* records only. It needs nothing of what payers and cancellers remember   *)
(* between their transactions, because every decision is taken again in    *)
(* the transaction that acts on it; that is the design the proof confirms. *)
(* Only that the customer has one way to pay depends on what requests      *)
(* remember and on the idempotency keys they use: the second part.         *)
(***************************************************************************)
EXTENDS OrderPayment, FiniteSetTheorems, TLAPS

Good == {"succeeded", "deferred"}

\* The part of TypeOK that the argument needs.
Types ==
    /\ status \in {"pending", "paid", "cancelled"}
    /\ paidBy \in Intents \cup {NoIntent}
    /\ restocks \in Nat /\ mails \in Nat /\ lost \in Nat
    /\ pay \in [Intents -> PayStatus]
    /\ intent \in [Intents -> IntentStatus]
    /\ evt \in [Events -> [Intents -> {"none", "sent", "failed", "done"}]]
    /\ seen \in [Handlers -> [Intents -> PayStatus \cup {"idle"}]]
    /\ dfr \in [Intents -> {"none", "pending", "recovered", "expired"}]

\* Success events exist only for captured intents, wherever they are on their way.
EventsAreBacked ==
    \A i \in Intents :
        /\ evt["succeeded"][i] # "none" => intent[i] = "succeeded"
        /\ dfr[i] # "none" => intent[i] = "succeeded"
        /\ \A h \in Good : seen[h][i] # "idle" => intent[i] = "succeeded"

\* A payment row that a handler has read still exists.
SeenRowsStay == \A i \in Intents : \A h \in Handlers : seen[h][i] \notin {"idle", "none"} => pay[i] # "none"

\* A pending order was paid by nobody.
PendingIsUnpaid == status = "pending" => paidBy = NoIntent

\* The event of intent i was applied: it paid, came late or did not match.
Applied(i) == paidBy = i \/ <<"late_payment", i>> \in recon \/ <<"amount_mismatch", i>> \in recon

\* An unmatched_payment record is closed only after its event was applied.
ClosedIsApplied == \A i \in Intents : <<"unmatched_payment", i>> \in resolved => Applied(i)

Inv ==
    /\ Types /\ EventsAreBacked /\ SeenRowsStay /\ PendingIsUnpaid /\ ClosedIsApplied
    /\ PaidIsBacked /\ StockFollowsOrder /\ OneConfirmation /\ SucceededSettlesOrder /\ MoneyAccounted

LedgerStep == [Ledger!Next]_(Ledger!ledger)

USE NoIntentAssumption, BoundAssumption

\* The initial state: a pending order without payments.
LEMMA InitInv == Init => Inv /\ Ledger!Init
<1> SUFFICES ASSUME Init PROVE Inv /\ Ledger!Init
  OBVIOUS
<1>1. Types
  BY DEF Init, Types, PayStatus, IntentStatus
<1>2. EventsAreBacked /\ SeenRowsStay
  BY DEF Init, EventsAreBacked, SeenRowsStay, Good, Events, Handlers
<1>3. PendingIsUnpaid /\ ClosedIsApplied /\ PaidIsBacked /\ StockFollowsOrder /\ OneConfirmation
  BY DEF Init, PendingIsUnpaid, ClosedIsApplied, PaidIsBacked, StockFollowsOrder, OneConfirmation
<1>4. SucceededSettlesOrder /\ MoneyAccounted
  BY DEF Init, SucceededSettlesOrder, MoneyAccounted, Events
<1>5. Ledger!Init
  BY DEF Init, Ledger!Init
<1> QED BY <1>1, <1>2, <1>3, <1>4, <1>5 DEF Inv

\* A step that credits nothing: no capture, no event, no order change; it may record,
\* reopen or fail payments, cancel open intents and open records about cancellations.
LEMMA FrameStep ==
    ASSUME Inv, UNCHANGED <<orderVars, eventVars, resolved>>,
           pay' \in [Intents -> PayStatus],
           \A i \in Intents : (pay'[i] = "none" => pay[i] = "none") /\ (pay'[i] = "succeeded" => pay[i] = "succeeded"),
           intent' \in [Intents -> IntentStatus],
           \A i \in Intents : intent'[i] = "succeeded" <=> intent[i] = "succeeded",
           \A k \in {"unmatched_payment", "late_payment", "amount_mismatch"}, i \in Intents :
               <<k, i>> \in recon' <=> <<k, i>> \in recon
    PROVE  Inv' /\ LedgerStep
<1> USE DEF Inv
<1>1. Types'
  BY DEF Types, orderVars, eventVars
<1>2. EventsAreBacked' /\ SeenRowsStay' /\ PendingIsUnpaid'
  BY DEF EventsAreBacked, SeenRowsStay, PendingIsUnpaid, orderVars, eventVars
<1>3. ClosedIsApplied' /\ MoneyAccounted'
  BY DEF ClosedIsApplied, MoneyAccounted, Accounted, Applied, orderVars, eventVars
<1>4. PaidIsBacked' /\ StockFollowsOrder' /\ OneConfirmation' /\ SucceededSettlesOrder'
  BY DEF PaidIsBacked, StockFollowsOrder, OneConfirmation, SucceededSettlesOrder, orderVars
<1>5. UNCHANGED Ledger!ledger
  BY DEF Ledger!ledger, orderVars
<1> QED BY <1>1, <1>2, <1>3, <1>4, <1>5 DEF LedgerStep

\* create_payment_for_order credits nothing.
LEMMA PayerInv == ASSUME Inv, NEW p \in Payers, PayerStep(p) PROVE Inv' /\ LedgerStep
<1> USE DEF Inv
<1>0. pay \in [Intents -> PayStatus] /\ intent \in [Intents -> IntentStatus]
  BY DEF Types
<1>1. CASE \/ PlanPayment(p) \/ RetrieveIntent(p) \/ RecordRefused(p) \/ RecordExisting(p) \/ RecordLoses(p)
           \/ RecordNew(p) \/ ReturnWinner(p) \/ PayerStops(p)
  <2>1. UNCHANGED <<orderVars, pay, intent, eventVars, reconVars>>
    BY <1>1 DEF PlanPayment, RetrieveIntent, RecordRefused, RecordExisting, RecordLoses, RecordNew,
                ReturnWinner, PayerStops, payVars, providerVars
  <2> QED BY <1>0, <2>1, FrameStep DEF reconVars
<1>2. CASE ReuseOpen(p) \/ ReuseTerminal(p) \/ CommitNew(p)
  <2>1. PICK x : pay' = [pay EXCEPT ![x] = "pending"] \/ pay' = [pay EXCEPT ![x] = "failed"]
    BY <1>2 DEF ReuseOpen, ReuseTerminal, CommitNew
  <2>2. UNCHANGED <<orderVars, intent, eventVars, reconVars>>
    BY <1>2 DEF ReuseOpen, ReuseTerminal, CommitNew, providerVars
  <2>3. /\ pay' \in [Intents -> PayStatus]
        /\ \A i \in Intents : (pay'[i] = "none" => pay[i] = "none") /\ (pay'[i] = "succeeded" => pay[i] = "succeeded")
    BY <1>0, <2>1 DEF PayStatus
  <2> QED BY <1>0, <2>2, <2>3, FrameStep DEF reconVars
<1>3. CASE CreateIntent(p)
  <2>1. PICK i \in Intents : intent' = [intent EXCEPT ![i] = IF @ = "absent" THEN "open" ELSE @]
    BY <1>3 DEF CreateIntent
  <2>2. UNCHANGED <<orderVars, pay, eventVars, reconVars>>
    BY <1>3 DEF CreateIntent, payVars
  <2>3. /\ intent' \in [Intents -> IntentStatus]
        /\ \A j \in Intents : intent'[j] = "succeeded" <=> intent[j] = "succeeded"
    BY <1>0, <2>1 DEF IntentStatus
  <2> QED BY <1>0, <2>2, <2>3, FrameStep DEF reconVars
<1>4. CASE CancelOrphan(p)
  <2>1. intent' = intent \/ intent' = [intent EXCEPT ![payer[p].got] = Canceled(@)]
    BY <1>4 DEF CancelOrphan
  <2>2. UNCHANGED <<orderVars, pay, eventVars, resolved>>
    BY <1>4 DEF CancelOrphan, payVars
  <2>3. recon' = recon \/ recon' = recon \cup {<<"cancel_uncertain", payer[p].got>>}
    BY <1>4 DEF CancelOrphan
  <2>4. /\ intent' \in [Intents -> IntentStatus]
        /\ \A j \in Intents : intent'[j] = "succeeded" <=> intent[j] = "succeeded"
    BY <1>0, <2>1 DEF IntentStatus, Canceled
  <2> QED BY <1>0, <2>2, <2>3, <2>4, FrameStep
<1> QED BY <1>1, <1>2, <1>3, <1>4 DEF PayerStep

\* cancel_order decides a pending order, together with the release of its stock.
LEMMA CancelInv == ASSUME Inv, NEW c \in Cancellers, CancelStep(c) PROVE Inv' /\ LedgerStep
<1> USE DEF Inv
<1>0. pay \in [Intents -> PayStatus] /\ intent \in [Intents -> IntentStatus]
  BY DEF Types
<1>1. CASE BeginCancel(c) \/ CancelStops(c)
  <2>1. UNCHANGED <<orderVars, pay, intent, eventVars, reconVars>>
    BY <1>1 DEF BeginCancel, CancelStops, payVars, providerVars
  <2> QED BY <1>0, <2>1, FrameStep DEF reconVars
<1>2. ASSUME NEW x \in Intents, AskCancel(c, x) PROVE Inv' /\ LedgerStep
  <2>1. intent' = intent \/ intent' = [intent EXCEPT ![x] = Canceled(@)]
    BY <1>2 DEF AskCancel
  <2>2. UNCHANGED <<orderVars, pay, eventVars, reconVars>>
    BY <1>2 DEF AskCancel, payVars
  <2>3. /\ intent' \in [Intents -> IntentStatus]
        /\ \A j \in Intents : intent'[j] = "succeeded" <=> intent[j] = "succeeded"
    BY <1>0, <2>1 DEF IntentStatus, Canceled
  <2> QED BY <1>0, <2>2, <2>3, FrameStep DEF reconVars
<1>3. CASE CancelReports(c)
  <2>1. UNCHANGED <<orderVars, pay, intent, eventVars, resolved>>
    BY <1>3 DEF CancelReports, payVars, providerVars
  <2>2. PICK k \in {"cancel_payment_succeeded", "cancel_uncertain"} : recon' = recon \cup {<<k, NoIntent>>}
    BY <1>3 DEF CancelReports
  <2> QED BY <1>0, <2>1, <2>2, FrameStep
<1>4. CASE CommitCancel(c)
  <2>1. /\ status = "pending" /\ status' = "cancelled" /\ restocks' = restocks + 1
        /\ UNCHANGED <<paidBy, mails, intent, eventVars, reconVars>>
    BY <1>4 DEF CommitCancel, providerVars
  <2>2. /\ pay' \in [Intents -> PayStatus]
        /\ \A i \in Intents : pay'[i] = "none" => pay[i] = "none"
    BY <1>0, <1>4 DEF CommitCancel, PayStatus
  <2>3. Types'
    BY <2>1, <2>2 DEF Types, eventVars
  <2>4. EventsAreBacked' /\ SeenRowsStay' /\ PendingIsUnpaid'
    BY <2>1, <2>2 DEF EventsAreBacked, SeenRowsStay, PendingIsUnpaid, eventVars
  <2>5. ClosedIsApplied' /\ MoneyAccounted'
    BY <2>1 DEF ClosedIsApplied, MoneyAccounted, Accounted, Applied, eventVars, reconVars
  <2>6. PaidIsBacked' /\ StockFollowsOrder' /\ OneConfirmation' /\ SucceededSettlesOrder'
    BY <2>1 DEF PaidIsBacked, StockFollowsOrder, OneConfirmation, SucceededSettlesOrder, Types
  <2>7. LedgerStep
    BY <2>1 DEF LedgerStep, Ledger!Next, Ledger!Cancel, reconVars
  <2> QED BY <2>3, <2>4, <2>5, <2>6, <2>7
<1> QED BY <1>1, <1>2, <1>3, <1>4 DEF CancelStep

\* The provider: a capture is the only source of a success event.
LEMMA ProviderInv == ASSUME Inv, NEW x \in Intents, ProviderStep(x) PROVE Inv' /\ LedgerStep
<1> USE DEF Inv
<1>0. pay \in [Intents -> PayStatus] /\ intent \in [Intents -> IntentStatus]
  BY DEF Types
<1>1. CASE Submit(x)
  <2>1. UNCHANGED <<orderVars, pay, eventVars, reconVars>>
    BY <1>1 DEF Submit, payVars
  <2>2. /\ intent' \in [Intents -> IntentStatus]
        /\ \A j \in Intents : intent'[j] = "succeeded" <=> intent[j] = "succeeded"
    BY <1>0, <1>1 DEF IntentStatus, Submit
  <2> QED BY <1>0, <2>1, <2>2, FrameStep DEF reconVars
<1>2. CASE Capture(x) \/ Decline(x)
  <2>1. UNCHANGED <<orderVars, pay, seen, dfr, lost, reconVars>>
    BY <1>2 DEF Capture, Decline, payVars
  <2>2. /\ intent' \in [Intents -> IntentStatus]
        /\ \A j \in Intents : j # x => intent'[j] = intent[j]
        /\ intent[x] # "succeeded"
        /\ intent'[x] = IF Capture(x) THEN "succeeded" ELSE "open"
    BY <1>0, <1>2 DEF IntentStatus, Capture, Decline
  <2>3. /\ evt' \in [Events -> [Intents -> {"none", "sent", "failed", "done"}]]
        /\ \A j \in Intents : j # x => evt'["succeeded"][j] = evt["succeeded"][j]
        /\ evt'["succeeded"][x] = IF Capture(x) THEN "sent" ELSE evt["succeeded"][x]
    BY <1>2 DEF Types, Events, Capture, Decline
  <2>4. Types'
    BY <2>1, <2>2, <2>3 DEF Types, orderVars
  <2>5. EventsAreBacked' /\ SeenRowsStay' /\ PendingIsUnpaid'
    BY <2>1, <2>2, <2>3 DEF EventsAreBacked, SeenRowsStay, PendingIsUnpaid, orderVars
  <2>6. ClosedIsApplied' /\ MoneyAccounted'
    BY <2>1, <2>2, <2>3 DEF ClosedIsApplied, MoneyAccounted, Accounted, Applied, orderVars, reconVars
  <2>7. PaidIsBacked' /\ StockFollowsOrder' /\ OneConfirmation' /\ SucceededSettlesOrder'
    BY <2>1, <2>2 DEF PaidIsBacked, StockFollowsOrder, OneConfirmation, SucceededSettlesOrder, orderVars
  <2>8. LedgerStep
    BY <2>1, <2>2 DEF LedgerStep, Ledger!Next, Ledger!Capture, Ledger!ledger, orderVars, reconVars
  <2> QED BY <2>4, <2>5, <2>6, <2>7, <2>8
<1> QED BY <1>1, <1>2 DEF ProviderStep

\* What the end of an event's transaction does to the event tables, whatever its handler.
LEMMA EventEnds ==
    ASSUME Types, NEW h \in Handlers, NEW x \in Intents, seen' = [seen EXCEPT ![h][x] = "idle"]
    PROVE  /\ seen' \in [Handlers -> [Intents -> PayStatus \cup {"idle"}]]
           /\ seen'[h][x] = "idle"
           /\ \A g \in Handlers, j \in Intents : seen'[g][j] # "idle" => seen'[g][j] = seen[g][j]
BY DEF Types

\* _handle_payment_succeeded for a known payment: credited, late or mismatched.
LEMMA SucceededInv ==
    ASSUME Inv, NEW h \in Handlers, NEW x \in Intents, PaymentSucceeded(h, x) \/ PaymentMismatch(h, x)
    PROVE  Inv' /\ LedgerStep
<1> USE DEF Inv
<1>1. /\ h \in Good /\ seen[h][x] \notin {"idle", "none"}
      /\ seen' = [seen EXCEPT ![h][x] = "idle"] /\ UNCHANGED <<intent, lost>>
      /\ FinishEvent(h, x)
  BY DEF PaymentSucceeded, PaymentMismatch, FinishEvent, Good, providerVars
<1>2. intent[x] = "succeeded" /\ pay[x] # "none"
  BY <1>1 DEF EventsAreBacked, SeenRowsStay
<1>3. /\ evt' \in [Events -> [Intents -> {"none", "sent", "failed", "done"}]]
      /\ \A j \in Intents : j # x => evt'["succeeded"][j] = evt["succeeded"][j]
  BY <1>1 DEF FinishEvent, Types, Events, Handlers
<1>4. /\ dfr' \in [Intents -> {"none", "pending", "recovered", "expired"}]
      /\ \A j \in Intents : j # x => dfr'[j] = dfr[j]
      /\ \A j \in Intents : j # x => (<<"unmatched_payment", j>> \in resolved' <=> <<"unmatched_payment", j>> \in resolved)
  BY <1>1 DEF FinishEvent, Types
<1>5. /\ seen' \in [Handlers -> [Intents -> PayStatus \cup {"idle"}]]
      /\ \A g \in Handlers, j \in Intents : seen'[g][j] # "idle" => seen'[g][j] = seen[g][j]
  BY <1>1, EventEnds
<1>6. /\ pay' \in [Intents -> PayStatus]
      /\ \A j \in Intents : j # x => pay'[j] = pay[j]
      /\ pay'[x] # "none"
      /\ pay'[x] = pay[x] \/ x \notin Mismatched
  BY <1>2 DEF PaymentSucceeded, PaymentMismatch, payVars, Types, PayStatus
<1>7. Good \subseteq Handlers
  BY DEF Good, Handlers, Events
<1>8. EventsAreBacked' /\ SeenRowsStay'
  BY <1>1, <1>2, <1>3, <1>4, <1>5, <1>6, <1>7 DEF EventsAreBacked, SeenRowsStay
\* The three outcomes.
<1>9. \/ /\ status = "pending" /\ status' = "paid" /\ paidBy' = x /\ mails' = mails + 1
         /\ x \notin Mismatched /\ UNCHANGED <<restocks, recon>>
      \/ /\ UNCHANGED orderVars
         /\ \/ recon' = recon \cup {<<"late_payment", x>>} /\ status # "pending"
            \/ recon' = recon \cup {<<"amount_mismatch", x>>} /\ pay' = pay
  BY DEF PaymentSucceeded, PaymentMismatch, MarkPaid, LatePayment, payVars
<1>10. Types'
  BY <1>1, <1>3, <1>4, <1>5, <1>6, <1>9 DEF Types, orderVars
<1>11. Applied(x)' /\ \A j \in Intents : Applied(j) => Applied(j)'
  BY <1>9 DEF Applied, PendingIsUnpaid, orderVars
<1>12. ClosedIsApplied' /\ PendingIsUnpaid'
  BY <1>4, <1>9, <1>11 DEF ClosedIsApplied, PendingIsUnpaid, orderVars
<1>13. MoneyAccounted'
  <2>1. \A j \in Intents : <<"unmatched_payment", j>> \in recon => <<"unmatched_payment", j>> \in recon'
    BY <1>9
  <2> QED BY <1>1, <1>3, <1>4, <1>11, <2>1 DEF MoneyAccounted, Accounted, Applied
<1>14. PaidIsBacked'
  BY <1>1, <1>2, <1>6, <1>9 DEF PaidIsBacked, orderVars, Types
<1>15. StockFollowsOrder' /\ OneConfirmation'
  BY <1>9 DEF StockFollowsOrder, OneConfirmation, orderVars, Types
<1>16. SucceededSettlesOrder'
  BY <1>6, <1>9 DEF SucceededSettlesOrder, orderVars
<1>17. LedgerStep
  BY <1>1, <1>2, <1>9 DEF LedgerStep, Ledger!Next, Ledger!Confirm, Ledger!Report, Ledger!ledger, orderVars
<1> QED BY <1>8, <1>10, <1>12, <1>13, <1>14, <1>15, <1>16, <1>17

\* Claims, failures and events that do not credit: the order and its records stay, but
\* for the unmatched_payment record that a deferral opens.
LEMMA OtherEventInv ==
    ASSUME Inv, NEW h \in Handlers, NEW x \in Intents,
           \/ ClaimEvent(h, x) \/ HandlerFails(h, x) \/ AckLost(h, x)
           \/ PaymentUnmatched(x) \/ DeferredMissing(x) \/ PaymentFailed(x)
    PROVE  Inv' /\ LedgerStep
<1> USE DEF Inv
<1>0. Good \subseteq Handlers
  BY DEF Good, Handlers, Events
<1>1. ASSUME UNCHANGED <<orderVars, intent, resolved>>, Types', EventsAreBacked',
             \A j \in Intents : pay'[j] = "none" <=> pay[j] = "none",
             \A j \in Intents : pay'[j] = "succeeded" => pay[j] = "succeeded",
             \A g \in Handlers, j \in Intents : seen'[g][j] \notin {"idle", "none"} => pay[j] # "none",
             recon' = recon \/ (recon' = recon \cup {<<"unmatched_payment", x>>} /\ intent[x] = "succeeded"),
             lost' = 0 => lost = 0 /\ \A j \in Intents :
                 evt'["succeeded"][j] = "done" => evt["succeeded"][j] = "done" \/ <<"unmatched_payment", j>> \in recon'
      PROVE  Inv' /\ LedgerStep
  <2>1. SeenRowsStay' /\ PendingIsUnpaid' /\ StockFollowsOrder' /\ OneConfirmation'
    BY <1>1 DEF SeenRowsStay, PendingIsUnpaid, StockFollowsOrder, OneConfirmation, orderVars
  <2>2. PaidIsBacked' /\ SucceededSettlesOrder'
    BY <1>1 DEF PaidIsBacked, SucceededSettlesOrder, orderVars
  <2>3. ClosedIsApplied'
    BY <1>1 DEF ClosedIsApplied, Applied, orderVars
  <2>4. MoneyAccounted'
    BY <1>1 DEF MoneyAccounted, Accounted, ClosedIsApplied, Applied, orderVars
  <2>5. LedgerStep
    BY <1>1 DEF LedgerStep, Ledger!Next, Ledger!Report, Ledger!ledger, orderVars
  <2> QED BY <1>1, <2>1, <2>2, <2>3, <2>4, <2>5
<1>2. CASE ClaimEvent(h, x)
  <2>1. UNCHANGED <<orderVars, pay, intent, evt, dfr, lost, reconVars>>
    BY <1>2 DEF ClaimEvent, payVars, providerVars
  <2>2. /\ seen' \in [Handlers -> [Intents -> PayStatus \cup {"idle"}]]
        /\ \A g \in Handlers, j \in Intents : seen'[g][j] = IF g = h /\ j = x THEN pay[x] ELSE seen[g][j]
    BY <1>2 DEF ClaimEvent, Types
  <2>3. Types'
    BY <2>1, <2>2 DEF Types, orderVars
  <2>4. h \in Good => intent[x] = "succeeded"
    BY <1>2 DEF ClaimEvent, Claimable, EventsAreBacked, Good
  <2>5. EventsAreBacked'
    BY <1>0, <2>1, <2>2, <2>4 DEF EventsAreBacked
  <2>6. \A g \in Handlers, j \in Intents : seen'[g][j] \notin {"idle", "none"} => pay[j] # "none"
    BY <1>0, <2>2 DEF SeenRowsStay
  <2> QED BY <1>1, <2>1, <2>3, <2>5, <2>6 DEF reconVars
<1>3. ASSUME NEW g \in Handlers, seen' = [seen EXCEPT ![g][x] = "idle"], UNCHANGED <<orderVars, intent, resolved>>,
             lost' \in Nat, pay' \in [Intents -> PayStatus],
             \A j \in Intents : pay'[j] = "none" <=> pay[j] = "none",
             \A j \in Intents : pay'[j] = "succeeded" => pay[j] = "succeeded",
             evt' \in [Events -> [Intents -> {"none", "sent", "failed", "done"}]],
             dfr' \in [Intents -> {"none", "pending", "recovered", "expired"}],
             \A j \in Intents : intent[j] = "succeeded" \/ (evt'["succeeded"][j] = "none" /\ dfr'[j] = "none"),
             recon' = recon \/ (recon' = recon \cup {<<"unmatched_payment", x>>} /\ intent[x] = "succeeded"),
             lost' = 0 => lost = 0 /\ \A j \in Intents :
                 evt'["succeeded"][j] = "done" => evt["succeeded"][j] = "done" \/ <<"unmatched_payment", j>> \in recon'
      PROVE  Inv' /\ LedgerStep
  <2>1. /\ seen' \in [Handlers -> [Intents -> PayStatus \cup {"idle"}]]
        /\ \A f \in Handlers, j \in Intents : seen'[f][j] # "idle" => seen'[f][j] = seen[f][j]
    BY <1>3, EventEnds
  <2>2. Types'
    BY <1>3, <2>1 DEF Types, orderVars
  <2>3. EventsAreBacked'
    BY <1>0, <1>3, <2>1 DEF EventsAreBacked
  <2>4. \A f \in Handlers, j \in Intents : seen'[f][j] \notin {"idle", "none"} => pay[j] # "none"
    BY <1>0, <2>1 DEF SeenRowsStay
  <2> QED BY <1>1, <1>3, <2>2, <2>3, <2>4
<1>4. \A j \in Intents : intent[j] = "succeeded" \/ (evt["succeeded"][j] = "none" /\ dfr[j] = "none")
  BY DEF EventsAreBacked
<1>5. /\ lost \in Nat /\ pay \in [Intents -> PayStatus]
      /\ evt \in [Events -> [Intents -> {"none", "sent", "failed", "done"}]]
      /\ dfr \in [Intents -> {"none", "pending", "recovered", "expired"}]
  BY DEF Types
<1>6. CASE HandlerFails(h, x)
  <2>1. /\ seen' = [seen EXCEPT ![h][x] = "idle"] /\ UNCHANGED <<orderVars, intent, pay, lost, reconVars>>
        /\ seen[h][x] # "idle"
    BY <1>6 DEF HandlerFails, payVars, providerVars
  <2>2. /\ evt' \in [Events -> [Intents -> {"none", "sent", "failed", "done"}]]
        /\ \A j \in Intents : /\ evt'["succeeded"][j] = evt["succeeded"][j]
                                \/ (h = "succeeded" /\ j = x /\ evt'["succeeded"][j] = "failed")
    BY <1>5, <1>6 DEF HandlerFails, Handlers, Events
  <2>3. /\ dfr' \in [Intents -> {"none", "pending", "recovered", "expired"}]
        /\ \A j \in Intents : dfr'[j] = dfr[j] \/ (h = "deferred" /\ j = x)
    BY <1>5, <1>6 DEF HandlerFails
  <2>4. h \in Good => intent[x] = "succeeded"
    BY <2>1 DEF EventsAreBacked
  <2> QED BY <1>3, <1>4, <1>5, <2>1, <2>2, <2>3, <2>4 DEF Good, reconVars
<1>7. CASE AckLost(h, x)
  <2>1. /\ seen' = [seen EXCEPT ![h][x] = "idle"] /\ UNCHANGED <<orderVars, intent, pay, dfr, reconVars>>
        /\ seen[h][x] # "idle" /\ lost' = lost + 1 /\ h \in Events
    BY <1>7 DEF AckLost, payVars, providerVars
  <2>2. /\ evt' \in [Events -> [Intents -> {"none", "sent", "failed", "done"}]]
        /\ \A j \in Intents : evt'["succeeded"][j] = evt["succeeded"][j] \/ (h = "succeeded" /\ j = x)
    BY <1>5, <1>7 DEF AckLost, Events
  <2>3. h \in Good => intent[x] = "succeeded"
    BY <2>1 DEF EventsAreBacked
  <2>4. lost' \in Nat /\ lost' # 0
    BY <1>5, <2>1
  <2> QED BY <1>3, <1>4, <1>5, <2>1, <2>2, <2>3, <2>4 DEF Good, reconVars
<1>8. CASE PaymentUnmatched(x)
  <2>1. /\ seen' = [seen EXCEPT !["succeeded"][x] = "idle"] /\ UNCHANGED <<orderVars, intent, pay, lost, resolved>>
        /\ seen["succeeded"][x] # "idle" /\ recon' = recon \cup {<<"unmatched_payment", x>>}
    BY <1>8 DEF PaymentUnmatched, payVars, providerVars
  <2>2. /\ evt' \in [Events -> [Intents -> {"none", "sent", "failed", "done"}]]
        /\ \A j \in Intents : evt'["succeeded"][j] = evt["succeeded"][j] \/ j = x
        /\ dfr' \in [Intents -> {"none", "pending", "recovered", "expired"}]
        /\ \A j \in Intents : dfr'[j] = dfr[j] \/ j = x
    BY <1>5, <1>8 DEF PaymentUnmatched, Events
  <2>3. intent[x] = "succeeded" /\ "succeeded" \in Handlers
    BY <2>1 DEF EventsAreBacked, Good, Handlers, Events
  <2> QED BY <1>3, <1>4, <1>5, <2>1, <2>2, <2>3
<1>9. CASE DeferredMissing(x)
  <2>1. /\ seen' = [seen EXCEPT !["deferred"][x] = "idle"] /\ UNCHANGED <<orderVars, intent, pay, evt, lost, reconVars>>
        /\ seen["deferred"][x] # "idle"
    BY <1>9 DEF DeferredMissing, payVars, providerVars
  <2>2. /\ dfr' \in [Intents -> {"none", "pending", "recovered", "expired"}]
        /\ \A j \in Intents : dfr'[j] = dfr[j] \/ j = x
    BY <1>5, <1>9 DEF DeferredMissing
  <2>3. intent[x] = "succeeded" /\ "deferred" \in Handlers
    BY <2>1 DEF EventsAreBacked, Good, Handlers
  <2> QED BY <1>3, <1>4, <1>5, <2>1, <2>2, <2>3 DEF reconVars
<1>10. CASE PaymentFailed(x)
  <2>1. "failed" \in Handlers
    BY DEF Handlers, Events
  <2>2. /\ seen' = [seen EXCEPT !["failed"][x] = "idle"] /\ UNCHANGED <<orderVars, intent, dfr, lost, reconVars>>
        /\ evt' = [evt EXCEPT !["failed"][x] = "done"]
    BY <1>10 DEF PaymentFailed, FinishEvent, providerVars, reconVars
  <2>3. /\ evt' \in [Events -> [Intents -> {"none", "sent", "failed", "done"}]]
        /\ \A j \in Intents : evt'["succeeded"][j] = evt["succeeded"][j]
    BY <1>5, <2>2 DEF Events
  <2>4. /\ pay' \in [Intents -> PayStatus]
        /\ \A j \in Intents : pay'[j] = "succeeded" => pay[j] = "succeeded"
        /\ \A j \in Intents : pay'[j] = "none" <=> pay[j] = "none"
    <3>1. seen["failed"][x] \notin {"idle", "none"} => pay[x] # "none"
      BY <2>1 DEF SeenRowsStay
    <3>2. pay' = pay \/ (pay' = [pay EXCEPT ![x] = "failed"] /\ seen["failed"][x] \notin {"idle", "none"})
      BY <1>10 DEF PaymentFailed
    <3> QED BY <1>5, <3>1, <3>2 DEF PayStatus
  <2>5. /\ \A j \in Intents : intent[j] = "succeeded" \/ (evt'["succeeded"][j] = "none" /\ dfr'[j] = "none")
        /\ \A j \in Intents : evt'["succeeded"][j] = "done" => evt["succeeded"][j] = "done"
        /\ dfr' \in [Intents -> {"none", "pending", "recovered", "expired"}]
        /\ UNCHANGED <<orderVars, intent, resolved, recon, lost>>
    BY <1>4, <1>5, <2>2, <2>3 DEF reconVars
  <2>6. seen' = [seen EXCEPT !["failed"][x] = "idle"]
    BY <2>2
  <2> QED BY <1>3, <1>5, <2>1, <2>3, <2>4, <2>5, <2>6
<1> QED BY <1>2, <1>6, <1>7, <1>8, <1>9, <1>10

\* Every step preserves the invariant and is a step of the ledger or invisible to it.
LEMMA StepInv == Inv /\ [Next]_vars => Inv' /\ LedgerStep
<1> SUFFICES ASSUME Inv, [Next]_vars PROVE Inv' /\ LedgerStep
  OBVIOUS
<1>1. ASSUME NEW x \in Intents, EventStep(x) PROVE Inv' /\ LedgerStep
  <2>1. "failed" \in Handlers
    BY DEF Handlers, Events
  <2> QED BY <1>1, <2>1, SucceededInv, OtherEventInv DEF EventStep, ApplyEvent
<1>2. CASE UNCHANGED vars
  <2>1. UNCHANGED <<orderVars, pay, intent, eventVars, reconVars>>
    BY <1>2 DEF vars, payVars, providerVars
  <2> QED BY <2>1, FrameStep DEF Inv, Types, reconVars
<1> QED BY <1>1, <1>2, PayerInv, ProviderInv, CancelInv DEF Next

\* The inductive invariant holds throughout.
THEOREM OrderInvariant == Spec => []Inv
BY InitInv, StepInv, PTL DEF Spec

\* No acknowledged payment is lost: what _handle_payment_succeeded, the deferred events
\* and late payments together guarantee.
THEOREM AcknowledgedMoney == Spec => []MoneyAccounted
BY OrderInvariant, PTL DEF Inv

\* An order is paid only by a captured payment that passed _event_matches_payment.
THEOREM PaidOrders == Spec => []PaidIsBacked
BY OrderInvariant, PTL DEF Inv

\* Stock is released exactly once for exactly the cancelled orders (cancel_order phase 3),
\* exactly one confirmation email job is enqueued for exactly the paid ones, and a payment
\* recorded as succeeded has settled its order (cancel_order relies on it).
THEOREM DecidedOnce == Spec => []DecisionCarriedOut
BY OrderInvariant, PTL DEF Inv, DecisionCarriedOut

\* Payers, webhooks, jobs and cancellations together implement the abstract ledger of
\* the order.
THEOREM LedgerRefinement == Spec => ImplementsLedger
<1>1. Init => Ledger!Init
  BY InitInv
<1>2. Inv /\ [Next]_vars => [Ledger!Next]_(Ledger!ledger)
  BY StepInv DEF LedgerStep
<1> QED BY <1>1, <1>2, OrderInvariant, PTL DEF Spec, ImplementsLedger, Ledger!Spec

-----------------------------------------------------------------------------
(* One way to pay: what the requests that start a payment remember between *)
(* their transactions, and what the idempotency keys ensure.               *)

PayerRows ==
    [pc : {"idle", "retrieve", "relock", "create", "record", "commit", "orphan", "loser", "winner"},
     key : Nat, reuse : Intents \cup {NoIntent}, st : IntentStatus, got : Intents \cup {NoIntent}]
CancellerRows ==
    [pc : {"idle", "ask"}, todo : SUBSET Intents, uncertain : BOOLEAN, completed : BOOLEAN, snap : [Intents -> PayStatus]]

\* The intents that the provider has made.
Known == {i \in Intents : intent[i] # "absent"}

\* The row that a request has chosen is there, and so is the intent it was given.
Chosen(r) ==
    /\ r.pc \in {"retrieve", "relock", "loser", "winner"} => r.reuse \in Rows
    /\ r.pc \in {"record", "commit", "orphan", "loser"} => r.got \in Known

\* A payment row has an intent, and a row that somebody has read stays.
PayersType ==
    /\ key \in [Intents -> Nat] /\ made \in [Intents -> Nat] /\ handed \subseteq Intents /\ Rows \subseteq Known
    /\ payer \in [Payers -> PayerRows] /\ \A p \in Payers : Chosen(payer[p])
    /\ canceller \in [Cancellers -> CancellerRows]
    /\ \A c \in Cancellers, i \in Intents : canceller[c].snap[i] # "none" => i \in Rows

\* A row is inserted by one request at a time, when no row is pending.
InsertsAlone ==
    /\ \A i, j \in Intents : pay[i] = "pending" /\ pay[j] = "pending" => i = j
    /\ \A p \in Payers : payer[p].pc = "commit" =>
          /\ payer[p].got \notin Rows /\ \A j \in Intents : pay[j] # "pending"
          /\ \A q \in Payers : payer[q].pc = "commit" => q = p

\* The rows are numbered in the order they were made.
RowsCount ==
    /\ \A i \in Rows : made[i] \in 1 .. Cardinality(Rows)
    /\ \A k \in 1 .. Cardinality(Rows) : \E i \in Rows : made[i] = k

\* A provider that answers a repeated key with the same intent: no two intents have one key, the rows have the keys below
\* their number, in the order they were made, and another intent that is known has the next.
KeysCount ==
    /\ \A i, j \in Known : key[i] = key[j] => i = j
    /\ \A i \in Known : key[i] <= Cardinality(Rows)
    /\ \A i \in Rows : made[i] = key[i] + 1

\* Every intent made with an earlier key is done with.
Over(k) == \A j \in Known : key[j] < k => intent[j] \notin OpenIntent
EarlierAreOver == \A i \in Known : Over(key[i])

\* A request moves on to the next key only when the intent before is cancelled.
MovesOn(r) ==
    /\ r.key <= Cardinality(Rows)
    /\ r.pc \in {"create", "record", "commit"} => Over(r.key)
    /\ r.pc \in {"record", "commit"} => key[r.got] = r.key
    /\ r.pc \in {"retrieve", "relock"} => r.key = key[r.reuse] + 1
    /\ r.pc = "relock" /\ r.st = "canceled" => intent[r.reuse] = "canceled"

WaysInv ==
    /\ PayersType /\ InsertsAlone /\ RowsCount
    /\ provider = "stripe" => KeysCount /\ EarlierAreOver /\ \A p \in Payers : MovesOn(payer[p])

\* The number of payment rows is a number.
LEMMA RowsCounted == IsFiniteSet(Rows) /\ Cardinality(Rows) \in Nat
  BY IntentsAssumption, FS_Subset, FS_CardinalityType DEF Rows

\* A request that has not begun, or has ended, holds nothing.
LEMMA IdleRequest == IdlePayer \in PayerRows /\ IdlePayer.pc = "idle" /\ Chosen(IdlePayer) /\ MovesOn(IdlePayer)
<1>1. IdlePayer \in PayerRows /\ IdlePayer.pc = "idle" /\ IdlePayer.key = 0
  BY DEF IdlePayer, PayerRows, IntentStatus
<1> QED BY <1>1, RowsCounted DEF Chosen, MovesOn

\* At first there is nothing.
LEMMA WaysInit == Init => WaysInv
<1> SUFFICES ASSUME Init PROVE WaysInv
  OBVIOUS
<1>1. Rows = {} /\ Known = {}
  BY DEF Init, Rows, Known
<1>2. IdleCanceller \in CancellerRows /\ \A i \in Intents : IdleCanceller.snap[i] = "none"
  BY DEF IdleCanceller, CancellerRows, PayStatus
<1>3. PayersType
  BY <1>1, <1>2, IdleRequest DEF Init, PayersType
<1>4. InsertsAlone
  BY IdleRequest DEF Init, InsertsAlone
<1>5. Cardinality(Rows) = 0
  BY <1>1, FS_EmptySet
<1>6. RowsCount /\ KeysCount /\ EarlierAreOver
  BY <1>1, <1>5 DEF RowsCount, KeysCount, EarlierAreOver
<1> QED BY <1>3, <1>4, <1>6, IdleRequest DEF WaysInv, Init

\* A step that makes no intent and no row, and opens none again, leaves keys and requests as they were.
LEMMA KeysStay ==
    ASSUME UNCHANGED <<made, key>>, Rows' = Rows, Known' = Known, Rows \subseteq Known,
           \A i \in Intents : intent'[i] \in OpenIntent => intent[i] \in OpenIntent,
           \A i \in Intents : intent[i] = "canceled" => intent'[i] = "canceled"
    PROVE  /\ RowsCount => RowsCount'
           /\ KeysCount => KeysCount'
           /\ \A k : Over(k) => Over(k)'
           /\ EarlierAreOver => EarlierAreOver'
           /\ \A r : Chosen(r) => Chosen(r)'
           /\ \A r : Chosen(r) /\ MovesOn(r) => MovesOn(r)'
<1>0. Known \subseteq Intents /\ Rows \subseteq Intents
  BY DEF Known, Rows
<1>1. (RowsCount => RowsCount') /\ (KeysCount => KeysCount')
  BY DEF RowsCount, KeysCount
<1>2. \A k : Over(k) => Over(k)'
  BY <1>0 DEF Over
<1>3. EarlierAreOver => EarlierAreOver'
  BY <1>2 DEF EarlierAreOver
<1>4. \A r : Chosen(r) => Chosen(r)'
  BY DEF Chosen
<1>5. \A r : Chosen(r) /\ MovesOn(r) => MovesOn(r)'
  BY <1>0, <1>2 DEF MovesOn, Chosen
<1> QED BY <1>1, <1>2, <1>3, <1>4, <1>5

\* A step of the provider, of a webhook or of a cancellation leaves the ways to pay as they were.
LEMMA OthersKeep ==
    ASSUME Inv, WaysInv, UNCHANGED <<made, provider, key, handed, payer>>, Rows' = Rows, Known' = Known,
           \A i \in Intents : pay'[i] = "pending" => pay[i] = "pending",
           \A i \in Intents : intent'[i] \in OpenIntent => intent[i] \in OpenIntent,
           \A i \in Intents : intent[i] = "canceled" => intent'[i] = "canceled",
           canceller' \in [Cancellers -> CancellerRows],
           \A c \in Cancellers, i \in Intents : canceller'[c].snap[i] # "none" => i \in Rows
    PROVE  WaysInv'
<1>1. PayersType /\ InsertsAlone /\ Rows \subseteq Known
  BY DEF WaysInv, PayersType
<1>2. /\ RowsCount => RowsCount'
      /\ KeysCount => KeysCount'
      /\ EarlierAreOver => EarlierAreOver'
      /\ \A r : Chosen(r) => Chosen(r)'
      /\ \A r : Chosen(r) /\ MovesOn(r) => MovesOn(r)'
  BY <1>1, KeysStay
<1>3. PayersType'
  BY <1>1, <1>2 DEF PayersType
<1>4. InsertsAlone'
  BY <1>1 DEF InsertsAlone
<1>5. provider = "stripe" => \A p \in Payers : MovesOn(payer[p])'
  BY <1>1, <1>2 DEF WaysInv, PayersType
<1> QED BY <1>2, <1>3, <1>4, <1>5 DEF WaysInv

\* A step of a request that makes no intent and no row.
LEMMA RequestKeeps ==
    ASSUME Inv, WaysInv, NEW p \in Payers, NEW x \in PayerRows, payer' = [payer EXCEPT ![p] = x],
           UNCHANGED <<made, provider, key, canceller>>, handed' \subseteq Intents, Rows' = Rows, Known' = Known,
           \A i \in Intents : intent'[i] \in OpenIntent => intent[i] \in OpenIntent,
           \A i \in Intents : intent[i] = "canceled" => intent'[i] = "canceled",
           Chosen(x), provider = "stripe" => MovesOn(x), InsertsAlone'
    PROVE  WaysInv'
<1>1. PayersType /\ Rows \subseteq Known
  BY DEF WaysInv, PayersType
<1>2. /\ RowsCount => RowsCount'
      /\ KeysCount => KeysCount'
      /\ EarlierAreOver => EarlierAreOver'
      /\ \A r : Chosen(r) => Chosen(r)'
      /\ \A r : Chosen(r) /\ MovesOn(r) => MovesOn(r)'
  BY <1>1, KeysStay
<1>3. payer' \in [Payers -> PayerRows] /\ \A q \in Payers : payer'[q] = IF q = p THEN x ELSE payer[q]
  BY <1>1 DEF PayersType
<1>4. PayersType'
  BY <1>1, <1>2, <1>3 DEF PayersType
<1>5. provider = "stripe" => \A q \in Payers : MovesOn(payer[q])'
  <2>1. ASSUME provider = "stripe", NEW q \in Payers PROVE MovesOn(payer[q])'
    <3>1. PICK r : r = payer'[q]
      OBVIOUS
    <3>2. Chosen(r) /\ MovesOn(r)
      BY <1>1, <1>3, <2>1, <3>1 DEF PayersType, WaysInv
    <3>3. MovesOn(r)'
      BY <1>2, <3>2
    <3> QED BY <3>1, <3>3 DEF MovesOn, Over
  <2> QED BY <2>1
<1> QED BY <1>2, <1>4, <1>5 DEF WaysInv

\* The provider moves intents that are open.
LEMMA ProviderWays == ASSUME Inv, WaysInv, NEW x \in Intents, ProviderStep(x) PROVE WaysInv'
<1>1. intent \in [Intents -> IntentStatus] /\ UNCHANGED <<pay, made, provider, key, handed, payer, canceller>> /\ intent[x] \in OpenIntent
  BY DEF Inv, Types, ProviderStep, Submit, Capture, Decline, payVars, OpenIntent
<1>2. PICK s \in {"open", "processing", "succeeded"} : intent' = [intent EXCEPT ![x] = s]
  BY DEF ProviderStep, Submit, Capture, Decline
<1>3. /\ \A i \in Intents : intent'[i] \in OpenIntent => intent[i] \in OpenIntent
      /\ \A i \in Intents : intent[i] = "canceled" => intent'[i] = "canceled"
      /\ \A i \in Intents : intent'[i] = "absent" <=> intent[i] = "absent"
  BY <1>1, <1>2 DEF OpenIntent
<1>4. Rows' = Rows /\ Known' = Known
  BY <1>1, <1>3 DEF Rows, Known
<1>5. canceller \in [Cancellers -> CancellerRows] /\ \A c \in Cancellers, i \in Intents : canceller[c].snap[i] # "none" => i \in Rows
  BY DEF WaysInv, PayersType
<1> QED BY <1>1, <1>3, <1>4, <1>5, OthersKeep

\* Events write the status of rows that are there, and make none pending.
LEMMA EventWays == ASSUME Inv, WaysInv, NEW x \in Intents, EventStep(x) PROVE WaysInv'
<1>1. UNCHANGED <<made, provider, intent, key, handed, payer, canceller>>
  BY DEF EventStep, ApplyEvent, ClaimEvent, HandlerFails, AckLost, PaymentSucceeded, PaymentMismatch, PaymentUnmatched, DeferredMissing,
         PaymentFailed, payVars, providerVars
<1>2. pay' = pay \/ (pay[x] # "none" /\ \E s \in {"succeeded", "failed"} : pay' = [pay EXCEPT ![x] = s])
  <2>1. ASSUME NEW h \in Handlers, PaymentSucceeded(h, x) PROVE pay' = pay \/ (pay[x] # "none" /\ pay' = [pay EXCEPT ![x] = "succeeded"])
    BY <2>1 DEF PaymentSucceeded, Inv, SeenRowsStay
  <2>2. CASE PaymentFailed(x)
    <3>1. pay' = pay \/ (seen["failed"][x] \notin {"idle", "none"} /\ pay' = [pay EXCEPT ![x] = "failed"])
      BY <2>2 DEF PaymentFailed
    <3>2. seen["failed"][x] \notin {"idle", "none"} => pay[x] # "none"
      BY DEF Inv, SeenRowsStay, Handlers, Events
    <3> QED BY <3>1, <3>2
  <2>3. CASE \/ \E h \in Handlers : ClaimEvent(h, x) \/ HandlerFails(h, x) \/ AckLost(h, x) \/ PaymentMismatch(h, x)
             \/ PaymentUnmatched(x) \/ DeferredMissing(x)
    BY <2>3 DEF ClaimEvent, HandlerFails, AckLost, PaymentMismatch, PaymentUnmatched, DeferredMissing, payVars
  <2> QED BY <2>1, <2>2, <2>3 DEF EventStep, ApplyEvent
<1>3. pay \in [Intents -> PayStatus]
  BY DEF Inv, Types
<1>4. (\A i \in Intents : pay'[i] = "pending" => pay[i] = "pending") /\ \A i \in Intents : pay'[i] = "none" <=> pay[i] = "none"
  BY <1>2, <1>3
<1>5. Rows' = Rows /\ Known' = Known
  BY <1>1, <1>4 DEF Rows, Known
<1>6. canceller \in [Cancellers -> CancellerRows] /\ \A c \in Cancellers, i \in Intents : canceller[c].snap[i] # "none" => i \in Rows
  BY DEF WaysInv, PayersType
<1> QED BY <1>1, <1>4, <1>5, <1>6, OthersKeep

\* Cancellations close intents and fail rows that they have read.
LEMMA CancelWays == ASSUME Inv, WaysInv, NEW c \in Cancellers, CancelStep(c) PROVE WaysInv'
<1>1. /\ pay \in [Intents -> PayStatus] /\ intent \in [Intents -> IntentStatus] /\ canceller \in [Cancellers -> CancellerRows]
      /\ \A d \in Cancellers, i \in Intents : canceller[d].snap[i] # "none" => i \in Rows
  BY DEF Inv, Types, WaysInv, PayersType
<1>2. UNCHANGED <<made, provider, key, handed, payer>>
  BY DEF CancelStep, BeginCancel, AskCancel, CancelReports, CommitCancel, CancelStops, payVars, providerVars
<1>3. intent' = intent \/ \E i \in Intents : intent' = [intent EXCEPT ![i] = Canceled(@)]
  BY DEF CancelStep, BeginCancel, AskCancel, CancelReports, CommitCancel, CancelStops, providerVars
<1>4. /\ \A i \in Intents : intent'[i] \in OpenIntent => intent[i] \in OpenIntent
      /\ \A i \in Intents : intent[i] = "canceled" => intent'[i] = "canceled"
      /\ \A i \in Intents : intent'[i] = "absent" <=> intent[i] = "absent"
  BY <1>1, <1>3 DEF OpenIntent, Canceled
<1>5. (\A i \in Intents : pay'[i] = "pending" => pay[i] = "pending") /\ \A i \in Intents : pay'[i] = "none" <=> pay[i] = "none"
  <2>1. CASE CommitCancel(c)
    <3>1. pay' = [i \in Intents |-> IF SnapStatus(c, i) = "pending" THEN "failed" ELSE pay[i]]
      BY <2>1 DEF CommitCancel
    <3>2. \A i \in Intents : SnapStatus(c, i) = "pending" => pay[i] # "none"
      BY <1>1 DEF SnapStatus, Rows
    <3> QED BY <1>1, <3>1, <3>2
  <2>2. CASE ~CommitCancel(c)
    BY <2>2 DEF CancelStep, BeginCancel, AskCancel, CancelReports, CancelStops, payVars
  <2> QED BY <2>1, <2>2
<1>6. Rows' = Rows /\ Known' = Known
  BY <1>4, <1>5 DEF Rows, Known
<1>7. canceller[c] \in CancellerRows /\ IdleCanceller \in CancellerRows /\ \A i \in Intents : IdleCanceller.snap[i] = "none"
  BY <1>1 DEF IdleCanceller, CancellerRows, PayStatus
<1>8. PICK y \in CancellerRows : canceller' = [canceller EXCEPT ![c] = y] /\ \A i \in Intents : y.snap[i] # "none" => i \in Rows
  <2>1. CASE CancelReports(c) \/ CommitCancel(c) \/ CancelStops(c)
    BY <1>7, <2>1 DEF CancelReports, CommitCancel, CancelStops
  <2>2. CASE BeginCancel(c)
    <3>1. PICK y : y = [IdleCanceller EXCEPT !.pc = "ask", !.todo = IF SupportsCancel THEN Rows ELSE {}, !.snap = pay]
      OBVIOUS
    <3>2. y \in CancellerRows /\ y.snap = pay
      BY <1>1, <1>7, <3>1 DEF CancellerRows, Rows
    <3> QED BY <2>2, <3>1, <3>2 DEF BeginCancel, Rows
  <2>3. ASSUME NEW i \in Intents, AskCancel(c, i)
        PROVE  \E y \in CancellerRows : canceller' = [canceller EXCEPT ![c] = y] /\ \A j \in Intents : y.snap[j] # "none" => j \in Rows
    <3>1. CASE canceller' = [canceller EXCEPT ![c].todo = @ \ {i}, ![c].uncertain = TRUE]
      <4>1. PICK y : y = [canceller[c] EXCEPT !.todo = @ \ {i}, !.uncertain = TRUE]
        OBVIOUS
      <4>2. y \in CancellerRows /\ y.snap = canceller[c].snap
        BY <1>7, <4>1 DEF CancellerRows
      <4>3. canceller' = [canceller EXCEPT ![c] = y]
        BY <1>1, <3>1, <4>1
      <4> QED BY <1>1, <4>2, <4>3
    <3>2. CASE canceller' = [canceller EXCEPT ![c].todo = @ \ {i}, ![c].completed = @ \/ intent[i] = "succeeded",
                                              ![c].uncertain = @ \/ Canceled(intent[i]) \notin {"succeeded", "canceled"}]
      <4>1. PICK y : y = [canceller[c] EXCEPT !.todo = @ \ {i}, !.completed = @ \/ intent[i] = "succeeded",
                                              !.uncertain = @ \/ Canceled(intent[i]) \notin {"succeeded", "canceled"}]
        OBVIOUS
      <4>2. y \in CancellerRows /\ y.snap = canceller[c].snap
        BY <1>7, <4>1 DEF CancellerRows
      <4>3. canceller' = [canceller EXCEPT ![c] = y]
        BY <1>1, <3>2, <4>1
      <4> QED BY <1>1, <4>2, <4>3
    <3> QED BY <2>3, <3>1, <3>2 DEF AskCancel
  <2> QED BY <2>1, <2>2, <2>3 DEF CancelStep
<1>9. canceller' \in [Cancellers -> CancellerRows] /\ \A d \in Cancellers, i \in Intents : canceller'[d].snap[i] # "none" => i \in Rows
  BY <1>1, <1>8
<1> QED BY <1>2, <1>4, <1>5, <1>6, <1>9, OthersKeep

\* A step of a request that only remembers or hands out something.
LEMMA RequestReads ==
    ASSUME Inv, WaysInv, NEW p \in Payers, NEW x \in PayerRows, payer' = [payer EXCEPT ![p] = x],
           UNCHANGED <<pay, made, provider, intent, key, canceller>>, handed' \subseteq Intents,
           Chosen(x), provider = "stripe" => MovesOn(x), x.pc # "commit"
    PROVE  WaysInv'
<1>1. Rows' = Rows /\ Known' = Known
  BY DEF Rows, Known
<1>2. \A q \in Payers : payer'[q] = IF q = p THEN x ELSE payer[q]
  BY DEF WaysInv, PayersType
<1>3. InsertsAlone'
  BY <1>1, <1>2 DEF WaysInv, InsertsAlone
<1> QED BY <1>1, <1>3, RequestKeeps

\* The newest of the rows is the last that was made, and the newest of the pending ones the only one.
LEMMA NewestRow ==
    ASSUME Inv, WaysInv
    PROVE  /\ Rows # {} => Newest(Rows) \in Rows /\ made[Newest(Rows)] = Cardinality(Rows)
           /\ \A S : S \subseteq {j \in Intents : pay[j] = "pending"} /\ S # {} => Newest(S) \in S
<1>1. PICK n \in Nat : n = Cardinality(Rows)
  BY RowsCounted
<1>2. made \in [Intents -> Nat] /\ RowsCount /\ InsertsAlone /\ Rows \subseteq Intents
  BY DEF WaysInv, PayersType, Rows
<1>3. ASSUME Rows # {} PROVE Newest(Rows) \in Rows /\ made[Newest(Rows)] = n
  <2>1. n > 0
    BY <1>1, <1>2, <1>3 DEF RowsCount
  <2>2. PICK i \in Rows : made[i] = n
    BY <1>1, <1>2, <2>1 DEF RowsCount
  <2>3. \A j \in Rows : made[j] \in Nat /\ made[j] <= n
    BY <1>1, <1>2 DEF RowsCount
  <2>4. PICK w : w = Newest(Rows)
    OBVIOUS
  <2>5. w \in Rows /\ \A j \in Rows : made[j] <= made[w]
    BY <2>2, <2>3, <2>4 DEF Newest
  <2>6. made[w] = n
    BY <2>2, <2>3, <2>5
  <2> QED BY <2>4, <2>5, <2>6
<1>4. ASSUME NEW S, S \subseteq {j \in Intents : pay[j] = "pending"}, S # {} PROVE Newest(S) \in S
  <2>1. PICK i \in S : S = {i}
    BY <1>2, <1>4 DEF InsertsAlone
  <2>2. i \in Intents /\ made[i] <= made[i]
    BY <1>2, <1>4
  <2>3. \E k \in S : \A j \in S : made[j] <= made[k]
    BY <2>1, <2>2
  <2> QED BY <2>3 DEF Newest
<1> QED BY <1>1, <1>3, <1>4

\* Phase 1: the request chooses the newest row and the next key.
LEMMA PlanWays == ASSUME Inv, WaysInv, NEW p \in Payers, PlanPayment(p) PROVE WaysInv'
<1>1. PICK n \in Nat : n = Cardinality(Rows)
  BY RowsCounted
<1>2. /\ key \in [Intents -> Nat] /\ handed \subseteq Intents /\ RowsCount /\ Rows \subseteq Intents
      /\ UNCHANGED <<pay, made, provider, intent, key, handed, canceller>>
      /\ {i \in Intents : pay[i] \in {"pending", "failed"}} = Rows
  <2>1. pay \in [Intents -> PayStatus]
    BY DEF Inv, Types
  <2>2. \A i \in Intents : pay[i] # "succeeded"
    BY DEF PlanPayment, Payable
  <2> QED BY <2>1, <2>2 DEF PlanPayment, payVars, providerVars, WaysInv, PayersType, Rows, PayStatus
<1>3. PICK x : x = [IdlePayer EXCEPT !.pc = IF Rows = {} THEN "create" ELSE "retrieve", !.key = n,
                                     !.reuse = IF Rows = {} THEN NoIntent ELSE Newest(Rows)]
  OBVIOUS
<1>4. payer' = [payer EXCEPT ![p] = x]
  BY <1>1, <1>2, <1>3 DEF PlanPayment
<1>5. Rows # {} => Newest(Rows) \in Rows /\ made[Newest(Rows)] = n
  BY <1>1, NewestRow
<1>6. /\ x \in PayerRows /\ x.key = n /\ x.pc = (IF Rows = {} THEN "create" ELSE "retrieve")
      /\ x.reuse = IF Rows = {} THEN NoIntent ELSE Newest(Rows)
  BY <1>2, <1>3, <1>5 DEF IdlePayer, PayerRows, IntentStatus
<1>7. Chosen(x)
  BY <1>5, <1>6 DEF Chosen
<1>8. ASSUME provider = "stripe" PROVE MovesOn(x)
  <2>1. Rows = {} => n = 0
    BY <1>1, FS_EmptySet
  <2>2. Rows = {} => Over(n)
    BY <1>2, <2>1 DEF Over, Known
  <2>3. Rows # {} => n = key[x.reuse] + 1
    BY <1>5, <1>6, <1>8 DEF WaysInv, KeysCount
  <2> QED BY <1>1, <1>6, <2>2, <2>3 DEF MovesOn
<1> QED BY <1>2, <1>4, <1>6, <1>7, <1>8, RequestReads

\* What is known of a request that is under way.
LEMMA RequestFacts ==
    ASSUME Inv, WaysInv, NEW p \in Payers
    PROVE  /\ payer[p] \in PayerRows /\ Chosen(payer[p]) /\ (provider = "stripe" => MovesOn(payer[p]))
           /\ pay \in [Intents -> PayStatus] /\ intent \in [Intents -> IntentStatus] /\ handed \subseteq Intents
           /\ Rows \subseteq Known /\ Known \subseteq Intents
  BY DEF Inv, Types, WaysInv, PayersType, Known

\* The request asks the provider, finds that it has lost or is refused, hands out an intent that is recorded, or ends.
LEMMA ReadWays ==
    ASSUME Inv, WaysInv, NEW p \in Payers,
           \/ RetrieveIntent(p) \/ RecordRefused(p) \/ RecordExisting(p) \/ RecordLoses(p) \/ ReturnWinner(p) \/ PayerStops(p)
    PROVE  WaysInv'
<1>1. /\ payer[p] \in PayerRows /\ Chosen(payer[p]) /\ (provider = "stripe" => MovesOn(payer[p]))
      /\ intent \in [Intents -> IntentStatus] /\ handed \subseteq Intents /\ Rows \subseteq Known /\ Known \subseteq Intents
  BY RequestFacts
<1>2. UNCHANGED <<pay, made, provider, intent, key, canceller>>
  BY DEF RetrieveIntent, RecordRefused, RecordExisting, RecordLoses, ReturnWinner, PayerStops, payVars, providerVars
<1>3. CASE RetrieveIntent(p)
  <2>1. PICK x : x = [payer[p] EXCEPT !.pc = "relock", !.st = intent[payer[p].reuse]]
    OBVIOUS
  <2>2. payer[p].pc = "retrieve" /\ payer[p].reuse \in Rows /\ payer' = [payer EXCEPT ![p] = x] /\ handed' = handed
    BY <1>1, <1>3, <2>1 DEF RetrieveIntent, Chosen, providerVars, WaysInv, PayersType
  <2>3. x \in PayerRows /\ x.pc = "relock" /\ x.reuse = payer[p].reuse /\ x.key = payer[p].key /\ x.st = intent[payer[p].reuse]
    BY <1>1, <2>1, <2>2 DEF PayerRows
  <2>4. Chosen(x) /\ (provider = "stripe" => MovesOn(x))
    BY <1>1, <2>2, <2>3 DEF Chosen, MovesOn
  <2> QED BY <1>1, <1>2, <2>2, <2>3, <2>4, RequestReads
<1>4. CASE RecordRefused(p)
  <2>1. PICK x : x = [payer[p] EXCEPT !.pc = "orphan"]
    OBVIOUS
  <2>2. payer[p].pc = "record" /\ payer' = [payer EXCEPT ![p] = x] /\ handed' = handed
    BY <1>1, <1>4, <2>1 DEF RecordRefused, providerVars, WaysInv, PayersType
  <2>3. x \in PayerRows /\ x.pc = "orphan" /\ x.got = payer[p].got /\ x.key = payer[p].key
    BY <1>1, <2>1 DEF PayerRows
  <2>4. Chosen(x) /\ (provider = "stripe" => MovesOn(x))
    BY <1>1, <2>2, <2>3 DEF Chosen, MovesOn
  <2> QED BY <1>1, <1>2, <2>2, <2>3, <2>4, RequestReads
<1>5. CASE RecordLoses(p)
  <2>1. PICK w : w = Newest(PendingSeenBy(p))
    OBVIOUS
  <2>2. w \in Rows
    BY <1>5, <2>1, NewestRow DEF RecordLoses, PendingSeenBy, Rows
  <2>3. PICK x : x = [payer[p] EXCEPT !.pc = "loser", !.reuse = w]
    OBVIOUS
  <2>4. payer[p].pc = "record" /\ payer' = [payer EXCEPT ![p] = x] /\ handed' = handed
    BY <1>1, <1>5, <2>1, <2>3 DEF RecordLoses, providerVars, WaysInv, PayersType
  <2>5. x \in PayerRows /\ x.pc = "loser" /\ x.got = payer[p].got /\ x.key = payer[p].key /\ x.reuse = w
    BY <1>1, <2>2, <2>3 DEF PayerRows
  <2>6. Chosen(x) /\ (provider = "stripe" => MovesOn(x))
    BY <1>1, <2>2, <2>4, <2>5 DEF Chosen, MovesOn
  <2> QED BY <1>1, <1>2, <2>4, <2>5, <2>6, RequestReads
<1>6. CASE RecordExisting(p) \/ ReturnWinner(p) \/ PayerStops(p)
  <2>1. payer' = [payer EXCEPT ![p] = IdlePayer]
    BY <1>6 DEF RecordExisting, ReturnWinner, PayerStops
  <2>2. handed' \subseteq Intents
    BY <1>1, <1>6 DEF RecordExisting, ReturnWinner, PayerStops, Chosen, providerVars
  <2> QED BY <1>2, <2>1, <2>2, IdleRequest, RequestReads
<1> QED BY <1>3, <1>4, <1>5, <1>6

\* The request inserts its row: nobody else holds the order.
LEMMA InsertWays == ASSUME Inv, WaysInv, NEW p \in Payers, RecordNew(p) PROVE WaysInv'
<1>1. /\ payer[p] \in PayerRows /\ Chosen(payer[p]) /\ (provider = "stripe" => MovesOn(payer[p]))
      /\ handed \subseteq Intents /\ Known \subseteq Intents
  BY RequestFacts
<1>2. PICK x : x = [payer[p] EXCEPT !.pc = "commit"]
  OBVIOUS
<1>3. /\ payer[p].pc = "record" /\ payer' = [payer EXCEPT ![p] = x] /\ payer \in [Payers -> PayerRows]
      /\ UNCHANGED <<pay, made, provider, intent, key, canceller>>
  BY <1>2 DEF RecordNew, payVars, WaysInv, PayersType
<1>4. x \in PayerRows /\ x.pc = "commit" /\ x.got = payer[p].got /\ x.key = payer[p].key
  BY <1>1, <1>2 DEF PayerRows
<1>5. Chosen(x) /\ (provider = "stripe" => MovesOn(x)) /\ handed' \subseteq Intents
  BY <1>1, <1>3, <1>4 DEF Chosen, MovesOn, RecordNew
<1>6. x.got \notin Rows /\ \A j \in Intents : pay[j] # "pending"
  BY <1>4 DEF RecordNew, PendingIndexAllows, Rows
<1>7. \A q \in Payers : payer'[q] = IF q = p THEN x ELSE payer[q]
  BY <1>3
<1>8. \A q \in Payers : payer[q].pc # "commit"
  BY DEF RecordNew, OrderFree
<1>9. Rows' = Rows /\ Known' = Known
  BY <1>3 DEF Rows, Known
<1>10. InsertsAlone'
  BY <1>3, <1>6, <1>7, <1>8, <1>9 DEF InsertsAlone
<1> QED BY <1>3, <1>4, <1>5, <1>9, <1>10, RequestKeeps

\* The request finds its intent open, or cancelled.
LEMMA ReuseWays == ASSUME Inv, WaysInv, NEW p \in Payers, ReuseOpen(p) \/ ReuseTerminal(p) PROVE WaysInv'
<1>1. /\ payer[p] \in PayerRows /\ Chosen(payer[p]) /\ (provider = "stripe" => MovesOn(payer[p]))
      /\ handed \subseteq Intents /\ Rows \subseteq Known /\ Known \subseteq Intents /\ pay \in [Intents -> PayStatus]
  BY RequestFacts
<1>2. /\ payer[p].pc = "relock" /\ UNCHANGED <<made, provider, intent, key, canceller>> /\ payer \in [Payers -> PayerRows]
      /\ \A q \in Payers : payer[q].pc # "commit"
  BY DEF ReuseOpen, ReuseTerminal, OrderFree, providerVars, WaysInv, PayersType
<1>3. PICK u : u = payer[p].reuse
  OBVIOUS
<1>4. u \in Rows /\ u \in Known /\ u \in Intents
  BY <1>1, <1>2, <1>3 DEF Chosen
<1>5. Rows' = Rows /\ Known' = Known
  <2>1. pay' = [pay EXCEPT ![u] = "pending"] \/ pay' = [pay EXCEPT ![u] = "failed"]
    BY <1>3 DEF ReuseOpen, ReuseTerminal
  <2>2. \A i \in Intents : pay'[i] = "none" <=> pay[i] = "none"
    BY <1>1, <1>4, <2>1 DEF Rows
  <2> QED BY <1>2, <2>2 DEF Rows, Known
<1>6. CASE ReuseOpen(p)
  <2>1. payer' = [payer EXCEPT ![p] = IdlePayer] /\ handed' = handed \cup {u} /\ pay' = [pay EXCEPT ![u] = "pending"]
        /\ \A j \in Intents \ {u} : pay[j] # "pending"
    BY <1>3, <1>6 DEF ReuseOpen, PendingIndexAllows
  <2>2. InsertsAlone'
    <3>1. \A q \in Payers : payer'[q].pc # "commit"
      BY <1>2, <2>1, IdleRequest
    <3>2. \A i \in Intents : pay'[i] = "pending" => i = u
      BY <1>1, <2>1
    <3> QED BY <3>1, <3>2 DEF InsertsAlone
  <2> QED BY <1>1, <1>2, <1>4, <1>5, <2>1, <2>2, IdleRequest, RequestKeeps
<1>7. CASE ReuseTerminal(p)
  <2>1. PICK x : x = [payer[p] EXCEPT !.pc = "create"]
    OBVIOUS
  <2>2. payer' = [payer EXCEPT ![p] = x] /\ handed' = handed /\ pay' = [pay EXCEPT ![u] = "failed"] /\ payer[p].st = "canceled"
    BY <1>2, <1>3, <1>7, <2>1 DEF ReuseTerminal, providerVars
  <2>3. x \in PayerRows /\ x.pc = "create" /\ x.key = payer[p].key
    BY <1>1, <2>1 DEF PayerRows
  <2>4. Chosen(x)
    BY <2>3 DEF Chosen
  <2>5. ASSUME provider = "stripe" PROVE MovesOn(x)
    <3>1. /\ KeysCount /\ Over(key[u]) /\ key \in [Intents -> Nat] /\ intent[u] = "canceled" /\ x.key = key[u] + 1
          /\ x.key <= Cardinality(Rows)
      BY <1>1, <1>2, <1>3, <1>4, <2>2, <2>3, <2>5 DEF WaysInv, PayersType, EarlierAreOver, MovesOn
    <3>2. ASSUME NEW j \in Known, key[j] < key[u] + 1 PROVE intent[j] \notin OpenIntent
      <4>1. key[j] < key[u] \/ key[j] = key[u]
        BY <1>1, <1>4, <3>1, <3>2
      <4> QED BY <1>4, <3>1, <4>1 DEF KeysCount, Over, OpenIntent
    <3> QED BY <2>3, <3>1, <3>2 DEF MovesOn, Over
  <2>6. InsertsAlone'
    <3>1. \A q \in Payers : payer'[q].pc # "commit"
      BY <1>2, <2>2, <2>3
    <3>2. \A i \in Intents : pay'[i] = "pending" => pay[i] = "pending"
      BY <1>1, <2>2
    <3> QED BY <3>1, <3>2 DEF InsertsAlone, WaysInv
  <2> QED BY <1>1, <1>2, <1>5, <2>2, <2>3, <2>4, <2>5, <2>6, RequestKeeps
<1> QED BY <1>6, <1>7

\* The intent of a request that has lost is cancelled.
LEMMA OrphanWays == ASSUME Inv, WaysInv, NEW p \in Payers, CancelOrphan(p) PROVE WaysInv'
<1>1. /\ payer[p] \in PayerRows /\ Chosen(payer[p]) /\ (provider = "stripe" => MovesOn(payer[p]))
      /\ handed \subseteq Intents /\ Known \subseteq Intents /\ intent \in [Intents -> IntentStatus]
  BY RequestFacts
<1>2. PICK x : x = IF payer[p].pc = "orphan" THEN IdlePayer ELSE [payer[p] EXCEPT !.pc = "winner"]
  OBVIOUS
<1>3. /\ payer[p].pc \in {"orphan", "loser"} /\ payer' = [payer EXCEPT ![p] = x]
      /\ UNCHANGED <<pay, made, provider, key, handed, canceller>>
      /\ intent' = intent \/ intent' = [intent EXCEPT ![payer[p].got] = Canceled(@)]
  BY <1>2 DEF CancelOrphan, payVars, WaysInv, PayersType
<1>4. /\ \A i \in Intents : intent'[i] \in OpenIntent => intent[i] \in OpenIntent
      /\ \A i \in Intents : intent[i] = "canceled" => intent'[i] = "canceled"
      /\ \A i \in Intents : intent'[i] = "absent" <=> intent[i] = "absent"
  BY <1>1, <1>3 DEF OpenIntent, Canceled
<1>5. Rows' = Rows /\ Known' = Known
  BY <1>3, <1>4 DEF Rows, Known
<1>6. x \in PayerRows /\ x.pc \in {"idle", "winner"} /\ Chosen(x) /\ (provider = "stripe" => MovesOn(x))
  <2>1. CASE payer[p].pc = "orphan"
    BY <1>2, <2>1, IdleRequest
  <2>2. CASE payer[p].pc = "loser"
    <3>1. x = [payer[p] EXCEPT !.pc = "winner"]
      BY <1>2, <2>2
    <3>2. x \in PayerRows /\ x.pc = "winner" /\ x.reuse = payer[p].reuse /\ x.key = payer[p].key
      BY <1>1, <3>1 DEF PayerRows
    <3> QED BY <1>1, <2>2, <3>2 DEF Chosen, MovesOn
  <2> QED BY <1>3, <2>1, <2>2
<1>7. InsertsAlone'
  <2>1. \A q \in Payers : payer'[q] = IF q = p THEN x ELSE payer[q]
    BY <1>3 DEF WaysInv, PayersType
  <2> QED BY <1>3, <1>5, <1>6, <2>1 DEF InsertsAlone, WaysInv
<1> QED BY <1>1, <1>3, <1>4, <1>5, <1>6, <1>7, RequestKeeps

\* The key of a request whose key is below the number of rows belongs to a row.
LEMMA KeyTaken ==
    ASSUME Inv, WaysInv, provider = "stripe", NEW k \in Nat, k < Cardinality(Rows)
    PROVE  \E i \in Rows : key[i] = k
<1>1. PICK n \in Nat : n = Cardinality(Rows)
  BY RowsCounted
<1>2. PICK i \in Rows : made[i] = k + 1
  <2>1. k + 1 \in 1 .. Cardinality(Rows)
    BY <1>1
  <2> QED BY <2>1 DEF WaysInv, RowsCount
<1>3. made[i] = key[i] + 1 /\ key[i] \in Nat
  BY <1>2 DEF WaysInv, KeysCount, PayersType, Rows
<1> QED BY <1>2, <1>3

\* A new intent has the next key, and only when the one before is cancelled; a repeated key finds the intent it has made.
LEMMA CreateWays == ASSUME Inv, WaysInv, NEW p \in Payers, CreateIntent(p) PROVE WaysInv'
<1>1. /\ payer[p] \in PayerRows /\ Chosen(payer[p]) /\ (provider = "stripe" => MovesOn(payer[p]))
      /\ handed \subseteq Intents /\ Rows \subseteq Known /\ Known \subseteq Intents /\ intent \in [Intents -> IntentStatus]
  BY RequestFacts
<1>2. PICK k \in Nat : k = payer[p].key
  BY <1>1 DEF PayerRows
<1>3. PICK same : same = {j \in Intents : intent[j] # "absent" /\ key[j] = k}
  OBVIOUS
<1>4. PICK i \in Intents : /\ IF Dedupes /\ same # {} THEN i \in same ELSE intent[i] = "absent"
                           /\ intent' = [intent EXCEPT ![i] = IF @ = "absent" THEN "open" ELSE @]
                           /\ key' = [key EXCEPT ![i] = k]
                           /\ payer' = [payer EXCEPT ![p].pc = "record", ![p].got = i]
  BY <1>2, <1>3 DEF CreateIntent
<1>5. PICK x : x = [payer[p] EXCEPT !.pc = "record", !.got = i]
  OBVIOUS
<1>6. /\ payer[p].pc = "create" /\ UNCHANGED <<pay, made, provider, handed, canceller>> /\ PayersType
      /\ payer' = [payer EXCEPT ![p] = x]
  BY <1>4, <1>5 DEF CreateIntent, payVars, WaysInv, PayersType
<1>7. x \in PayerRows /\ x.pc = "record" /\ x.got = i /\ x.key = k
  BY <1>1, <1>2, <1>5 DEF PayerRows
<1>8. key \in [Intents -> Nat] /\ made \in [Intents -> Nat] /\ payer \in [Payers -> PayerRows]
  BY <1>6 DEF PayersType
<1>9. CASE intent[i] # "absent"
  <2>1. key[i] = k /\ i \in Known
    BY <1>3, <1>4, <1>9 DEF Known
  <2>2. intent' = intent /\ key' = key
    BY <1>1, <1>4, <1>8, <1>9, <2>1
  <2>3. Chosen(x) /\ (provider = "stripe" => MovesOn(x))
    BY <1>1, <1>2, <1>6, <1>7, <2>1 DEF Chosen, MovesOn
  <2> QED BY <1>1, <1>6, <1>7, <2>2, <2>3, RequestReads
<1>10. CASE intent[i] = "absent"
  <2>1. /\ \A j \in Intents : key'[j] = IF j = i THEN k ELSE key[j]
        /\ \A j \in Intents : intent'[j] = IF j = i THEN "open" ELSE intent[j]
        /\ key' \in [Intents -> Nat]
    BY <1>1, <1>2, <1>4, <1>8, <1>10
  <2>2. i \notin Known /\ Known' = Known \cup {i} /\ Rows' = Rows
    BY <1>6, <1>10, <2>1 DEF Known, Rows
  <2>3. payer' \in [Payers -> PayerRows] /\ \A q \in Payers : payer'[q] = IF q = p THEN x ELSE payer[q]
    BY <1>6, <1>7, <1>8
  <2>4. PayersType'
    <3>1. ASSUME NEW q \in Payers PROVE Chosen(payer[q])'
      <4>1. PICK r : r = payer'[q]
        OBVIOUS
      <4>2. Chosen(r)'
        BY <1>6, <1>7, <2>2, <2>3, <4>1 DEF Chosen, PayersType
      <4> QED BY <4>1, <4>2 DEF Chosen
    <3>2. handed' \subseteq Intents /\ made' \in [Intents -> Nat] /\ Rows' \subseteq Known' /\ canceller' \in [Cancellers -> CancellerRows]
          /\ \A c \in Cancellers, j \in Intents : canceller'[c].snap[j] # "none" => j \in Rows'
      BY <1>6, <2>2 DEF PayersType
    <3> QED BY <2>1, <2>3, <3>1, <3>2 DEF PayersType
  <2>5. InsertsAlone' /\ RowsCount'
    BY <1>6, <1>7, <2>2, <2>3 DEF WaysInv, InsertsAlone, RowsCount
  <2>6. ASSUME provider = "stripe" PROVE KeysCount' /\ EarlierAreOver' /\ \A q \in Payers : MovesOn(payer[q])'
    <3>1. PICK n \in Nat : n = Cardinality(Rows)
      BY RowsCounted
    <3>2. same = {} /\ MovesOn(payer[p]) /\ KeysCount /\ EarlierAreOver
      BY <1>1, <1>3, <1>4, <1>10, <2>6 DEF Dedupes, WaysInv
    <3>3. k = n
      <4>1. k <= n
        BY <1>2, <3>1, <3>2 DEF MovesOn
      <4>2. ASSUME k < n PROVE FALSE
        <5>1. PICK j \in Rows : key[j] = k
          BY <2>6, <3>1, <4>2, KeyTaken
        <5> QED BY <1>1, <1>3, <3>2, <5>1 DEF Known
      <4> QED BY <4>1, <4>2
    <3>4. \A j \in Known : key[j] \in Nat /\ key[j] <= n /\ key[j] # n /\ key'[j] = key[j] /\ intent'[j] = intent[j] /\ j # i
      BY <1>1, <1>3, <1>8, <2>1, <2>2, <3>1, <3>2, <3>3 DEF KeysCount, Known
    <3>5. key'[i] = n /\ Over(n)
      BY <1>2, <1>6, <2>1, <3>2, <3>3 DEF MovesOn
    <3>6. KeysCount'
      <4>1. \A a, b \in Known' : key'[a] = key'[b] => a = b
        BY <2>2, <3>2, <3>4, <3>5 DEF KeysCount
      <4>2. \A a \in Known' : key'[a] <= n
        BY <2>2, <3>4, <3>5
      <4>3. \A a \in Rows' : made'[a] = key'[a] + 1
        BY <1>1, <1>6, <2>2, <3>2, <3>4 DEF KeysCount
      <4> QED BY <2>2, <3>1, <4>1, <4>2, <4>3 DEF KeysCount
    <3>7. ASSUME NEW m \in Nat, m <= n, Over(m) PROVE Over(m)'
      BY <2>2, <3>4, <3>5, <3>7 DEF Over
    <3>8. EarlierAreOver'
      <4>1. ASSUME NEW a \in Known' PROVE \A j \in Known' : key'[j] < key'[a] => intent'[j] \notin OpenIntent
        <5>1. PICK m \in Nat : m = key'[a] /\ m <= n /\ Over(m)
          BY <2>2, <3>2, <3>4, <3>5 DEF EarlierAreOver
        <5> QED BY <3>7, <5>1 DEF Over
      <4> QED BY <4>1 DEF EarlierAreOver, Over
    <3>9. ASSUME NEW q \in Payers PROVE MovesOn(payer[q])'
      <4>1. PICK r : r = payer'[q]
        OBVIOUS
      <4>2. CASE q = p
        <5>1. r = x
          BY <2>3, <4>1, <4>2
        <5>2. MovesOn(r)'
          BY <1>7, <2>2, <3>1, <3>3, <3>5, <3>7, <5>1 DEF MovesOn
        <5> QED BY <4>1, <5>2 DEF MovesOn, Over
      <4>3. CASE q # p
        <5>1. r = payer[q] /\ r \in PayerRows /\ Chosen(r) /\ MovesOn(r)
          BY <1>6, <2>3, <2>6, <4>1, <4>3 DEF WaysInv, PayersType
        <5>2. r.key \in Nat /\ r.key <= n
          BY <3>1, <5>1 DEF MovesOn, PayerRows
        <5>3. r.pc \in {"create", "record", "commit"} => Over(r.key)'
          BY <3>7, <5>1, <5>2 DEF MovesOn
        <5>4. r.pc \in {"record", "commit"} => key'[r.got] = r.key
          BY <3>4, <5>1 DEF MovesOn, Chosen
        <5>5. r.pc \in {"retrieve", "relock"} => key'[r.reuse] = key[r.reuse] /\ intent'[r.reuse] = intent[r.reuse]
          BY <1>1, <3>4, <5>1 DEF Chosen
        <5>6. MovesOn(r)'
          BY <2>2, <3>1, <5>1, <5>2, <5>3, <5>4, <5>5 DEF MovesOn
        <5> QED BY <4>1, <5>6 DEF MovesOn, Over
      <4> QED BY <4>2, <4>3
    <3> QED BY <3>6, <3>8, <3>9
  <2> QED BY <1>6, <2>4, <2>5, <2>6 DEF WaysInv
<1> QED BY <1>9, <1>10

\* The row becomes visible: it has the next number, and with a provider that answers a repeated key with the same intent it
\* has the next key.
LEMMA CommitWays == ASSUME Inv, WaysInv, NEW p \in Payers, CommitNew(p) PROVE WaysInv'
<1>1. /\ payer[p] \in PayerRows /\ Chosen(payer[p]) /\ (provider = "stripe" => MovesOn(payer[p]))
      /\ handed \subseteq Intents /\ Rows \subseteq Known /\ Known \subseteq Intents /\ pay \in [Intents -> PayStatus]
  BY RequestFacts
<1>2. PICK n \in Nat : n = Cardinality(Rows)
  BY RowsCounted
<1>3. PICK i : i = payer[p].got
  OBVIOUS
<1>4. /\ payer[p].pc = "commit" /\ pay' = [pay EXCEPT ![i] = "pending"] /\ made' = [made EXCEPT ![i] = n + 1]
      /\ handed' = handed \cup {i} /\ payer' = [payer EXCEPT ![p] = IdlePayer] /\ UNCHANGED <<provider, intent, key, canceller>>
      /\ PayersType /\ InsertsAlone /\ RowsCount
  BY <1>2, <1>3 DEF CommitNew, WaysInv
<1>5. i \in Known /\ i \in Intents /\ i \notin Rows /\ \A j \in Intents : pay[j] # "pending"
  BY <1>1, <1>3, <1>4 DEF Chosen, InsertsAlone
<1>6. /\ Rows' = Rows \cup {i} /\ Known' = Known
      /\ \A j \in Intents : pay'[j] = "pending" => j = i
      /\ \A j \in Rows : made'[j] = made[j]
      /\ made' \in [Intents -> Nat] /\ made'[i] = n + 1
  BY <1>1, <1>4, <1>5 DEF Rows, Known, PayersType
<1>7. Cardinality(Rows') = n + 1
  BY <1>2, <1>5, <1>6, RowsCounted, FS_AddElement
<1>8. payer' \in [Payers -> PayerRows] /\ \A q \in Payers : payer'[q] = IF q = p THEN IdlePayer ELSE payer[q]
  BY <1>4, IdleRequest DEF PayersType
<1>9. PayersType'
  <2>1. ASSUME NEW q \in Payers PROVE Chosen(payer[q])'
    <3>1. PICK r : r = payer'[q]
      OBVIOUS
    <3>2. Chosen(r)
      BY <1>4, <1>8, <3>1, IdleRequest DEF PayersType
    <3>3. Chosen(r)'
      BY <1>6, <3>2 DEF Chosen
    <3> QED BY <3>1, <3>3 DEF Chosen
  <2>2. key' \in [Intents -> Nat] /\ handed' \subseteq Intents /\ Rows' \subseteq Known' /\ canceller' \in [Cancellers -> CancellerRows]
        /\ \A c \in Cancellers, j \in Intents : canceller'[c].snap[j] # "none" => j \in Rows'
    BY <1>1, <1>4, <1>5, <1>6 DEF PayersType
  <2> QED BY <1>6, <1>8, <2>1, <2>2 DEF PayersType
<1>10. InsertsAlone'
  <2>1. \A q \in Payers : payer'[q].pc # "commit"
    BY <1>4, <1>8, IdleRequest DEF InsertsAlone
  <2> QED BY <1>6, <2>1 DEF InsertsAlone
<1>11. RowsCount'
  <2>1. \A j \in Rows' : made'[j] \in 1 .. (n + 1)
    BY <1>2, <1>4, <1>6 DEF RowsCount
  <2>2. ASSUME NEW k \in 1 .. (n + 1) PROVE \E j \in Rows' : made'[j] = k
    <3>1. CASE k = n + 1
      BY <1>6, <3>1
    <3>2. CASE k # n + 1
      <4>1. k \in 1 .. n
        BY <3>2
      <4> QED BY <1>2, <1>4, <1>6, <4>1 DEF RowsCount
    <3> QED BY <3>1, <3>2
  <2> QED BY <1>7, <2>1, <2>2 DEF RowsCount
<1>12. ASSUME provider = "stripe" PROVE KeysCount' /\ EarlierAreOver' /\ \A q \in Payers : MovesOn(payer[q])'
  <2>1. KeysCount /\ EarlierAreOver /\ key \in [Intents -> Nat] /\ key[i] <= n
    BY <1>2, <1>4, <1>5, <1>12 DEF WaysInv, PayersType, KeysCount
  <2>2. key[i] = n
    <3>1. ASSUME key[i] < n PROVE FALSE
      <4>1. PICK j \in Rows : key[j] = key[i]
        BY <1>2, <1>5, <1>12, <2>1, <3>1, KeyTaken
      <4> QED BY <1>1, <1>5, <2>1, <4>1 DEF KeysCount
    <3> QED BY <1>5, <2>1, <3>1
  <2>3. KeysCount'
    <3>1. \A a \in Known' : key'[a] <= n + 1
      BY <1>1, <1>2, <1>4, <1>6, <2>1 DEF KeysCount
    <3>2. \A a \in Rows' : made'[a] = key'[a] + 1
      BY <1>4, <1>6, <2>1, <2>2 DEF KeysCount
    <3> QED BY <1>4, <1>6, <1>7, <2>1, <3>1, <3>2 DEF KeysCount
  <2>4. EarlierAreOver' /\ \A m : Over(m) => Over(m)'
    BY <1>4, <1>6, <2>1 DEF EarlierAreOver, Over
  <2>5. ASSUME NEW q \in Payers PROVE MovesOn(payer[q])'
    <3>1. PICK r : r = payer'[q]
      OBVIOUS
    <3>2. r \in PayerRows /\ MovesOn(r)
      BY <1>8, <1>12, <3>1, IdleRequest DEF WaysInv
    <3>3. r.key \in Nat /\ r.key <= n + 1
      BY <1>2, <3>2 DEF MovesOn, PayerRows
    <3>4. MovesOn(r)'
      BY <1>4, <1>7, <2>4, <3>2, <3>3 DEF MovesOn
    <3> QED BY <3>1, <3>4 DEF MovesOn, Over
  <2> QED BY <2>3, <2>4, <2>5
<1> QED BY <1>4, <1>9, <1>10, <1>11, <1>12 DEF WaysInv

\* Every step keeps the ways to pay.
LEMMA WaysStep == Inv /\ WaysInv /\ [Next]_vars => WaysInv'
<1> SUFFICES ASSUME Inv, WaysInv, [Next]_vars PROVE WaysInv'
  OBVIOUS
<1>1. CASE UNCHANGED vars
  <2>1. UNCHANGED <<pay, made, provider, intent, key, handed, payer, canceller>>
    BY <1>1 DEF vars, payVars, providerVars
  <2>2. Rows' = Rows /\ Known' = Known
    BY <2>1 DEF Rows, Known
  <2>3. canceller \in [Cancellers -> CancellerRows] /\ \A c \in Cancellers, i \in Intents : canceller[c].snap[i] # "none" => i \in Rows
    BY DEF WaysInv, PayersType
  <2> QED BY <2>1, <2>2, <2>3, OthersKeep
<1>2. ASSUME NEW p \in Payers, PayerStep(p) PROVE WaysInv'
  BY <1>2, PlanWays, ReadWays, InsertWays, ReuseWays, OrphanWays, CreateWays, CommitWays DEF PayerStep
<1> QED BY <1>1, <1>2, ProviderWays, EventWays, CancelWays DEF Next

\* At most one intent is open with a provider that answers a repeated key with the same intent.
LEMMA WaysImply == Inv /\ WaysInv => OneWayToPay
<1> SUFFICES ASSUME Inv, WaysInv PROVE OneWayToPay
  OBVIOUS
<1>1. OnePendingRow
  BY DEF OnePendingRow, WaysInv, InsertsAlone, PayersType, Rows, Known
<1>2. ASSUME provider = "stripe" PROVE Cardinality({i \in handed : intent[i] \in OpenIntent}) <= 1
  <2>1. PICK S : S = {i \in handed : intent[i] \in OpenIntent}
    OBVIOUS
  <2>2. ASSUME NEW a \in S, NEW b \in S PROVE a = b
    <3>1. a \in Known /\ b \in Known /\ key[a] \in Nat /\ key[b] \in Nat /\ intent[a] \in OpenIntent /\ intent[b] \in OpenIntent
      BY <2>1, <2>2 DEF WaysInv, PayersType, Known, OpenIntent
    <3>2. ~(key[a] < key[b]) /\ ~(key[b] < key[a])
      BY <1>2, <3>1 DEF WaysInv, EarlierAreOver, Over
    <3>3. key[a] = key[b]
      BY <3>1, <3>2
    <3> QED BY <1>2, <3>1, <3>3 DEF WaysInv, KeysCount
  <2>3. S = {} \/ \E a : S = {a}
    BY <2>2
  <2>4. Cardinality(S) \in {0, 1}
    BY <2>3, FS_EmptySet, FS_Singleton
  <2> QED BY <2>1, <2>4
<1> QED BY <1>1, <1>2 DEF OneWayToPay, OnePayableIntent

\* Requests to pay that race leave the customer one way to pay, for any number of requests, cancellations and intents: one
\* pending row, and with Stripe one intent that can still be paid (create_payment_for_order).
THEOREM OneWay == Spec => []OneWayToPay
<1>1. Spec => []WaysInv
  BY WaysInit, WaysStep, OrderInvariant, PTL DEF Spec
<1> QED BY <1>1, OrderInvariant, WaysImply, PTL
=============================================================================
