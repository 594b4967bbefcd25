---------------------------- MODULE OrderPayment ----------------------------
(***************************************************************************)
(* One order on its way from `pending` to `paid` or `cancelled`, and every *)
(* party that acts on it concurrently:                                     *)
(*                                                                         *)
(*   - payers: POST /payments (PaymentService.create_payment_for_order),   *)
(*     plan -> provider call -> re-lock and record;                        *)
(*   - cancellers: the customer, an administrator or the expiry job in     *)
(*     OrderLifecycleService.cancel_order, decide -> provider -> finish;   *)
(*   - webhook deliveries of payment_intent.succeeded / payment_failed and *)
(*     the job that re-applies deferred events;                            *)
(*   - the payment provider and the customer's payment form (external).    *)
(*                                                                         *)
(* A transaction that locks the order row before it reads is one step.     *)
(* Where the code reads a payment WITHOUT a lock and writes it later, or   *)
(* keeps an ORM object across a commit, the value read is kept in the      *)
(* handler's state (`seen`, `snap`) and used stale in a later step.        *)
(***************************************************************************)
EXTENDS Integers, FiniteSets

CONSTANTS
    Intents,        \* payment intents the provider may create for the order
    Payers,         \* concurrent requests that start a payment
    Cancellers,     \* concurrent cancellations (customer, admin, expiry job)
    NoIntent,       \* absence of an intent
    Providers,      \* payment providers the store may use, of {"stripe", "razorpay"}
    Mismatched,     \* intents whose success event fails the amount/currency check
    LateCommit,     \* get_db commits after the response is sent, as the pinned FastAPI does
    MaxFailures,    \* bound: event handlers that fail in one behaviour
    MaxLostAcks,    \* bound: acknowledged deliveries whose commit then fails
    MaxTries        \* webhook_recovery_max_attempts

ASSUME NoIntentAssumption == NoIntent \notin Intents
ASSUME IntentsAssumption == IsFiniteSet(Intents)
ASSUME ProviderAssumption == Providers \subseteq {"stripe", "razorpay"}
ASSUME FlagAssumption == LateCommit \in BOOLEAN
ASSUME BoundAssumption == MaxFailures \in Nat /\ MaxLostAcks \in Nat /\ MaxTries \in Nat \ {0}
ASSUME MismatchAssumption == Mismatched \subseteq Intents

VARIABLES
    status,     \* orders.status
    paidBy,     \* the payment named by the order.paid audit entry
    restocks,   \* how often the order's stock was released
    mails,      \* order confirmation jobs enqueued
    pay,        \* payments.status per intent, "none" before the row exists
    made,       \* payments.created_at, as the row's ordinal; 0: no row
    provider,   \* payments.provider, the same for all of the order's payments
    intent,     \* the provider's state of each intent
    key,        \* idempotency key (attempt number) an intent was created with
    handed,     \* intents whose client secret a caller has received
    evt,        \* processed_webhook_events, per event
    seen,       \* payment status an event handler in progress has read
    dfr,        \* deferred_webhook_events.status, per success event
    tries,      \* deferred_webhook_events.attempts
    failures,   \* handler failures so far
    lost,       \* acknowledged deliveries whose commit failed, so far
    recon,      \* payment_reconciliations ever opened
    resolved,   \* ... of those, the ones closed automatically
    payer,      \* each create_payment_for_order in progress
    canceller   \* each cancel_order in progress

orderVars == <<status, paidBy, restocks, mails>>
payVars == <<pay, made, provider>>
providerVars == <<intent, key, handed>>
eventVars == <<evt, seen, dfr, tries, failures, lost>>
reconVars == <<recon, resolved>>
vars == <<orderVars, payVars, providerVars, eventVars, reconVars, payer, canceller>>

PayStatus == {"none", "pending", "succeeded", "failed"}
IntentStatus == {"absent", "open", "processing", "succeeded", "canceled"}
Events == {"succeeded", "failed"}
Handlers == Events \cup {"deferred"}
ReconKinds == {"unmatched_payment", "late_payment", "amount_mismatch",
               "cancel_uncertain", "cancel_payment_succeeded"}

\* OPEN_INTENT_STATUSES: the customer can still complete this intent.
OpenIntent == {"open", "processing"}

IdlePayer == [pc |-> "idle", key |-> 0, reuse |-> NoIntent, st |-> "absent", got |-> NoIntent]
IdleCanceller == [pc |-> "idle", todo |-> {}, uncertain |-> FALSE, completed |-> FALSE,
                  snap |-> [i \in Intents |-> "none"]]

Init ==
    /\ status = "pending" /\ paidBy = NoIntent /\ restocks = 0 /\ mails = 0
    /\ pay = [i \in Intents |-> "none"]
    /\ made = [i \in Intents |-> 0]
    /\ provider \in Providers
    /\ intent = [i \in Intents |-> "absent"]
    /\ key = [i \in Intents |-> 0]
    /\ handed = {}
    /\ evt = [e \in Events |-> [i \in Intents |-> "none"]]
    /\ seen = [h \in Handlers |-> [i \in Intents |-> "idle"]]
    /\ dfr = [i \in Intents |-> "none"]
    /\ tries = [i \in Intents |-> 0]
    /\ failures = 0 /\ lost = 0
    /\ recon = {} /\ resolved = {}
    /\ payer = [p \in Payers |-> IdlePayer]
    /\ canceller = [c \in Cancellers |-> IdleCanceller]

-----------------------------------------------------------------------------
(* The order's payment rows.                                               *)

Rows == {i \in Intents : pay[i] # "none"}

\* provider.supports_cancel: Razorpay's orders cannot be cancelled.
SupportsCancel == provider = "stripe"

\* Stripe answers a repeated idempotency key with the intent made before; Razorpay
\* makes another one.
Dedupes == provider = "stripe"

\* First element of list_for_order (newest first) that lies in S.
Newest(S) == CHOOSE i \in S : \A j \in S : made[j] <= made[i]

\* The partial unique index ux_payments_order_id_pending lets i be pending.
PendingIndexAllows(i) == \A j \in Intents \ {i} : pay[j] # "pending"

\* The order row is unlocked. Only a request that has inserted its payment and not yet
\* committed holds the lock across steps; everyone else's locked work is one step.
OrderFree == \A p \in Payers : payer[p].pc # "commit"

\* _assert_order_payable together with the "already been paid" check.
Payable == status = "pending" /\ \A i \in Intents : pay[i] # "succeeded"

-----------------------------------------------------------------------------
(* create_payment_for_order.                                               *)

\* Mutant: only a pending payment is reused, so a declined one is replaced.
PlanPaymentPendingOnly(p) ==
    /\ payer[p].pc = "idle" /\ OrderFree
    /\ Payable
    /\ LET reusable == {i \in Intents : pay[i] = "pending"} IN
       payer' = [payer EXCEPT ![p] =
           [IdlePayer EXCEPT !.pc = IF reusable = {} THEN "create" ELSE "retrieve",
                             !.key = Cardinality(Rows),
                             !.reuse = IF reusable = {} THEN NoIntent ELSE Newest(reusable)]]
    /\ UNCHANGED <<orderVars, payVars, providerVars, eventVars, reconVars, canceller>>

\* Phase 1: lock the order, pick the reusable payment and the idempotency key, commit.
PlanPayment(p) ==
    /\ payer[p].pc = "idle" /\ OrderFree
    /\ Payable
    /\ LET reusable == {i \in Intents : pay[i] \in {"pending", "failed"}} IN
       payer' = [payer EXCEPT ![p] =
           [IdlePayer EXCEPT !.pc = IF reusable = {} THEN "create" ELSE "retrieve",
                             !.key = Cardinality(Rows),
                             !.reuse = IF reusable = {} THEN NoIntent ELSE Newest(reusable)]]
    /\ UNCHANGED <<orderVars, payVars, providerVars, eventVars, reconVars, canceller>>

\* Phase 2 of the reuse path: ask the provider, with no transaction open.
RetrieveIntent(p) ==
    /\ payer[p].pc = "retrieve"
    /\ payer' = [payer EXCEPT ![p].pc = "relock", ![p].st = intent[payer[p].reuse]]
    /\ UNCHANGED <<orderVars, payVars, providerVars, eventVars, reconVars, canceller>>

\* Phase 3: the intent was still open, so the caller gets it (again).
ReuseOpen(p) ==
    LET i == payer[p].reuse IN
    /\ payer[p].pc = "relock" /\ OrderFree
    /\ status = "pending"
    /\ payer[p].st \in OpenIntent
    /\ PendingIndexAllows(i)
    /\ pay' = [pay EXCEPT ![i] = "pending"]
    /\ handed' = handed \cup {i}
    /\ payer' = [payer EXCEPT ![p] = IdlePayer]
    /\ UNCHANGED <<orderVars, made, provider, intent, key, eventVars, reconVars, canceller>>

\* Phase 3: the provider called the intent terminal; a new one will be created.
ReuseTerminal(p) ==
    /\ payer[p].pc = "relock" /\ OrderFree
    /\ status = "pending"
    /\ payer[p].st = "canceled"
    /\ pay' = [pay EXCEPT ![payer[p].reuse] = "failed"]
    /\ payer' = [payer EXCEPT ![p].pc = "create"]
    /\ UNCHANGED <<orderVars, made, provider, providerVars, eventVars, reconVars, canceller>>

\* provider.create_payment_intent. Stripe answers a repeated key with the same intent.
CreateIntent(p) ==
    LET same == {i \in Intents : intent[i] # "absent" /\ key[i] = payer[p].key} IN
    /\ payer[p].pc = "create"
    /\ \E i \in Intents :
         /\ IF Dedupes /\ same # {} THEN i \in same ELSE intent[i] = "absent"
         /\ intent' = [intent EXCEPT ![i] = IF @ = "absent" THEN "open" ELSE @]
         /\ key' = [key EXCEPT ![i] = payer[p].key]
         /\ payer' = [payer EXCEPT ![p].pc = "record", ![p].got = i]
    /\ UNCHANGED <<orderVars, payVars, handed, eventVars, reconVars, canceller>>

\* _create_new_payment, re-locked: the order was cancelled or paid meanwhile.
RecordRefused(p) ==
    /\ payer[p].pc = "record" /\ OrderFree
    /\ ~Payable
    /\ payer' = [payer EXCEPT ![p].pc = "orphan"]
    /\ UNCHANGED <<orderVars, payVars, providerVars, eventVars, reconVars, canceller>>

\* A concurrent request already recorded the same intent.
RecordExisting(p) ==
    /\ payer[p].pc = "record" /\ OrderFree
    /\ Payable
    /\ pay[payer[p].got] # "none"
    /\ handed' = handed \cup {payer[p].got}
    /\ payer' = [payer EXCEPT ![p] = IdlePayer]
    /\ UNCHANGED <<orderVars, payVars, intent, key, eventVars, reconVars, canceller>>

\* The pending payments list_for_order shows this request. The row it marked failed
\* in ReuseTerminal is still an object of its session and is not re-read.
PendingSeenBy(p) == {j \in Intents : pay[j] = "pending" /\ j # payer[p].reuse}

\* Another intent of the order was recorded first: keep that one.
RecordLoses(p) ==
    /\ payer[p].pc = "record" /\ OrderFree
    /\ Payable
    /\ pay[payer[p].got] = "none"
    /\ PendingSeenBy(p) # {}
    /\ payer' = [payer EXCEPT ![p].pc = "loser", ![p].reuse = Newest(PendingSeenBy(p))]
    /\ UNCHANGED <<orderVars, payVars, providerVars, eventVars, reconVars, canceller>>

\* The payment row is inserted and its client secret returned; when the response goes
\* out first, the caller can pay before the row is visible to anyone else.
RecordNew(p) ==
    LET i == payer[p].got IN
    /\ payer[p].pc = "record" /\ OrderFree
    /\ Payable
    /\ pay[i] = "none"
    /\ PendingSeenBy(p) = {}
    /\ PendingIndexAllows(i)
    /\ handed' = IF LateCommit THEN handed \cup {i} ELSE handed
    /\ payer' = [payer EXCEPT ![p].pc = "commit"]
    /\ UNCHANGED <<orderVars, payVars, intent, key, eventVars, reconVars, canceller>>

\* The end of get_db: the new row becomes visible and the order lock is released.
CommitNew(p) ==
    LET i == payer[p].got IN
    /\ payer[p].pc = "commit"
    /\ pay' = [pay EXCEPT ![i] = "pending"]
    /\ made' = [made EXCEPT ![i] = Cardinality(Rows) + 1]
    /\ handed' = handed \cup {i}
    /\ payer' = [payer EXCEPT ![p] = IdlePayer]
    /\ UNCHANGED <<orderVars, provider, intent, key, eventVars, reconVars, canceller>>

\* The provider's answer to a cancel request for intent i: the new state of i.
Canceled(st) == IF st = "open" THEN "canceled" ELSE st

\* _cancel_orphan_intent: cancelled, or flagged when it cannot be or the call fails
\* (a timed-out call may have cancelled it all the same).
CancelOrphan(p) ==
    LET i == payer[p].got IN
    /\ payer[p].pc \in {"orphan", "loser"}
    /\ \/ /\ SupportsCancel
          /\ intent' = [intent EXCEPT ![i] = Canceled(@)]
          /\ UNCHANGED recon
       \/ /\ \/ SupportsCancel /\ intent' = [intent EXCEPT ![i] = Canceled(@)]
             \/ UNCHANGED intent
          /\ recon' = recon \cup {<<"cancel_uncertain", i>>}
    /\ payer' = [payer EXCEPT ![p] = IF @.pc = "orphan" THEN IdlePayer ELSE [@ EXCEPT !.pc = "winner"]]
    /\ UNCHANGED <<orderVars, payVars, key, handed, eventVars, resolved, canceller>>

\* The losing request returns the winner's intent while that is still open.
ReturnWinner(p) ==
    /\ payer[p].pc = "winner"
    /\ intent[payer[p].reuse] \in OpenIntent
    /\ handed' = handed \cup {payer[p].reuse}
    /\ payer' = [payer EXCEPT ![p] = IdlePayer]
    /\ UNCHANGED <<orderVars, payVars, intent, key, eventVars, reconVars, canceller>>

\* The request ends without (further) effect: it raises because the order is no longer
\* payable, the reused intent succeeded or the pending index refuses the row (its
\* transaction rolls back), a provider call fails or times out, or the process dies.
PayerStops(p) ==
    /\ payer[p].pc # "idle"
    /\ payer' = [payer EXCEPT ![p] = IdlePayer]
    /\ UNCHANGED <<orderVars, payVars, providerVars, eventVars, reconVars, canceller>>

-----------------------------------------------------------------------------
(* The customer's payment form and the provider (external).                *)

\* The customer submits a payment method on an intent it was given.
Submit(i) ==
    /\ i \in handed
    /\ intent[i] = "open"
    /\ intent' = [intent EXCEPT ![i] = "processing"]
    /\ UNCHANGED <<orderVars, payVars, key, handed, eventVars, reconVars, payer, canceller>>

\* The money is taken; the provider will deliver payment_intent.succeeded until acknowledged.
Capture(i) ==
    /\ intent[i] = "processing"
    /\ intent' = [intent EXCEPT ![i] = "succeeded"]
    /\ evt' = [evt EXCEPT !["succeeded"][i] = "sent"]
    /\ UNCHANGED <<orderVars, payVars, key, handed, seen, dfr, tries, failures, lost, reconVars, payer, canceller>>

\* The attempt is declined; the intent can be tried again. Bound: one failure event per intent.
Decline(i) ==
    /\ intent[i] = "processing"
    /\ evt["failed"][i] = "none"
    /\ intent' = [intent EXCEPT ![i] = "open"]
    /\ evt' = [evt EXCEPT !["failed"][i] = "sent"]
    /\ UNCHANGED <<orderVars, payVars, key, handed, seen, dfr, tries, failures, lost, reconVars, payer, canceller>>

-----------------------------------------------------------------------------
(* Webhook deliveries and deferred events. An event is one transaction: a  *)
(* concurrent duplicate waits on the claimed key, so each event has at     *)
(* most one handler in progress.                                           *)

\* Mutant: a failed delivery cannot be claimed again.
ClaimableOnce(h, i) ==
    IF h = "deferred" THEN dfr[i] = "pending" ELSE evt[h][i] = "sent"

\* claim_webhook_event accepts a new event and one whose last attempt failed.
Claimable(h, i) ==
    IF h = "deferred" THEN dfr[i] = "pending" ELSE evt[h][i] \in {"sent", "failed"}

\* Claim the event and read its payment, without locking the payment row.
ClaimEvent(h, i) ==
    /\ seen[h][i] = "idle"
    /\ Claimable(h, i)
    /\ seen' = [seen EXCEPT ![h][i] = pay[i]]
    /\ UNCHANGED <<orderVars, payVars, providerVars, evt, dfr, tries, failures, lost, reconVars, payer, canceller>>

\* finish_webhook_event, or the deferred row becoming `recovered` and closing its record.
FinishEvent(h, i) ==
    /\ seen' = [seen EXCEPT ![h][i] = "idle"]
    /\ IF h = "deferred"
       THEN /\ dfr' = [dfr EXCEPT ![i] = "recovered"]
            /\ tries' = [tries EXCEPT ![i] = @ + 1]
            /\ resolved' = resolved \cup ({<<"unmatched_payment", i>>} \cap recon)
            /\ UNCHANGED evt
       ELSE /\ evt' = [evt EXCEPT ![h][i] = "done"]
            /\ UNCHANGED <<dfr, tries, resolved>>
    /\ UNCHANGED <<failures, lost>>

\* mark_paid and the confirmation email job, in the transaction that locked the order.
MarkPaid(i) ==
    /\ status' = "paid"
    /\ paidBy' = i
    /\ mails' = mails + 1
    /\ UNCHANGED <<restocks, recon>>

\* Money for an order that is no longer pending: recorded for a human, never applied.
LatePayment(i) ==
    /\ recon' = recon \cup {<<"late_payment", i>>}
    /\ UNCHANGED orderVars

\* Mutant: the amount and currency of the event are not verified.
PaymentSucceededUnverified(h, i) ==
    /\ h \in {"succeeded", "deferred"} /\ OrderFree
    /\ seen[h][i] \notin {"idle", "none"}
    /\ pay' = IF seen[h][i] # "succeeded" THEN [pay EXCEPT ![i] = "succeeded"] ELSE pay
    /\ IF status = "pending" THEN MarkPaid(i) ELSE LatePayment(i)
    /\ FinishEvent(h, i)
    /\ UNCHANGED <<made, provider, providerVars, payer, canceller>>

\* _handle_payment_succeeded, for a known payment whose amount and currency match.
PaymentSucceeded(h, i) ==
    /\ h \in {"succeeded", "deferred"} /\ OrderFree
    /\ seen[h][i] \notin {"idle", "none"}
    /\ i \notin Mismatched
    /\ pay' = IF seen[h][i] # "succeeded" THEN [pay EXCEPT ![i] = "succeeded"] ELSE pay
    /\ IF status = "pending" THEN MarkPaid(i) ELSE LatePayment(i)
    /\ FinishEvent(h, i)
    /\ UNCHANGED <<made, provider, providerVars, payer, canceller>>

\* _event_matches_payment fails: flagged, never treated as a success.
PaymentMismatch(h, i) ==
    /\ h \in {"succeeded", "deferred"}
    /\ seen[h][i] \notin {"idle", "none"}
    /\ i \in Mismatched
    /\ recon' = recon \cup {<<"amount_mismatch", i>>}
    /\ FinishEvent(h, i)
    /\ UNCHANGED <<orderVars, payVars, providerVars, payer, canceller>>

\* Mutant: the event is deferred without a reconciliation record.
PaymentUnmatchedSilently(i) ==
    /\ seen["succeeded"][i] = "none"
    /\ dfr' = [dfr EXCEPT ![i] = IF @ = "none" THEN "pending" ELSE @]
    /\ seen' = [seen EXCEPT !["succeeded"][i] = "idle"]
    /\ evt' = [evt EXCEPT !["succeeded"][i] = "done"]
    /\ UNCHANGED <<orderVars, payVars, providerVars, tries, failures, lost, reconVars, payer, canceller>>

\* No payment row yet: open an unmatched_payment record and keep the event for recovery.
PaymentUnmatched(i) ==
    /\ seen["succeeded"][i] = "none"
    /\ recon' = recon \cup {<<"unmatched_payment", i>>}
    /\ dfr' = [dfr EXCEPT ![i] = IF @ = "none" THEN "pending" ELSE @]
    /\ seen' = [seen EXCEPT !["succeeded"][i] = "idle"]
    /\ evt' = [evt EXCEPT !["succeeded"][i] = "done"]
    /\ UNCHANGED <<orderVars, payVars, providerVars, tries, failures, lost, resolved, payer, canceller>>

\* Mutant: attempts that find no payment are not counted.
DeferredMissingUncounted(i) ==
    /\ seen["deferred"][i] = "none"
    /\ seen' = [seen EXCEPT !["deferred"][i] = "idle"]
    /\ UNCHANGED <<orderVars, payVars, providerVars, evt, dfr, tries, failures, lost, reconVars, payer, canceller>>

\* reprocess_deferred_events, payment still missing: count the attempt; give up at the
\* limit (or, at any attempt, because the recovery window is over).
DeferredMissing(i) ==
    /\ seen["deferred"][i] = "none"
    /\ seen' = [seen EXCEPT !["deferred"][i] = "idle"]
    /\ tries' = [tries EXCEPT ![i] = @ + 1]
    /\ \/ dfr' = [dfr EXCEPT ![i] = "expired"]
       \/ tries[i] + 1 < MaxTries /\ UNCHANGED dfr
    /\ UNCHANGED <<orderVars, payVars, providerVars, evt, failures, lost, reconVars, payer, canceller>>

\* _handle_payment_failed: the status checked is the one read at the start, and the
\* order is not locked. (An unchanged attribute is not written back.)
PaymentFailed(i) ==
    /\ seen["failed"][i] # "idle"
    /\ pay' = IF seen["failed"][i] \in {"none", "succeeded", "failed"} THEN pay
              ELSE [pay EXCEPT ![i] = "failed"]
    /\ FinishEvent("failed", i)
    /\ UNCHANGED <<orderVars, made, provider, providerVars, recon, payer, canceller>>

\* The handler raises: everything it did rolls back; a live event is recorded `failed`
\* and redelivered, a deferred one counts the attempt and gives up at the limit.
HandlerFails(h, i) ==
    /\ seen[h][i] # "idle"
    /\ failures < MaxFailures
    /\ failures' = failures + 1
    /\ seen' = [seen EXCEPT ![h][i] = "idle"]
    /\ IF h = "deferred"
       THEN /\ tries' = [tries EXCEPT ![i] = @ + 1]
            /\ dfr' = [dfr EXCEPT ![i] = IF tries[i] + 1 >= MaxTries THEN "expired" ELSE @]
            /\ UNCHANGED evt
       ELSE /\ evt' = [evt EXCEPT ![h][i] = "failed"]
            /\ UNCHANGED <<dfr, tries>>
    /\ UNCHANGED <<orderVars, payVars, providerVars, lost, reconVars, payer, canceller>>

\* The response is sent before get_db commits: a process or connection lost in between
\* leaves the event acknowledged (never redelivered) and nothing recorded.
AckLost(h, i) ==
    /\ LateCommit
    /\ lost < MaxLostAcks
    /\ h \in Events /\ seen[h][i] # "idle"
    /\ lost' = lost + 1
    /\ seen' = [seen EXCEPT ![h][i] = "idle"]
    /\ evt' = [evt EXCEPT ![h][i] = "done"]
    /\ UNCHANGED <<orderVars, payVars, providerVars, dfr, tries, failures, reconVars, payer, canceller>>

-----------------------------------------------------------------------------
(* cancel_order: the customer's or administrator's request, or expire_order. *)

\* Phase 1: lock, check, remember the payments, commit. An intent of a provider that
\* cannot cancel is skipped. The payment objects stay in the session (snap).
BeginCancel(c) ==
    /\ canceller[c].pc = "idle" /\ OrderFree
    /\ Payable
    /\ canceller' = [canceller EXCEPT ![c] =
           [IdleCanceller EXCEPT !.pc = "ask", !.todo = IF SupportsCancel THEN Rows ELSE {},
                                 !.snap = pay]]
    /\ UNCHANGED <<orderVars, payVars, providerVars, eventVars, reconVars, payer>>

\* Phase 2: ask the provider to cancel one intent; a failed call leaves it unknown.
AskCancel(c, i) ==
    /\ canceller[c].pc = "ask"
    /\ i \in canceller[c].todo
    /\ \/ /\ intent' = [intent EXCEPT ![i] = Canceled(@)]
          /\ canceller' = [canceller EXCEPT ![c].todo = @ \ {i},
                 ![c].completed = @ \/ intent[i] = "succeeded",
                 ![c].uncertain = @ \/ Canceled(intent[i]) \notin {"succeeded", "canceled"}]
       \/ /\ intent' = [intent EXCEPT ![i] = Canceled(@)] \/ UNCHANGED intent
          /\ canceller' = [canceller EXCEPT ![c].todo = @ \ {i}, ![c].uncertain = TRUE]
    /\ UNCHANGED <<orderVars, payVars, key, handed, eventVars, reconVars, payer>>

\* The provider took the money, or its state is unknown: nothing is cancelled and a
\* reconciliation record is opened for the order.
CancelReports(c) ==
    /\ canceller[c].pc = "ask"
    /\ canceller[c].todo = {}
    /\ canceller[c].completed \/ canceller[c].uncertain
    /\ recon' = recon \cup
         {<<IF canceller[c].completed THEN "cancel_payment_succeeded" ELSE "cancel_uncertain", NoIntent>>}
    /\ canceller' = [canceller EXCEPT ![c] = IdleCanceller]
    /\ UNCHANGED <<orderVars, payVars, providerVars, eventVars, resolved, payer>>

\* Payment status as phase 3 sees it: the object loaded in phase 1 if there is one.
SnapStatus(c, i) == IF canceller[c].snap[i] # "none" THEN canceller[c].snap[i] ELSE pay[i]

\* Mutant: phase 3 does not re-check the order it has re-locked.
CommitCancelUnchecked(c) ==
    /\ canceller[c].pc = "ask"
    /\ canceller[c].todo = {}
    /\ ~canceller[c].completed /\ ~canceller[c].uncertain
    /\ OrderFree
    /\ pay' = [i \in Intents |-> IF SnapStatus(c, i) = "pending" THEN "failed" ELSE pay[i]]
    /\ restocks' = restocks + 1
    /\ status' = "cancelled"
    /\ canceller' = [canceller EXCEPT ![c] = IdleCanceller]
    /\ UNCHANGED <<paidBy, mails, made, provider, providerVars, eventVars, reconVars, payer>>

\* Mutant: stock is released before the order is re-checked.
CommitCancelRestocksFirst(c) ==
    /\ canceller[c].pc = "ask"
    /\ canceller[c].todo = {}
    /\ ~canceller[c].completed /\ ~canceller[c].uncertain
    /\ OrderFree
    /\ restocks' = restocks + 1
    /\ status' = IF status = "pending" THEN "cancelled" ELSE status
    /\ canceller' = [canceller EXCEPT ![c] = IdleCanceller]
    /\ UNCHANGED <<paidBy, mails, payVars, providerVars, eventVars, reconVars, payer>>

\* Phase 3: re-lock and re-check, fail the pending payments, restock and cancel together.
CommitCancel(c) ==
    /\ canceller[c].pc = "ask"
    /\ canceller[c].todo = {}
    /\ ~canceller[c].completed /\ ~canceller[c].uncertain
    /\ status = "pending" /\ OrderFree
    /\ \A i \in Intents : SnapStatus(c, i) # "succeeded"
    /\ pay' = [i \in Intents |-> IF SnapStatus(c, i) = "pending" THEN "failed" ELSE pay[i]]
    /\ restocks' = restocks + 1
    /\ status' = "cancelled"
    /\ canceller' = [canceller EXCEPT ![c] = IdleCanceller]
    /\ UNCHANGED <<paidBy, mails, made, provider, providerVars, eventVars, reconVars, payer>>

\* Phase 3 finds the order already cancelled or paid, or the process dies.
CancelStops(c) ==
    /\ canceller[c].pc # "idle"
    /\ canceller' = [canceller EXCEPT ![c] = IdleCanceller]
    /\ UNCHANGED <<orderVars, payVars, providerVars, eventVars, reconVars, payer>>

-----------------------------------------------------------------------------
PayerStep(p) ==
    \/ PlanPayment(p) \/ RetrieveIntent(p) \/ ReuseOpen(p) \/ ReuseTerminal(p)
    \/ CreateIntent(p) \/ RecordRefused(p) \/ RecordExisting(p) \/ RecordLoses(p)
    \/ RecordNew(p) \/ CommitNew(p) \/ CancelOrphan(p) \/ ReturnWinner(p) \/ PayerStops(p)

ProviderStep(i) == Submit(i) \/ Capture(i) \/ Decline(i)

\* The end of an event handler's transaction, other than a failure.
ApplyEvent(i) ==
    \/ \E h \in Handlers : PaymentSucceeded(h, i) \/ PaymentMismatch(h, i)
    \/ PaymentUnmatched(i) \/ DeferredMissing(i) \/ PaymentFailed(i)

EventStep(i) ==
    \/ \E h \in Handlers : ClaimEvent(h, i) \/ HandlerFails(h, i) \/ AckLost(h, i)
    \/ ApplyEvent(i)

CancelStep(c) ==
    \/ BeginCancel(c) \/ CancelReports(c) \/ CommitCancel(c) \/ CancelStops(c)
    \/ \E i \in Intents : AskCancel(c, i)

Next ==
    \/ \E p \in Payers : PayerStep(p)
    \/ \E i \in Intents : ProviderStep(i) \/ EventStep(i)
    \/ \E c \in Cancellers : CancelStep(c)

\* The provider redelivers an event until it is acknowledged and the scheduled job keeps
\* taking due deferred events; a transaction that holds the order lock ends, and the
\* database grants the lock to waiting handlers (hence strong fairness). Nothing else is
\* assumed to happen.
Fairness ==
    /\ \A p \in Payers : WF_vars(payer[p].pc = "commit" /\ PayerStep(p))
    /\ \A i \in Intents :
         /\ \A h \in Handlers : WF_vars(ClaimEvent(h, i))
         /\ SF_vars(ApplyEvent(i))

Spec == Init /\ [][Next]_vars /\ Fairness
-----------------------------------------------------------------------------
\* The values the tables, the provider and the handlers in progress can hold.
TypeOK ==
    /\ status \in {"pending", "paid", "cancelled"}
    /\ paidBy \in Intents \cup {NoIntent}
    /\ restocks \in Nat /\ mails \in Nat
    /\ pay \in [Intents -> PayStatus]
    /\ made \in [Intents -> Nat]
    /\ provider \in Providers
    /\ intent \in [Intents -> IntentStatus]
    /\ key \in [Intents -> Nat]
    /\ handed \subseteq Intents
    /\ evt \in [Events -> [Intents -> {"none", "sent", "failed", "done"}]]
    /\ seen \in [Handlers -> [Intents -> PayStatus \cup {"idle"}]]
    /\ dfr \in [Intents -> {"none", "pending", "recovered", "expired"}]
    /\ tries \in [Intents -> Nat]
    /\ failures \in Nat /\ lost \in Nat
    /\ recon \subseteq ReconKinds \X (Intents \cup {NoIntent})
    /\ resolved \subseteq recon
    /\ payer \in [Payers -> [pc : {"idle", "retrieve", "relock", "create", "record",
                                   "commit", "orphan", "loser", "winner"},
                             key : Nat, reuse : Intents \cup {NoIntent},
                             st : IntentStatus, got : Intents \cup {NoIntent}]]
    /\ canceller \in [Cancellers -> [pc : {"idle", "ask"}, todo : SUBSET Intents,
                                     uncertain : BOOLEAN, completed : BOOLEAN,
                                     snap : [Intents -> PayStatus]]]

\* A captured payment has been dealt with: it paid the order, or a reconciliation
\* record for it exists that was not closed in favour of anything else.
Accounted(i) ==
    \/ paidBy = i
    \/ <<"late_payment", i>> \in recon
    \/ <<"amount_mismatch", i>> \in recon
    \/ <<"unmatched_payment", i>> \in recon \ resolved

\* No acknowledged success event is lost: once payment_intent.succeeded was answered
\* with 200 its money is credited to the order or waits in an open reconciliation
\* record, through deferral, recovery, late payments and handler failures, as long as
\* no commit failed after its response had been sent (AckLost).
MoneyAccounted ==
    lost = 0 => \A i \in Intents : evt["succeeded"][i] = "done" => Accounted(i)

\* mark_paid only ever acts on money the provider captured for the right amount.
PaidIsBacked ==
    status = "paid" => /\ paidBy \in Intents \ Mismatched
                       /\ intent[paidBy] = "succeeded"
                       /\ pay[paidBy] # "none"

\* Stock goes back exactly once, for exactly the cancelled orders, whichever of the
\* racing cancellations and payments wins.
StockFollowsOrder == restocks = IF status = "cancelled" THEN 1 ELSE 0

\* The confirmation email is queued once, when the order is paid and only then.
OneConfirmation == mails = IF status = "paid" THEN 1 ELSE 0

\* A payment is never recorded as succeeded while its order stays pending: cancel_order
\* may decide phase 3 from payment objects loaded in phase 1 only because of this.
SucceededSettlesOrder == \A i \in Intents : pay[i] = "succeeded" => status # "pending"

\* What cancel_order and mark_paid decide is carried out once and agrees with the payment rows.
DecisionCarriedOut == StockFollowsOrder /\ OneConfirmation /\ SucceededSettlesOrder

\* No race of payers and webhooks leaves two pending payment rows for the order, nor a
\* pending row whose intent the provider does not know.
OnePendingRow ==
    \A i \in Intents : pay[i] = "pending" =>
        /\ intent[i] # "absent"
        /\ \A j \in Intents : pay[j] = "pending" => j = i

\* With a provider that de-duplicates creation and can cancel, a customer never holds
\* two intents of the order that can both still be paid. (Razorpay can do neither.)
OnePayableIntent ==
    provider = "stripe" => Cardinality({i \in handed : intent[i] \in OpenIntent}) <= 1

\* Requests to pay that race (create_payment_for_order) leave the customer one way to pay.
OneWayToPay == OnePendingRow /\ OnePayableIntent

\* The payment that paid the order stays succeeded (docs/STATUS.md: "a failure after
\* success never downgrades a payment").
CreditedPaymentStands == status = "paid" => pay[paidBy] = "succeeded"

\* The order's money and stock follow the abstract ledger.
Ledger == INSTANCE OrderLedger WITH
    outcome <- IF status = "pending" THEN "open" ELSE status,
    releases <- restocks,
    captured <- {i \in Intents : intent[i] = "succeeded"},
    reported <- {i \in Intents : \E k \in {"unmatched_payment", "late_payment", "amount_mismatch"} :
                                     <<k, i>> \in recon}

\* Every behaviour of payers, webhooks, jobs and cancellations is a behaviour of the
\* ledger: decided once, backed by a capture, stock and cancellation in one step.
ImplementsLedger == Ledger!Spec

\* Redelivery and deferred recovery get every captured payment credited or reported
\* (again unless the commit behind an acknowledgement was lost).
CapturesSettle == \A i \in Intents : intent[i] = "succeeded" ~> Accounted(i) \/ lost > 0

\* Recovery of a deferred event is bounded: it ends recovered or expired.
DeferralEnds == \A i \in Intents : dfr[i] = "pending" ~> dfr[i] # "pending"
=============================================================================
