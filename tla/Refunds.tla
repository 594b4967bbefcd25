------------------------------- MODULE Refunds -------------------------------
(***************************************************************************)
(* The refunds of ONE captured payment: requested through NovaCart and     *)
(* executed by a job, made at the provider (its dashboard), reported by    *)
(* webhooks in any order, and overlapping with disputes and fulfilment.    *)
(*                                                                         *)
(* A NovaCart request always asks for the full amount, so request q stands *)
(* for its row, its idempotency key and the provider refund made with that *)
(* key. A webhook handler first reads without locks (the refund it matches *)
(* and, if it had to look the payment up, the payment's refunded total),   *)
(* and applies its event under locks in a second step: a payment object    *)
(* loaded by the first read is not read again by the second.               *)
(***************************************************************************)
EXTENDS Integers, FiniteSets, Functions

CONSTANTS
    Requests,       \* refunds requested through NovaCart
    Externals,      \* refunds made at the provider
    Disputes,       \* disputes on the payment
    NoRow,          \* no refund row matched
    ExtRow,         \* the row matched is a recorded provider refund
    Amount,         \* the payment's amount
    ExtAmount,      \* amount of each refund made at the provider
    MaxAttempts,    \* refund_max_attempts
    MaxJobAttempts, \* jobs_default_max_attempts
    MaxCrashes      \* bound: worker deaths in one behaviour

Ids == Requests \cup Externals  \* provider refund ids

ASSUME DistinctAssumption ==
    /\ Requests \cap Externals = {} /\ {NoRow, ExtRow} \cap Ids = {} /\ NoRow # ExtRow
ASSUME FiniteAssumption == IsFiniteSet(Ids)
ASSUME AmountAssumption == Amount \in Nat \ {0} /\ ExtAmount \in [Externals -> 1..Amount]
ASSUME BoundAssumption == MaxAttempts \in Nat \ {0} /\ MaxJobAttempts \in Nat \ {0} /\ MaxCrashes \in Nat

VARIABLES
    ord,        \* orders.status, from paid (or cancelled with a late payment) on
    restocks,   \* how often the order's stock was released
    shipped,    \* the order was fulfilled at some point
    payStatus,  \* payments.status
    total,      \* payments.refunded_amount_cents
    req,        \* refunds rows with origin = requested
    ext,        \* provider refund ids recorded with origin = provider
    prov,       \* the provider's refunds
    ev,         \* refund.* webhook events, per provider refund and status
    job,        \* the execute_refund job of each request
    crashes,    \* worker deaths so far
    dsp,        \* disputes.status
    recon       \* payment_reconciliations opened

vars == <<ord, restocks, shipped, payStatus, total, req, ext, prov, ev, job, crashes, dsp, recon>>

InFlight == {"requested", "pending", "uncertain"}
OpenDispute == {"open", "under_review"}
FinalDispute == {"won", "lost", "closed"}
EventStatus == {"pending", "succeeded", "failed"}
NotLoaded == -1     \* a handler that has not read the payment's total

NoRequest == [status |-> "none", pid |-> NoRow, attempts |-> 0, cancels |-> FALSE]
NoEvent == [pc |-> "none", row |-> NoRow, base |-> NotLoaded]

\* A paid order, or a cancelled one (its stock is back) that was paid late.
Init ==
    /\ ord \in {"paid", "cancelled"}
    /\ restocks = IF ord = "cancelled" THEN 1 ELSE 0
    /\ shipped = FALSE
    /\ payStatus = "succeeded" /\ total = 0
    /\ req = [q \in Requests |-> NoRequest]
    /\ ext = {}
    /\ prov = [r \in Ids |-> "absent"]
    /\ ev = [r \in Ids |-> [s \in EventStatus |-> NoEvent]]
    /\ job = [q \in Requests |-> [pc |-> "none", tries |-> 0]]
    /\ crashes = 0
    /\ dsp = [d \in Disputes |-> "none"]
    /\ recon = {}

-----------------------------------------------------------------------------
\* The amount of a provider refund.
AmountOf(r) == IF r \in Requests THEN Amount ELSE ExtAmount[r]
SumOf(S) == SumFunctionOnSet([r \in Ids |-> AmountOf(r)], S)

\* get_active_for_payment, committed_amount, has_open.
Active == {q \in Requests : req[q].status \in InFlight}
Committed == SumOf({q \in Requests : req[q].status \in InFlight \cup {"succeeded"}}) + SumOf(ext)
DisputeOpen == \E d \in Disputes : dsp[d] \in OpenDispute

\* Mutant: only what the provider confirmed counts.
SubmittedConfirmedOnly == ext # {} \/ \E q \in Requests : req[q].status = "succeeded"

\* has_submitted_refund: it has reached, or may have reached, the provider.
Submitted ==
    \/ ext # {}
    \/ \E q \in Requests : \/ req[q].status \in {"pending", "uncertain", "succeeded"}
                           \/ req[q].status = "requested" /\ req[q].attempts > 0

\* request_refund: refused, or answered with the refund in flight, unless all of this holds.
RequestRefund(q, cancels) ==
    /\ req[q].status = "none"
    /\ cancels => ord = "paid"
    /\ payStatus = "succeeded"
    /\ Active = {}
    /\ ~DisputeOpen
    /\ Committed = 0
    /\ req' = [req EXCEPT ![q] = [NoRequest EXCEPT !.status = "requested", !.cancels = cancels]]
    /\ job' = [job EXCEPT ![q].pc = "queued"]
    /\ UNCHANGED <<ord, restocks, shipped, payStatus, total, ext, prov, ev, crashes, dsp, recon>>

\* fulfil_order.
Fulfil ==
    /\ ord = "paid"
    /\ \A q \in Active : ~req[q].cancels
    /\ ord' = "fulfilled"
    /\ shipped' = TRUE
    /\ UNCHANGED <<restocks, payStatus, total, req, ext, prov, ev, job, crashes, dsp, recon>>

-----------------------------------------------------------------------------
(* Applying what the provider reports.                                     *)

\* The refunded total a handler adds to: what it loaded earlier, else the current one.
Base(b) == IF b = NotLoaded THEN total ELSE b

\* Only a cancellation of goods that never left releases stock, and only once.
Restocks(q) == ord = "paid" /\ req[q].cancels /\ restocks = 0

\* _confirm_refund with the order locked: add the amount, and complete the refund of the
\* order (restocking a cancelled, unshipped one) once the whole payment is back.
ConfirmRefund(q, amount, b) ==
    LET paidBack == Base(b) + amount
        completes == paidBack >= Amount /\ ord \in {"paid", "fulfilled"} IN
    /\ total' = paidBack
    /\ payStatus' = IF paidBack >= Amount THEN "refunded" ELSE payStatus
    /\ ord' = IF completes THEN "refunded" ELSE ord
    /\ restocks' = IF completes /\ Restocks(q) THEN restocks + 1 ELSE restocks

\* Reconciliation records of one application of a provider state to request q.
RefundRecords(q, r, status) ==
    (IF AmountOf(r) # Amount THEN {<<"refund_mismatch", q>>} ELSE {})
    \cup (IF status = "succeeded" /\ req[q].status \in InFlight /\ DisputeOpen
          THEN {<<"dispute_during_refund", q>>} ELSE {})

\* Mutant: an accepted refund counts as a confirmed one.
ConfirmsAccepted(q, status) == req[q].status \in InFlight /\ status # "failed"
\* Mutant: a final refund is confirmed again by a redelivered event.
ConfirmsAgain(q, status) == status = "succeeded"

\* Only a refund in flight is confirmed, by the provider's `succeeded`.
Confirms(q, status) == req[q].status \in InFlight /\ status = "succeeded"

\* Mutant: the provider's refund id is not kept.
LearnedIdNever(q, r) == req[q].pid

\* The first provider refund id reported for the request is kept.
LearnedId(q, r) == IF req[q].pid = NoRow THEN r ELSE req[q].pid

\* apply_refund_state: provider refund r is reported in `status` and taken for request q.
ApplyRefundState(q, r, status, b) ==
    LET next == CASE status # "pending" /\ req[q].status \in InFlight -> status
                  [] status = "pending" /\ req[q].status = "requested" -> "pending"
                  [] OTHER -> req[q].status IN
    /\ req' = [req EXCEPT ![q].pid = LearnedId(q, r), ![q].status = next]
    /\ IF Confirms(q, status)
       THEN ConfirmRefund(q, AmountOf(r), b)
       ELSE UNCHANGED <<total, payStatus, ord, restocks>>
    /\ recon' = recon \cup RefundRecords(q, r, status)

-----------------------------------------------------------------------------
(* The execute_refund job.                                                 *)

\* A dispute is open and nothing has reached the provider yet.
Blocked(q) == DisputeOpen /\ req[q].attempts = 0

\* Lock order: refund, then payment (the lock dispute recording takes). Nothing was
\* submitted yet and a dispute is open: give up; otherwise count the attempt, commit.
BeginRefundAttempt(q) ==
    /\ job[q].pc = "queued" /\ job[q].tries < MaxJobAttempts
    /\ IF req[q].status # "requested"
       THEN /\ job' = [job EXCEPT ![q].pc = "done", ![q].tries = @ + 1]
            /\ UNCHANGED <<req, recon>>
       ELSE /\ job' = [job EXCEPT ![q].pc = IF Blocked(q) THEN "done" ELSE "call", ![q].tries = @ + 1]
            /\ req' = [req EXCEPT ![q].status = IF Blocked(q) THEN "failed" ELSE @,
                                  ![q].attempts = IF Blocked(q) THEN @ ELSE @ + 1]
            /\ recon' = recon \cup (IF Blocked(q) THEN {<<"refund_blocked_by_dispute", q>>}
                                    ELSE IF DisputeOpen THEN {<<"dispute_during_refund", q>>} ELSE {})
    /\ UNCHANGED <<ord, restocks, shipped, payStatus, total, ext, prov, ev, crashes, dsp>>

\* Money the provider has paid back or is paying back: it never exceeds the payment.
PaidOut == SumOf({r \in Ids : prov[r] \in {"pending", "succeeded"}})

\* The provider accepts a new refund: it is pending, and says so by webhook.
ProviderAccepts(r) ==
    /\ prov[r] = "absent"
    /\ PaidOut + AmountOf(r) <= Amount
    /\ prov' = [prov EXCEPT ![r] = "pending"]
    /\ ev' = [ev EXCEPT ![r]["pending"].pc = "sent"]

\* provider.create_refund reaches the provider; the same key never makes a second refund.
SubmitRefund(q) ==
    /\ job[q].pc = "call"
    /\ \/ ProviderAccepts(q)
       \/ prov[q] # "absent" /\ UNCHANGED <<prov, ev>>
    /\ job' = [job EXCEPT ![q].pc = "sent"]
    /\ UNCHANGED <<ord, restocks, shipped, payStatus, total, req, ext, crashes, dsp, recon>>

\* The call fails, is rejected or times out (possibly after the provider accepted it).
SubmitFails(q) ==
    /\ job[q].pc \in {"call", "sent"}
    /\ job' = [job EXCEPT ![q].pc = "error"]
    /\ UNCHANGED <<ord, restocks, shipped, payStatus, total, req, ext, prov, ev, crashes, dsp, recon>>

\* Mutant: a failed job is not run again.
RequeuedNever(q) == [job EXCEPT ![q].pc = "dead"]

\* A job whose handler raised, or whose worker died, runs again while attempts are left.
Requeued(q) == [job EXCEPT ![q].pc = IF job[q].tries < MaxJobAttempts THEN "queued" ELSE "dead"]

\* The limit record_refund_attempt_failed checks.
MayRetry(q) == req[q].attempts < MaxAttempts

\* record_refund_attempt_failed: retry, or give up as uncertain and open a record.
RecordAttemptFailed(q) ==
    LET live == req[q].status = "requested" IN
    /\ job[q].pc = "error"
    /\ IF live /\ MayRetry(q)
       THEN job' = Requeued(q) /\ UNCHANGED <<req, recon>>
       ELSE /\ job' = [job EXCEPT ![q].pc = "done"]
            /\ req' = [req EXCEPT ![q].status = IF live THEN "uncertain" ELSE @]
            /\ recon' = recon \cup (IF live THEN {<<"refund_uncertain", q>>} ELSE {})
    /\ UNCHANGED <<ord, restocks, shipped, payStatus, total, ext, prov, ev, crashes, dsp>>

\* finish_refund: the answer is the provider's current state or, replayed for a repeated
\* key or overtaken on the way, the `pending` it started with.
FinishRefund(q) ==
    /\ job[q].pc = "sent"
    /\ \E s \in {"pending", prov[q]} : ApplyRefundState(q, q, s, NotLoaded)
    /\ job' = [job EXCEPT ![q].pc = "done"]
    /\ UNCHANGED <<shipped, ext, prov, ev, crashes, dsp>>

\* The worker dies in the middle of an attempt and its lock expires, or the handler times
\* out or raises something other than a provider error: nothing more is recorded.
WorkerDies(q) ==
    /\ job[q].pc \in {"call", "sent", "error"}
    /\ crashes < MaxCrashes
    /\ crashes' = crashes + 1
    /\ job' = Requeued(q)
    /\ UNCHANGED <<ord, restocks, shipped, payStatus, total, req, ext, prov, ev, dsp, recon>>

-----------------------------------------------------------------------------
(* The provider (external).                                                *)

\* A refund is made at the provider, outside NovaCart.
ExternalRefund(x) ==
    /\ ProviderAccepts(x)
    /\ UNCHANGED <<ord, restocks, shipped, payStatus, total, req, ext, job, crashes, dsp, recon>>

\* A pending refund goes through or fails.
Settle(r, s) ==
    /\ prov[r] = "pending"
    /\ s \in {"succeeded", "failed"}
    /\ prov' = [prov EXCEPT ![r] = s]
    /\ ev' = [ev EXCEPT ![r][s].pc = "sent"]
    /\ UNCHANGED <<ord, restocks, shipped, payStatus, total, req, ext, job, crashes, dsp, recon>>

-----------------------------------------------------------------------------
(* refund.* and charge.dispute.* webhooks.                                 *)

\* _handle_refund_event, unlocked part: match by provider refund id, else take the refund
\* in flight for the payment; the payment is loaded only when the id is unknown.
MatchRefund(r, s) ==
    LET byId == {q \in Requests : req[q].pid = r}
        known == byId # {} \/ r \in ext IN
    /\ ev[r][s].pc = "sent"
    /\ \E row \in IF byId # {} THEN byId ELSE IF r \in ext THEN {ExtRow}
                  ELSE IF Active # {} THEN Active ELSE {NoRow} :
         ev' = [ev EXCEPT ![r][s] = [pc |-> "read", row |-> row, base |-> IF known THEN NotLoaded ELSE total]]
    /\ UNCHANGED <<ord, restocks, shipped, payStatus, total, req, ext, prov, job, crashes, dsp, recon>>

Acknowledge(r, s) == ev' = [ev EXCEPT ![r][s] = [NoEvent EXCEPT !.pc = "done"]]

\* The event is applied to the request it matched.
ApplyMatched(r, s) ==
    /\ ev[r][s].pc = "read"
    /\ ev[r][s].row \in Requests
    /\ ApplyRefundState(ev[r][s].row, r, s, ev[r][s].base)
    /\ Acknowledge(r, s)
    /\ UNCHANGED <<shipped, ext, prov, job, crashes, dsp>>

\* The event matched a recorded provider refund, which is final: nothing changes.
ApplyKnownExternal(r, s) ==
    /\ ev[r][s].pc = "read" /\ ev[r][s].row = ExtRow
    /\ Acknowledge(r, s)
    /\ UNCHANGED <<ord, restocks, shipped, payStatus, total, req, ext, prov, job, crashes, dsp, recon>>

\* record_external_refund: recorded once per id and within the payment's amount (the
\* cumulative trigger, which locks the payment); it never touches the order.
RecordExternalRefund(r) ==
    LET known == r \in ext \/ \E q \in Requests : req[q].pid = r
        fits == Committed + AmountOf(r) <= Amount
        paidBack == ev[r]["succeeded"].base + AmountOf(r) IN
    /\ ev[r]["succeeded"].pc = "read" /\ ev[r]["succeeded"].row = NoRow
    /\ IF ~known /\ fits
       THEN /\ ext' = ext \cup {r}
            /\ total' = paidBack
            /\ payStatus' = IF paidBack >= Amount THEN "refunded" ELSE payStatus
       ELSE UNCHANGED <<ext, total, payStatus>>
    /\ recon' = recon \cup (IF known THEN {} ELSE {<<IF fits THEN "external_refund" ELSE "refund_mismatch", r>>})
    /\ Acknowledge(r, "succeeded")
    /\ UNCHANGED <<ord, restocks, shipped, req, prov, job, crashes, dsp>>

\* A refund nobody knows that is not confirmed: flagged only.
FlagUnknownRefund(r, s) ==
    /\ s # "succeeded"
    /\ ev[r][s].pc = "read" /\ ev[r][s].row = NoRow
    /\ recon' = recon \cup {<<"unknown_refund", r>>}
    /\ Acknowledge(r, s)
    /\ UNCHANGED <<ord, restocks, shipped, payStatus, total, req, ext, prov, job, crashes, dsp>>

\* apply_dispute_event, with the payment row locked: events may come in any order; a
\* final dispute never changes and a repeated status says nothing new.
DisputeEvent(d, s) ==
    LET created == dsp[d] = "none" IN
    /\ dsp[d] \notin FinalDispute \cup {s}
    /\ dsp' = [dsp EXCEPT ![d] = s]
    /\ recon' = recon
         \cup (IF created /\ s \in OpenDispute /\ Submitted THEN {<<"dispute_during_refund", d>>} ELSE {})
         \cup (IF created /\ s \in OpenDispute THEN {<<"dispute_opened", d>>} ELSE {})
         \cup (IF s = "lost" THEN {<<"dispute_lost", d>>} ELSE {})
    /\ UNCHANGED <<ord, restocks, shipped, payStatus, total, req, ext, prov, ev, job, crashes>>

-----------------------------------------------------------------------------
JobStep(q) ==
    \/ BeginRefundAttempt(q) \/ SubmitRefund(q) \/ SubmitFails(q)
    \/ RecordAttemptFailed(q) \/ FinishRefund(q)

EventStep(r) ==
    \/ \E s \in EventStatus : \/ MatchRefund(r, s) \/ ApplyMatched(r, s)
                              \/ ApplyKnownExternal(r, s) \/ FlagUnknownRefund(r, s)
    \/ RecordExternalRefund(r)

Next ==
    \/ Fulfil
    \/ \E q \in Requests : \/ JobStep(q) \/ WorkerDies(q)
                           \/ \E cancels \in BOOLEAN : RequestRefund(q, cancels)
    \/ \E x \in Externals : ExternalRefund(x)
    \/ \E r \in Ids : EventStep(r) \/ \E s \in {"succeeded", "failed"} : Settle(r, s)
    \/ \E d \in Disputes, s \in OpenDispute \cup FinalDispute : DisputeEvent(d, s)

\* Workers keep running queued jobs, and the provider settles what it accepted and
\* redelivers its webhooks; requests, dashboard refunds and disputes are up to people.
Fairness ==
    /\ \A q \in Requests : WF_vars(JobStep(q))
    /\ \A r \in Ids : WF_vars(EventStep(r)) /\ WF_vars(\E s \in {"succeeded", "failed"} : Settle(r, s))

Spec == Init /\ [][Next]_vars /\ Fairness

-----------------------------------------------------------------------------
\* The values the tables, the provider and the handlers in progress can hold.
TypeOK ==
    /\ ord \in {"paid", "fulfilled", "refunded", "cancelled"}
    /\ restocks \in Nat /\ shipped \in BOOLEAN
    /\ payStatus \in {"succeeded", "refunded"} /\ total \in Nat
    /\ req \in [Requests -> [status : InFlight \cup {"none", "succeeded", "failed"},
                             pid : Ids \cup {NoRow}, attempts : Nat, cancels : BOOLEAN]]
    /\ ext \subseteq Ids
    /\ prov \in [Ids -> {"absent", "pending", "succeeded", "failed"}]
    /\ ev \in [Ids -> [EventStatus -> [pc : {"none", "sent", "read", "done"},
                                       row : Requests \cup {NoRow, ExtRow}, base : Nat \cup {NotLoaded}]]]
    /\ job \in [Requests -> [pc : {"none", "queued", "call", "sent", "error", "done", "dead"}, tries : Nat]]
    /\ crashes \in Nat
    /\ dsp \in [Disputes -> OpenDispute \cup FinalDispute \cup {"none"}]
    /\ recon \subseteq {"refund_mismatch", "unknown_refund", "external_refund", "refund_uncertain",
                        "refund_blocked_by_dispute", "dispute_during_refund", "dispute_opened",
                        "dispute_lost"} \X (Ids \cup Disputes)

\* Money the provider really gave back.
ReallyPaidBack == SumOf({r \in Ids : prov[r] = "succeeded"})

\* An order is shown as refunded only when the provider really returned the whole
\* payment, whichever of job answers, webhooks and dashboard refunds arrive in what order.
RefundedOrderIsRepaid == ord = "refunded" => ReallyPaidBack = Amount

\* Goods that were shipped are never counted back into stock, and an order's stock never
\* goes back twice, whatever races with fulfilment.
ShippedStaysOut == restocks <= 1 /\ (shipped => restocks = 0)

\* What confirm_refund makes of the order agrees with the money and with the goods.
RefundEndsRight == RefundedOrderIsRepaid /\ ShippedStaysOut

\* While a dispute recorded as open overlaps a NovaCart refund that was submitted or
\* confirmed, a dispute_during_refund record tells a human about it.
OverlapReported ==
    (/\ DisputeOpen
     /\ \E q \in Requests : \/ req[q].status = "succeeded"
                            \/ req[q].status = "requested" /\ req[q].attempts > 0)
    => \E x \in Ids \cup Disputes : <<"dispute_during_refund", x>> \in recon

\* A refund is submitted only while its row is in flight or final; a row that ended
\* `failed` because of a dispute was never sent to the provider.
BlockedNeverSubmitted ==
    \A q \in Requests : <<"refund_blocked_by_dispute", q>> \in recon => prov[q] = "absent"

\* A dispute and a refund of the same payment (begin_refund, record_dispute) never meet unnoticed: the refund is not
\* sent, or somebody is told.
DisputesRespected == OverlapReported /\ BlockedNeverSubmitted

\* Every confirmed refund event that was acknowledged left a trace: in a refund row that
\* names it, or in a reconciliation record.
RefundTraced ==
    \A r \in Ids : ev[r]["succeeded"].pc = "done" =>
        \/ r \in ext
        \/ \E q \in Requests : req[q].pid = r
        \/ <<"refund_mismatch", r>> \in recon

\* The payment's refunded total is what the recorded refunds add up to
\* (record_external_refund: "so the payment's refunded total is true").
TotalIsTrue == total = SumOf({r \in Ids : r \in ext \/ \E q \in Requests : req[q].status = "succeeded" /\ req[q].pid = r})

\* A refund recorded as failed did not go through at the provider.
FailedMeansNotPaid == \A q \in Requests : req[q].status = "failed" => prov[q] # "succeeded"

\* What the refund rows say happened at the provider did happen (finish_refund, handle_refund_event).
RefundsRecorded == RefundTraced /\ FailedMeansNotPaid

\* Every requested refund is decided or handed to a human (record_refund_attempt_failed)
\* as long as worker deaths leave its job one attempt beyond refund_max_attempts; more
\* deaths than that use up the job and the refund stays `requested` with nobody told.
RefundSettles ==
    \A q \in Requests :
        req[q].status = "requested" ~> req[q].status # "requested" \/ crashes > MaxJobAttempts - MaxAttempts
=============================================================================
