------------------------------ MODULE Worklist ------------------------------
(***************************************************************************)
(* What a human must look at: the rows of payment_reconciliations          *)
(* (app/modules/payments: ReconciliationRepository, the administrator's    *)
(* half of OrderLifecycleService, and the recovery job that closes what it *)
(* could settle by itself).                                                *)
(*                                                                         *)
(* A problem is recorded once for its dedupe key.  Administrators lock a   *)
(* record while they close it, with a note or by asking for a refund of    *)
(* its payment.                                                            *)
(***************************************************************************)
EXTENDS Common, Naturals

CONSTANTS
    Problems,    \* dedupe keys
    Payments,
    PaymentOf,   \* PaymentOf[k]: the payment a problem names, or None (an unmatched event's)
    Recoverable, \* keys the recovery job closes
    MaxReports   \* bound: times the system reports

VARIABLES
    problem, \* the record of a key, None before the first report
    refund,  \* "none", "active" or "done": the payment's refund
    closing, \* the record each administrator's request has locked, and how it will close it
    reports  \* reports made

worklistVars == <<problem, refund, closing, reports>>

NotClosing == [key |-> None]

\* An open record, and one closed by someone (None: the system).
Open == [status |-> "open", resolution |-> None, by |-> None]
Resolved(resolution, by) == [status |-> "resolved", resolution |-> resolution, by |-> by]
IsOpen(k) == problem[k] # None /\ problem[k].status = "open"

WorklistInit ==
    /\ problem = [k \in Problems |-> None]
    /\ refund = [p \in Payments |-> "none"]
    /\ closing = [a \in Requests |-> NotClosing]
    /\ reports = 0

\* record: the first report of a key opens it; every later one, also of a problem that comes back after it was closed,
\* adds nothing.
Recorded(k) == IF problem[k] = None THEN [problem EXCEPT ![k] = Open] ELSE problem

\* reconcile
Reconcile(k) ==
    /\ reports < MaxReports /\ reports' = reports + 1
    /\ problem' = Recorded(k)
    /\ UNCHANGED <<refund, closing>>

\* Mutant: the record is read without FOR UPDATE.
RecordFreeAlways(k) == TRUE

\* get(for_update=True)
RecordFree(k) == \A a \in Requests : closing[a].key # k

StartClosing(a, k, how) ==
    /\ closing[a] = NotClosing /\ RecordFree(k) /\ IsOpen(k)
    /\ closing' = [closing EXCEPT ![a] = [key |-> k, how |-> how]]
    /\ UNCHANGED <<problem, refund, reports>>

\* resolve_reconciliation: no order and no money changes.
StartResolve(a, k) == StartClosing(a, k, "resolve")

FinishResolve(a, resolution) ==
    LET k == closing[a].key IN
    /\ k # None /\ closing[a].how = "resolve"
    /\ problem' = [problem EXCEPT ![k] = Resolved(resolution, a)]
    /\ closing' = [closing EXCEPT ![a] = NotClosing]
    /\ UNCHANGED <<refund, reports>>

\* refund_from_reconciliation: the record must name a payment ...
StartRefund(a, k) == PaymentOf[k] # None /\ StartClosing(a, k, "refund")

\* ... request_refund returns the refund that is active or creates one; a payment already repaid is refused and the
\* record stays open.
FinishRefund(a) ==
    LET k == closing[a].key IN
    /\ k # None /\ closing[a].how = "refund"
    /\ IF refund[PaymentOf[k]] = "done"
       THEN UNCHANGED <<problem, refund>>
       ELSE /\ refund' = [refund EXCEPT ![PaymentOf[k]] = "active"]
            /\ problem' = [problem EXCEPT ![k] = Resolved("refund_requested", a)]
    /\ closing' = [closing EXCEPT ![a] = NotClosing]
    /\ UNCHANGED reports

\* resolve_by_dedupe_key: an UPDATE of a record that is still open once its lock is free.
ResolveByDedupeKey(k) ==
    /\ RecordFree(k) /\ IsOpen(k)
    /\ problem' = [problem EXCEPT ![k] = Resolved("no_action_needed", None)]
    /\ UNCHANGED <<refund, closing, reports>>

\* The provider confirms the refund, or it fails and can be asked for again.
RefundEnds(p, outcome) ==
    /\ refund[p] = "active"
    /\ refund' = [refund EXCEPT ![p] = outcome]
    /\ UNCHANGED <<problem, closing, reports>>

WorklistNext ==
    \/ \E k \in Problems : Reconcile(k)
    \/ \E k \in Recoverable : ResolveByDedupeKey(k)
    \/ \E a \in Requests :
           \/ \E k \in Problems : StartResolve(a, k) \/ StartRefund(a, k)
           \/ \E resolution \in {"handled_externally", "no_action_needed"} : FinishResolve(a, resolution)
           \/ FinishRefund(a)
    \/ \E p \in Payments, outcome \in {"none", "done"} : RefundEnds(p, outcome)

WorklistSpec == WorklistInit /\ [][WorklistNext]_worklistVars

-----------------------------------------------------------------------------
\* What was decided stands: a closed record keeps its resolution and who gave it, whoever else, another administrator,
\* the recovery job or a repeated report, was at it at the same time (resolve_reconciliation: only an open record).
ResolutionStands ==
    \A k \in Problems : problem[k] # None /\ problem[k].status = "resolved" => problem'[k] = problem[k]
=============================================================================
