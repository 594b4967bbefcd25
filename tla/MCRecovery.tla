----------------------------- MODULE MCRecovery -----------------------------
(***************************************************************************)
(* What goes on after a failure, for TLC: the job queue when workers die   *)
(* or are overtaken, and a payment whose events come before its row or     *)
(* whose handlers fail. A behaviour exercises one of the two and leaves    *)
(* the other as it begins, where nothing is waiting in it.                 *)
(***************************************************************************)
EXTENDS JobQueue, OrderPayment

VARIABLE part       \* the component exercised

RecoveryInit == part \in {"jobs", "payments"} /\ QueueInit /\ Init

RecoveryNext ==
    /\ UNCHANGED part
    /\ \/ part = "jobs" /\ QueueNext /\ UNCHANGED vars
       \/ part = "payments" /\ Next /\ UNCHANGED queueVars

RecoverySpec == RecoveryInit /\ [][RecoveryNext]_<<part, queueVars, vars>> /\ QueueFairness /\ Fairness
=============================================================================
