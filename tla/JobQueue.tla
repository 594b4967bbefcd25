------------------------------ MODULE JobQueue ------------------------------
(***************************************************************************)
(* The background job queue: rows of background_jobs and the workers that  *)
(* claim and run them. Every statement of worker.py is one short           *)
(* transaction, so it is one step; between a claim and its report the      *)
(* worker may be overtaken by the expiry of its lock, die, or lose its     *)
(* connection to the queue.                                                *)
(*                                                                         *)
(* Wall-clock time is abstract: run_at is "now" (reached) or "later", and  *)
(* lock is "held" while locked_until lies ahead. A job is named by its     *)
(* dedupe key.                                                             *)
(***************************************************************************)
EXTENDS Naturals, FiniteSets

CONSTANTS
    Keys,        \* dedupe keys, one job row each
    Workers,     \* concurrent loops of all worker processes
    NoKey,       \* an idle worker's job
    MaxAttempts, \* max_attempts of every job
    MaxDeaths,   \* bound: workers that stop without reporting
    MaxStalls    \* bound: locks that expire under a live worker

ASSUME NoKeyAssumption == NoKey \notin Keys
ASSUME AttemptsAssumption == MaxAttempts \in Nat \ {0}
ASSUME QueueBoundAssumption == MaxDeaths \in Nat /\ MaxStalls \in Nat

VARIABLES
    row,     \* background_jobs; `claims` counts the row's claims over its whole life
    worker,  \* what each worker holds: job, the attempts it claimed with, claim number
    ran,     \* claims whose handler ended without an error
    deaths, stalls     \* counters of the bounds

queueVars == <<row, worker, ran, deaths, stalls>>

NoRow == [status |-> "absent", attempts |-> 0, run_at |-> "later", lock |-> "free", claims |-> 0]
Idle == [pc |-> "idle", key |-> NoKey, attempts |-> 0, claim |-> 0]

QueueInit ==
    /\ row = [k \in Keys |-> NoRow]
    /\ worker = [w \in Workers |-> Idle]
    /\ ran = {}
    /\ deaths = 0 /\ stalls = 0

-----------------------------------------------------------------------------
\* JobQueue.enqueue, now or delayed; a key that exists, finished or not, adds nothing.
Enqueue(k) ==
    /\ row[k].status = "absent"
    /\ \E t \in {"now", "later"} : row' = [row EXCEPT ![k] = [NoRow EXCEPT !.status = "pending", !.run_at = t]]
    /\ UNCHANGED <<worker, ran, deaths, stalls>>

\* run_at is reached.
BecomesDue(k) ==
    /\ row[k].status = "pending" /\ row[k].run_at = "later"
    /\ row' = [row EXCEPT ![k].run_at = "now"]
    /\ UNCHANGED <<worker, ran, deaths, stalls>>

\* _FAIL_EXHAUSTED_SQL: abandoned jobs that are out of attempts.
Exhausted == {k \in Keys : row[k].status = "running" /\ row[k].lock = "free" /\ row[k].attempts >= MaxAttempts}

\* Mutant: only pending jobs are taken, an abandoned one is not.
JobsToClaimPending == {k \in Keys : row[k].attempts < MaxAttempts /\ row[k].status = "pending" /\ row[k].run_at = "now"}

\* _CLAIM_SQL's selection: due, or abandoned by a worker whose lock expired.
JobsToClaim ==
    {k \in Keys : /\ row[k].attempts < MaxAttempts
                  /\ \/ row[k].status = "pending" /\ row[k].run_at = "now"
                     \/ row[k].status = "running" /\ row[k].lock = "free"}

\* The first statement of claim_next.
FailExhausted == [k \in Keys |-> IF k \in Exhausted THEN [row[k] EXCEPT !.status = "failed"] ELSE row[k]]

\* Mutant: taking over an abandoned job does not count an attempt.
ClaimedUncounted(r) ==
    [r EXCEPT !.status = "running", !.attempts = IF r.status = "pending" THEN @ + 1 ELSE @,
              !.lock = "held", !.claims = @ + 1]

\* A row as _CLAIM_SQL leaves it.
Claimed(r) == [r EXCEPT !.status = "running", !.attempts = @ + 1, !.lock = "held", !.claims = @ + 1]

\* claim_next: fail what is exhausted and take one job, in one transaction.
ClaimNext(w) ==
    /\ worker[w].pc = "idle"
    /\ \E k \in JobsToClaim :
         /\ row' = [FailExhausted EXCEPT ![k] = Claimed(row[k])]
         /\ worker' = [worker EXCEPT ![w] = [pc |-> "run", key |-> k, attempts |-> Claimed(row[k]).attempts,
                                             claim |-> row[k].claims + 1]]
    /\ UNCHANGED <<ran, deaths, stalls>>

\* claim_next finds no job to take.
ClaimNothing(w) ==
    /\ worker[w].pc = "idle"
    /\ JobsToClaim = {} /\ Exhausted # {}
    /\ row' = FailExhausted
    /\ UNCHANGED <<worker, ran, deaths, stalls>>

\* The handler returns, or raises (also: it timed out, or no handler is registered).
HandlerEnds(w, ok) ==
    /\ worker[w].pc = "run"
    /\ worker' = [worker EXCEPT ![w].pc = IF ok THEN "ok" ELSE "error"]
    /\ ran' = IF ok THEN ran \cup {<<worker[w].key, worker[w].claim>>} ELSE ran
    /\ UNCHANGED <<row, deaths, stalls>>

\* Mutant: a result is accepted from any worker while the job runs.
StillHoldsAnyAttempt(w) == row[worker[w].key].status = "running"

\* WHERE id = :id AND status = 'running' AND attempts = :attempts
StillHolds(w) ==
    LET k == worker[w].key IN row[k].status = "running" /\ row[k].attempts = worker[w].attempts

\* complete_job; the result of a worker that was overtaken is ignored.
CompleteJob(w) ==
    /\ worker[w].pc = "ok"
    /\ row' = IF StillHolds(w)
              THEN [row EXCEPT ![worker[w].key].status = "succeeded", ![worker[w].key].lock = "free"]
              ELSE row
    /\ worker' = [worker EXCEPT ![w] = Idle]
    /\ UNCHANGED <<ran, deaths, stalls>>

\* fail_job's `final`.
Final(w) == worker[w].attempts >= MaxAttempts

\* fail_job: give up, or run again after a delay.
FailJob(w) ==
    /\ worker[w].pc = "error"
    /\ row' = IF StillHolds(w)
              THEN [row EXCEPT ![worker[w].key].status = IF Final(w) THEN "failed" ELSE "pending",
                               ![worker[w].key].run_at = "later", ![worker[w].key].lock = "free"]
              ELSE row
    /\ worker' = [worker EXCEPT ![w] = Idle]
    /\ UNCHANGED <<ran, deaths, stalls>>

\* The worker dies, or its report cannot reach the database; nothing is recorded.
WorkerStops(w) ==
    /\ worker[w].pc # "idle" /\ deaths < MaxDeaths
    /\ deaths' = deaths + 1
    /\ worker' = [worker EXCEPT ![w] = Idle]
    /\ UNCHANGED <<row, ran, stalls>>

\* Some worker holds the latest claim of k.
Held(k) == \E w \in Workers : worker[w].key = k /\ worker[w].claim = row[k].claims

\* locked_until passes with nobody left to report.
LockExpires(k) ==
    /\ row[k].status = "running" /\ row[k].lock = "held"
    /\ ~Held(k)
    /\ row' = [row EXCEPT ![k].lock = "free"]
    /\ UNCHANGED <<worker, ran, deaths, stalls>>

\* ... or under a live worker. jobs_lock_seconds exceeds the time limit of an attempt,
\* so this takes a process that is paused or cannot reach the database to report.
LockOverrun(k) ==
    /\ row[k].status = "running" /\ row[k].lock = "held"
    /\ Held(k) /\ stalls < MaxStalls
    /\ stalls' = stalls + 1
    /\ row' = [row EXCEPT ![k].lock = "free"]
    /\ UNCHANGED <<worker, ran, deaths>>

-----------------------------------------------------------------------------
\* What a live worker does by itself.
WorkerStep(w) ==
    ClaimNext(w) \/ ClaimNothing(w) \/ CompleteJob(w) \/ FailJob(w) \/ \E ok \in BOOLEAN : HandlerEnds(w, ok)

QueueNext ==
    \/ \E k \in Keys : Enqueue(k) \/ BecomesDue(k) \/ LockExpires(k) \/ LockOverrun(k)
    \/ \E w \in Workers : WorkerStep(w) \/ WorkerStops(w)

\* Worker loops keep polling and a handler is cut off at its time limit; clocks advance.
QueueFairness ==
    /\ \A w \in Workers : WF_queueVars(WorkerStep(w))
    /\ \A k \in Keys : WF_queueVars(BecomesDue(k)) /\ WF_queueVars(LockExpires(k))

QueueSpec == QueueInit /\ [][QueueNext]_queueVars /\ QueueFairness

-----------------------------------------------------------------------------
RowType == [status : {"absent", "pending", "running", "succeeded", "failed"}, attempts : 0..MaxAttempts,
            run_at : {"now", "later"}, lock : {"held", "free"}, claims : Nat]
WorkerType == [pc : {"idle", "run", "ok", "error"}, key : Keys \cup {NoKey},
               attempts : 0..MaxAttempts, claim : Nat]

\* The values job rows and workers can hold; attempts never exceed max_attempts.
QueueTypeOK ==
    /\ row \in [Keys -> RowType]
    /\ worker \in [Workers -> WorkerType]
    /\ ran \subseteq Keys \X Nat
    /\ deaths \in Nat /\ stalls \in Nat

\* Two workers never hold the same attempt of a job, however locks expire and workers
\* are overtaken (worker.py: "two workers never get the same one").
AttemptsAreExclusive ==
    \A v, w \in Workers :
        v # w /\ worker[v].key = worker[w].key /\ worker[v].key # NoKey
          => worker[v].attempts # worker[w].attempts

\* A job recorded as succeeded was carried out by the very claim that is recorded.
SucceededWasRun == \A k \in Keys : row[k].status = "succeeded" => <<k, row[k].claims>> \in ran

\* A job is given up only after all its attempts were used.
FailedIsExhausted == \A k \in Keys : row[k].status = "failed" => row[k].attempts = MaxAttempts

\* The attempt number fences the workers off from each other (claim_next, complete_job, fail_job).
AttemptsAreFenced == AttemptsAreExclusive /\ SucceededWasRun /\ FailedIsExhausted

\* A report never changes a job that was claimed again meanwhile (worker.py: "this
\* worker's late result must not overwrite the newer attempt's state").
LateResultIgnored ==
    [][\A w \in Workers : LET k == worker[w].key IN
         worker[w].pc \in {"ok", "error"} /\ worker'[w].pc = "idle" /\ worker[w].claim # row[k].claims
           => row'[k] = row[k]]_queueVars

\* A finished job never runs or changes again, whoever enqueues its key or reports late.
FinishedIsFinal ==
    [][\A k \in Keys : row[k].status \in {"succeeded", "failed"} => row'[k] = row[k]]_queueVars

\* No report and no enqueueing undoes what the latest claim of a job did (the attempts guard, ON CONFLICT DO NOTHING).
OutcomeStands == LateResultIgnored /\ FinishedIsFinal

\* Every job ends, whichever workers die on the way.
JobsFinish == \A k \in Keys : row[k].status = "pending" ~> row[k].status \in {"succeeded", "failed"}
=============================================================================
