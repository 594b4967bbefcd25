--------------------------- MODULE JobQueue_proofs ---------------------------
(***************************************************************************)
(* For any number of jobs and workers, any max_attempts and any number of  *)
(* deaths and overrun locks: the attempt number a worker claimed with is a *)
(* fencing token. It identifies one claim of one worker, so the guard      *)
(* `status = 'running' AND attempts = :attempts` of the report statements  *)
(* lets exactly the latest claim through.                                  *)
(***************************************************************************)
EXTENDS JobQueue, TLAPS

\* The attempts of a row count its claims, and so does what a worker remembers.
AttemptsCountClaims ==
    /\ \A k \in Keys : row[k].claims = row[k].attempts
    /\ \A w \in Workers : worker[w].claim = worker[w].attempts

\* A worker at work holds a past or the latest attempt of a job that exists.
HoldersAreBehind ==
    \A w \in Workers :
        /\ worker[w].pc # "idle" => worker[w].key \in Keys
        /\ worker[w].pc = "idle" => worker[w].key = NoKey
        /\ worker[w].key \in Keys => /\ row[worker[w].key].status # "absent"
                                     /\ worker[w].attempts <= row[worker[w].key].attempts

\* A worker about to report success has run its handler.
OkWasRun == \A w \in Workers : worker[w].pc = "ok" => <<worker[w].key, worker[w].claim>> \in ran

\* A job that was never enqueued was never claimed.
AbsentUnclaimed == \A k \in Keys : row[k].status = "absent" => row[k] = NoRow

Inv ==
    /\ QueueTypeOK /\ AttemptsCountClaims /\ HoldersAreBehind /\ OkWasRun /\ AbsentUnclaimed
    /\ AttemptsAreExclusive /\ SucceededWasRun /\ FailedIsExhausted

USE NoKeyAssumption, AttemptsAssumption, QueueBoundAssumption

\* What claim_next's first statement does to a row: only an exhausted one changes, to failed.
LEMMA FailExhaustedRow ==
    ASSUME QueueTypeOK
    PROVE  /\ FailExhausted \in [Keys -> RowType]
           /\ \A k \in Keys : \/ FailExhausted[k] = row[k]
                              \/ /\ row[k].status = "running" /\ row[k].attempts = MaxAttempts
                                 /\ FailExhausted[k].status = "failed"
                                 /\ FailExhausted[k].attempts = row[k].attempts
                                 /\ FailExhausted[k].claims = row[k].claims
<1> SUFFICES ASSUME NEW k \in Keys
             PROVE  /\ FailExhausted[k] \in RowType
                    /\ \/ FailExhausted[k] = row[k]
                       \/ /\ row[k].status = "running" /\ row[k].attempts = MaxAttempts
                          /\ FailExhausted[k].status = "failed"
                          /\ FailExhausted[k].attempts = row[k].attempts
                          /\ FailExhausted[k].claims = row[k].claims
  BY DEF FailExhausted
<1>1. row[k] \in RowType
  BY DEF QueueTypeOK
<1>2. CASE k \in Exhausted
  <2>1. row[k].status = "running" /\ row[k].attempts >= MaxAttempts
    BY <1>2 DEF Exhausted
  <2>2. row[k].attempts = MaxAttempts
    BY <1>1, <2>1 DEF RowType
  <2>3. FailExhausted[k] = [row[k] EXCEPT !.status = "failed"]
    BY <1>2 DEF FailExhausted
  <2> QED BY <1>1, <2>1, <2>2, <2>3 DEF RowType
<1>3. CASE k \notin Exhausted
  BY <1>1, <1>3 DEF FailExhausted
<1> QED BY <1>2, <1>3

\* What _CLAIM_SQL does to a row that has attempts left.
LEMMA ClaimedRow ==
    ASSUME NEW r \in RowType, r.attempts < MaxAttempts
    PROVE  /\ Claimed(r) \in RowType
           /\ Claimed(r).status = "running"
           /\ Claimed(r).attempts = r.attempts + 1
           /\ Claimed(r).claims = r.claims + 1
<1>1. r.attempts + 1 \in 0..MaxAttempts /\ r.claims + 1 \in Nat
  BY DEF RowType
<1> QED BY <1>1 DEF RowType, Claimed

\* The initial state: no job, no worker at work.
LEMMA InitInv == QueueInit => Inv
<1> SUFFICES ASSUME QueueInit PROVE Inv
  OBVIOUS
<1>1. 0 \in 0..MaxAttempts
  OBVIOUS
<1>2. NoRow \in RowType /\ Idle \in WorkerType
  BY <1>1 DEF NoRow, Idle, RowType, WorkerType
<1>3. QueueTypeOK
  BY <1>2 DEF QueueInit, QueueTypeOK
<1>4. \A k \in Keys : row[k] = NoRow /\ row[k].status = "absent" /\ row[k].attempts = 0 /\ row[k].claims = 0
  BY DEF QueueInit, NoRow
<1>5. \A w \in Workers : /\ worker[w].pc = "idle" /\ worker[w].key = NoKey
                         /\ worker[w].attempts = 0 /\ worker[w].claim = 0
  BY DEF QueueInit, Idle
<1> QED BY <1>3, <1>4, <1>5 DEF Inv, AttemptsCountClaims, HoldersAreBehind, OkWasRun, AbsentUnclaimed,
                                AttemptsAreExclusive, SucceededWasRun, FailedIsExhausted

\* Taking a job: the new attempt is larger than any that a worker still holds.
LEMMA ClaimInv == ASSUME Inv, NEW w \in Workers, ClaimNext(w) PROVE Inv'
<1> USE DEF Inv
<1>1. PICK k \in JobsToClaim :
        /\ row' = [FailExhausted EXCEPT ![k] = Claimed(row[k])]
        /\ worker' = [worker EXCEPT ![w] = [pc |-> "run", key |-> k, attempts |-> Claimed(row[k]).attempts,
                                            claim |-> row[k].claims + 1]]
  BY DEF ClaimNext
<1>2. /\ k \in Keys /\ row[k].attempts < MaxAttempts /\ row[k].status \in {"pending", "running"}
      /\ worker[w].pc = "idle" /\ UNCHANGED <<ran, deaths, stalls>>
  BY <1>1 DEF JobsToClaim, ClaimNext
<1>3. /\ row[k] \in RowType
      /\ Claimed(row[k]) \in RowType
      /\ Claimed(row[k]).status = "running"
      /\ Claimed(row[k]).attempts = row[k].attempts + 1
      /\ Claimed(row[k]).claims = row[k].claims + 1
  BY <1>2, ClaimedRow DEF QueueTypeOK
<1>4. QueueTypeOK'
  <2>1. row' \in [Keys -> RowType]
    BY <1>1, <1>2, <1>3, FailExhaustedRow
  <2>2. [pc |-> "run", key |-> k, attempts |-> Claimed(row[k]).attempts, claim |-> row[k].claims + 1] \in WorkerType
    BY <1>2, <1>3 DEF RowType, WorkerType
  <2> QED BY <1>1, <1>2, <2>1, <2>2 DEF QueueTypeOK
<1>5. /\ row'[k] = Claimed(row[k])
      /\ \A j \in Keys : j # k => row'[j] = FailExhausted[j]
      /\ worker'[w] = [pc |-> "run", key |-> k, attempts |-> row[k].attempts + 1, claim |-> row[k].claims + 1]
      /\ \A v \in Workers : v # w => worker'[v] = worker[v]
  BY <1>1, <1>2, <1>3, FailExhaustedRow DEF QueueTypeOK
<1>6. AttemptsCountClaims'
  BY <1>2, <1>3, <1>5, FailExhaustedRow DEF AttemptsCountClaims, QueueTypeOK, RowType
<1>7. HoldersAreBehind'
  BY <1>2, <1>3, <1>5, FailExhaustedRow DEF HoldersAreBehind, QueueTypeOK, RowType, WorkerType
<1>8. OkWasRun'
  BY <1>2, <1>5 DEF OkWasRun
<1>9. AbsentUnclaimed'
  BY <1>2, <1>3, <1>5, FailExhaustedRow DEF AbsentUnclaimed
<1>10. AttemptsAreExclusive'
  BY <1>2, <1>5 DEF AttemptsAreExclusive, HoldersAreBehind, QueueTypeOK, RowType, WorkerType
<1>11. SucceededWasRun'
  BY <1>2, <1>3, <1>5, FailExhaustedRow DEF SucceededWasRun
<1>12. FailedIsExhausted'
  BY <1>2, <1>3, <1>5, FailExhaustedRow DEF FailedIsExhausted
<1> QED BY <1>4, <1>6, <1>7, <1>8, <1>9, <1>10, <1>11, <1>12

\* A report: accepted only from the worker that holds the latest attempt.
LEMMA ReportInv == ASSUME Inv, NEW w \in Workers, CompleteJob(w) \/ FailJob(w) PROVE Inv'
<1> USE DEF Inv
<1> DEFINE k == worker[w].key
<1>1. /\ k \in Keys /\ worker' = [worker EXCEPT ![w] = Idle] /\ UNCHANGED <<ran, deaths, stalls>>
  BY DEF CompleteJob, FailJob, HoldersAreBehind
<1>2. \/ row' = row
      \/ /\ row[k].status = "running" /\ row[k].attempts = worker[w].attempts
         /\ row' = [row EXCEPT ![k].status = "succeeded", ![k].lock = "free"]
         /\ worker[w].pc = "ok"
      \/ /\ row[k].status = "running" /\ row[k].attempts = worker[w].attempts
         /\ row' = [row EXCEPT ![k].status = IF Final(w) THEN "failed" ELSE "pending",
                               ![k].run_at = "later", ![k].lock = "free"]
  BY DEF CompleteJob, FailJob, StillHolds
<1>3. QueueTypeOK'
  BY <1>1, <1>2 DEF QueueTypeOK, Idle, RowType, WorkerType
<1>4. /\ \A v \in Workers : v # w => worker'[v] = worker[v]
      /\ worker'[w] = Idle
      /\ \A j \in Keys : j # k => row'[j] = row[j]
      /\ row'[k].attempts = row[k].attempts /\ row'[k].claims = row[k].claims
      /\ \/ row' = row
         \/ row'[k].status = "succeeded" /\ row[k].attempts = worker[w].attempts /\ worker[w].pc = "ok"
         \/ row'[k].status = "failed" /\ row[k].attempts >= MaxAttempts
         \/ row'[k].status = "pending"
  BY <1>1, <1>2 DEF QueueTypeOK, Final, RowType
<1>5. AttemptsCountClaims' /\ HoldersAreBehind'
  BY <1>1, <1>4 DEF AttemptsCountClaims, HoldersAreBehind, QueueTypeOK, Idle
<1>6. OkWasRun' /\ AttemptsAreExclusive'
  BY <1>1, <1>4 DEF OkWasRun, AttemptsAreExclusive, QueueTypeOK, Idle
<1>7. AbsentUnclaimed' /\ FailedIsExhausted'
  <2>1. row[k].attempts <= MaxAttempts /\ row[k].attempts \in Nat
    BY <1>1 DEF QueueTypeOK, RowType
  <2> QED BY <1>1, <1>4, <2>1 DEF AbsentUnclaimed, FailedIsExhausted
<1>8. SucceededWasRun'
  BY <1>1, <1>4 DEF SucceededWasRun, OkWasRun, AttemptsCountClaims, QueueTypeOK
<1> QED BY <1>3, <1>5, <1>6, <1>7, <1>8

\* A step that touches one row, keeps its counters and records no untrue outcome.
LEMMA RowStepInv ==
    ASSUME Inv, NEW k \in Keys, NEW r \in RowType, row' = [row EXCEPT ![k] = r],
           r.attempts = row[k].attempts, r.claims = row[k].claims,
           r.status \in {"pending", "running"},
           UNCHANGED <<worker, ran>>, deaths' \in Nat, stalls' \in Nat
    PROVE  Inv'
<1> USE DEF Inv
<1>1. QueueTypeOK'
  BY DEF QueueTypeOK
<1>2. row'[k] = r /\ \A j \in Keys : j # k => row'[j] = row[j]
  BY DEF QueueTypeOK
<1>3. AttemptsCountClaims' /\ OkWasRun' /\ AttemptsAreExclusive'
  BY <1>2 DEF AttemptsCountClaims, OkWasRun, AttemptsAreExclusive
<1>4. HoldersAreBehind'
  BY <1>2 DEF HoldersAreBehind
<1>5. AbsentUnclaimed' /\ SucceededWasRun' /\ FailedIsExhausted'
  BY <1>2 DEF AbsentUnclaimed, SucceededWasRun, FailedIsExhausted
<1> QED BY <1>1, <1>3, <1>4, <1>5

\* Every step preserves the invariant.
LEMMA StepInv == Inv /\ [QueueNext]_queueVars => Inv'
<1> SUFFICES ASSUME Inv, [QueueNext]_queueVars PROVE Inv'
  OBVIOUS
<1> USE DEF Inv
<1>1. ASSUME NEW k \in Keys, Enqueue(k) PROVE Inv'
  <2>1. row[k] = NoRow
    BY <1>1 DEF Enqueue, AbsentUnclaimed
  <2>2. PICK t \in {"now", "later"} : row' = [row EXCEPT ![k] = [NoRow EXCEPT !.status = "pending", !.run_at = t]]
    BY <1>1 DEF Enqueue
  <2>3. /\ [NoRow EXCEPT !.status = "pending", !.run_at = t] \in RowType
        /\ [NoRow EXCEPT !.status = "pending", !.run_at = t].attempts = NoRow.attempts
        /\ [NoRow EXCEPT !.status = "pending", !.run_at = t].claims = NoRow.claims
        /\ [NoRow EXCEPT !.status = "pending", !.run_at = t].status = "pending"
    <3>1. 0 \in 0..MaxAttempts
      OBVIOUS
    <3> QED BY <3>1 DEF NoRow, RowType
  <2> QED BY <1>1, <2>1, <2>2, <2>3, RowStepInv DEF Enqueue, QueueTypeOK
<1>2. ASSUME NEW k \in Keys, BecomesDue(k) \/ LockExpires(k) \/ LockOverrun(k) PROVE Inv'
  <2>1. row[k] \in RowType
    BY DEF QueueTypeOK
  <2>2. ASSUME NEW r, r = [row[k] EXCEPT !.run_at = "now"] \/ r = [row[k] EXCEPT !.lock = "free"]
        PROVE  r \in RowType /\ r.attempts = row[k].attempts /\ r.claims = row[k].claims /\ r.status = row[k].status
    BY <2>1, <2>2 DEF RowType
  <2>3. /\ row[k].status \in {"pending", "running"} /\ UNCHANGED <<worker, ran>>
        /\ deaths' \in Nat /\ stalls' \in Nat
        /\ \/ row' = [row EXCEPT ![k] = [row[k] EXCEPT !.run_at = "now"]]
           \/ row' = [row EXCEPT ![k] = [row[k] EXCEPT !.lock = "free"]]
    BY <1>2 DEF BecomesDue, LockExpires, LockOverrun, QueueTypeOK
  <2> QED BY <2>2, <2>3, RowStepInv
<1>3. ASSUME NEW w \in Workers, ClaimNothing(w) PROVE Inv'
  BY <1>3, FailExhaustedRow DEF ClaimNothing, QueueTypeOK, AttemptsCountClaims, HoldersAreBehind, OkWasRun,
              AbsentUnclaimed, AttemptsAreExclusive, SucceededWasRun, FailedIsExhausted
<1>4. ASSUME NEW w \in Workers, NEW ok \in BOOLEAN, HandlerEnds(w, ok) PROVE Inv'
  <2>1. worker[w] \in WorkerType /\ worker[w].pc = "run" /\ worker[w].key \in Keys
    BY <1>4 DEF HandlerEnds, QueueTypeOK, HoldersAreBehind
  <2>2. PICK pc \in {"ok", "error"} :
          /\ worker' = [worker EXCEPT ![w].pc = pc]
          /\ IF pc = "ok" THEN ran' = ran \cup {<<worker[w].key, worker[w].claim>>} ELSE ran' = ran
    BY <1>4 DEF HandlerEnds
  <2>3. UNCHANGED <<row, deaths, stalls>>
    BY <1>4 DEF HandlerEnds
  <2>4. /\ worker'[w] \in WorkerType /\ worker'[w].pc = pc /\ worker'[w].key = worker[w].key
        /\ worker'[w].attempts = worker[w].attempts /\ worker'[w].claim = worker[w].claim
        /\ \A v \in Workers : v # w => worker'[v] = worker[v]
    BY <2>1, <2>2 DEF QueueTypeOK, WorkerType
  <2>5. /\ worker[w].claim \in Nat /\ ran \subseteq ran'
        /\ pc = "ok" => <<worker[w].key, worker[w].claim>> \in ran'
        /\ ran' \subseteq Keys \X Nat
    BY <2>1, <2>2 DEF QueueTypeOK, WorkerType
  <2>6. QueueTypeOK'
    BY <2>2, <2>3, <2>4, <2>5 DEF QueueTypeOK
  <2>7. AttemptsCountClaims' /\ HoldersAreBehind' /\ AttemptsAreExclusive'
    BY <2>1, <2>3, <2>4 DEF AttemptsCountClaims, HoldersAreBehind, AttemptsAreExclusive
  <2>8. OkWasRun' /\ AbsentUnclaimed' /\ SucceededWasRun' /\ FailedIsExhausted'
    BY <2>3, <2>4, <2>5 DEF OkWasRun, AbsentUnclaimed, SucceededWasRun, FailedIsExhausted
  <2> QED BY <2>6, <2>7, <2>8
<1>5. ASSUME NEW w \in Workers, WorkerStops(w) PROVE Inv'
  <2>1. 0 \in 0..MaxAttempts
    OBVIOUS
  <2>2. Idle \in WorkerType
    BY <2>1 DEF Idle, WorkerType
  <2>3. UNCHANGED <<row, ran, stalls>> /\ deaths' \in Nat
    BY <1>5 DEF WorkerStops, QueueTypeOK
  <2>4. worker'[w] = Idle /\ \A v \in Workers : v # w => worker'[v] = worker[v]
    BY <1>5 DEF WorkerStops, QueueTypeOK
  <2>5. QueueTypeOK'
    BY <1>5, <2>2, <2>3 DEF WorkerStops, QueueTypeOK
  <2>6. AttemptsCountClaims' /\ HoldersAreBehind' /\ AttemptsAreExclusive'
    BY <2>3, <2>4 DEF AttemptsCountClaims, HoldersAreBehind, AttemptsAreExclusive, Idle
  <2>7. OkWasRun' /\ AbsentUnclaimed' /\ SucceededWasRun' /\ FailedIsExhausted'
    BY <2>3, <2>4 DEF OkWasRun, AbsentUnclaimed, SucceededWasRun, FailedIsExhausted, Idle
  <2> QED BY <2>5, <2>6, <2>7
<1>6. CASE UNCHANGED queueVars
  BY <1>6 DEF queueVars, QueueTypeOK, AttemptsCountClaims, HoldersAreBehind, OkWasRun, AbsentUnclaimed,
              AttemptsAreExclusive, SucceededWasRun, FailedIsExhausted
<1> QED BY <1>1, <1>2, <1>3, <1>4, <1>5, <1>6, ClaimInv, ReportInv DEF QueueNext, WorkerStep

\* The queue's state is well-typed, no job is attempted more than max_attempts times, and
\* the fencing invariant holds, for every set of jobs and workers.
THEOREM QueueInvariant == QueueSpec => []Inv
BY InitInv, StepInv, PTL DEF QueueSpec

\* No two workers ever hold the same attempt of a job (claim_next), and complete_job and
\* fail_job tell the truth: success was carried out by the recorded claim, failure is
\* recorded only when every attempt was used.
THEOREM FencedAttempts == QueueSpec => []AttemptsAreFenced
BY QueueInvariant, PTL DEF Inv, AttemptsAreFenced

\* The report of a worker that was overtaken changes nothing (the attempts guard).
THEOREM LateResults == QueueSpec => LateResultIgnored
<1> DEFINE Ignored == \A w \in Workers : LET k == worker[w].key IN
         worker[w].pc \in {"ok", "error"} /\ worker'[w].pc = "idle" /\ worker[w].claim # row[k].claims
           => row'[k] = row[k]
<1>1. ASSUME Inv, QueueNext PROVE Ignored
  <2> SUFFICES ASSUME NEW w \in Workers, worker[w].pc \in {"ok", "error"}, worker'[w].pc = "idle",
                      worker[w].claim # row[worker[w].key].claims
               PROVE  row'[worker[w].key] = row[worker[w].key]
    OBVIOUS
  <2>1. worker[w].key \in Keys /\ ~StillHolds(w)
    BY <1>1 DEF Inv, HoldersAreBehind, AttemptsCountClaims, StillHolds
  <2>2. ASSUME NEW v \in Workers, WorkerStep(v) \/ WorkerStops(v), v # w PROVE FALSE
    <3>1. worker' = worker \/ \E x : worker' = [worker EXCEPT ![v] = x]
      BY <2>2 DEF WorkerStep, WorkerStops, ClaimNext, ClaimNothing, CompleteJob, FailJob, HandlerEnds
    <3>2. worker'[w] = worker[w]
      BY <1>1, <2>2, <3>1 DEF Inv, QueueTypeOK
    <3> QED BY <3>2
  <2>3. ASSUME NEW k \in Keys, Enqueue(k) \/ BecomesDue(k) \/ LockExpires(k) \/ LockOverrun(k) PROVE FALSE
    BY <2>3 DEF Enqueue, BecomesDue, LockExpires, LockOverrun
  <2>4. WorkerStep(w) \/ WorkerStops(w)
    BY <1>1, <2>2, <2>3 DEF QueueNext
  <2> QED BY <2>1, <2>4 DEF WorkerStep, WorkerStops, ClaimNext, ClaimNothing, CompleteJob, FailJob,
                            HandlerEnds
<1>2. Inv /\ [QueueNext]_queueVars => [Ignored]_queueVars
  BY <1>1 DEF queueVars
<1> QED BY <1>2, QueueInvariant, PTL DEF QueueSpec, LateResultIgnored

\* A finished job never changes again (ON CONFLICT DO NOTHING and the status guards).
THEOREM FinishedJobs == QueueSpec => FinishedIsFinal
<1> DEFINE Final1 == \A k \in Keys : row[k].status \in {"succeeded", "failed"} => row'[k] = row[k]
<1>1. ASSUME Inv, QueueNext PROVE Final1
  <2> SUFFICES ASSUME NEW k \in Keys, row[k].status \in {"succeeded", "failed"} PROVE row'[k] = row[k]
    OBVIOUS
  <2>1. ASSUME NEW j \in Keys, Enqueue(j) \/ BecomesDue(j) \/ LockExpires(j) \/ LockOverrun(j)
        PROVE  row'[k] = row[k]
    BY <1>1, <2>1 DEF Enqueue, BecomesDue, LockExpires, LockOverrun, Inv, QueueTypeOK
  <2>2. ASSUME NEW w \in Workers, ClaimNext(w) \/ ClaimNothing(w) PROVE row'[k] = row[k]
    BY <1>1, <2>2, FailExhaustedRow DEF ClaimNext, ClaimNothing, JobsToClaim, Inv
  <2>3. ASSUME NEW w \in Workers, CompleteJob(w) \/ FailJob(w) PROVE row'[k] = row[k]
    BY <1>1, <2>3 DEF CompleteJob, FailJob, StillHolds, Inv, QueueTypeOK
  <2>4. ASSUME NEW w \in Workers, WorkerStops(w) \/ \E ok \in BOOLEAN : HandlerEnds(w, ok)
        PROVE  row'[k] = row[k]
    BY <2>4 DEF WorkerStops, HandlerEnds
  <2> QED BY <1>1, <2>1, <2>2, <2>3, <2>4 DEF QueueNext, WorkerStep
<1>2. Inv /\ [QueueNext]_queueVars => [Final1]_queueVars
  BY <1>1 DEF queueVars
<1> QED BY <1>2, QueueInvariant, PTL DEF QueueSpec, FinishedIsFinal

\* Neither a worker that was overtaken nor a repeated enqueueing undoes what the latest
\* claim of a job did.
THEOREM OutcomesStand == QueueSpec => OutcomeStands
BY LateResults, FinishedJobs, PTL DEF OutcomeStands
=============================================================================
