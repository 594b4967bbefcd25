----------------------------- MODULE Scheduler ------------------------------
(***************************************************************************)
(* Periodic jobs: app/core/jobs/schedule.py, and the sweep that looks for  *)
(* unpaid orders (app/modules/payments/jobs.py).                           *)
(*                                                                         *)
(* Every worker process runs the loop; a tick tries to enqueue each job    *)
(* for the current time bucket and the dedupe key lets one of them do so.  *)
(* The clock counts half seconds, so that a tick of half an odd interval   *)
(* is a whole number of them.                                              *)
(***************************************************************************)
EXTENDS Common, Naturals, FiniteSetsExt

CONSTANTS
    Schedules,   \* scheduled job types
    Interval,    \* Interval[s]: seconds, 0 when it is switched off
    Processes,   \* worker processes
    StaleOrders, \* orders past the payment timeout
    MaxDelay,    \* half seconds that enqueue_due and a late wake-up add to a tick
    Hour,        \* half seconds of an hour, shortened
    MaxTime,     \* bound: half seconds of a run
    Sweep        \* the schedule that sweeps stale orders

ASSUME ScheduleAssumption ==
    /\ Interval \in [Schedules -> Nat]
    /\ MaxDelay \in Nat /\ MaxTime \in Nat /\ Hour \in Nat \ {0}

\* A tick is late by half an interval at most: what "twice per shortest interval" leaves room for.
ASSUME DelayAssumption ==
    \A s \in Schedules : Interval[s] > 0 => MaxDelay <= Interval[s] /\ 2 + MaxDelay <= 2 * Interval[s]

VARIABLES
    now,     \* time.time(), in half seconds
    wake,    \* when each process ticks next; Stopped when it does not run
    since,   \* when a process began the unbroken row of ticks it is in
    queued,  \* jobs enqueued: <<type, bucket>>
    pending, \* orders still unpaid
    expiry,  \* expiry jobs: <<order, hour>>
    swept    \* swept[o]: hours in which a sweep found the order unpaid

schedulerVars == <<now, wake, since, queued, pending, expiry, swept>>

Stopped == MaxTime + 100

Enabled == {s \in Schedules : Interval[s] > 0}

Shortest == Min({Interval[s] : s \in Enabled})

\* Mutant: one tick per shortest interval.
TickWhole == 2 * Shortest

\* run_scheduler: half the shortest interval, in half seconds as many as the interval has seconds; at least one second.
Tick == Max({2, Shortest})

Bucket(s, t) == t \div (2 * Interval[s])

SchedulerInit ==
    /\ now = 0
    /\ wake = [p \in Processes |-> Stopped] /\ since = [p \in Processes |-> Stopped]
    /\ queued = {} /\ pending = StaleOrders /\ expiry = {} /\ swept = [o \in StaleOrders |-> {}]

\* The clock does not pass a tick that is due; MaxDelay is how late the tick itself can be.
Clock ==
    /\ now < MaxTime
    /\ \A p \in Processes : wake[p] > now
    /\ now' = now + 1
    /\ UNCHANGED <<wake, since, queued, pending, expiry, swept>>

Running(p) == wake[p] # Stopped

\* A worker starts: its first tick is at once.
StartWorker(p) ==
    /\ ~Running(p) /\ Enabled # {}
    /\ wake' = [wake EXCEPT ![p] = now] /\ since' = [since EXCEPT ![p] = now]
    /\ UNCHANGED <<now, queued, pending, expiry, swept>>

\* enqueue_due: the bucket of each schedule that is on; a key that exists adds nothing.
EnqueueDue == queued \cup {<<s, Bucket(s, now)>> : s \in Enabled}

\* One turn of the loop, which waits a tick after it.
TickAt(p, delay) ==
    /\ wake[p] = now
    /\ queued' = EnqueueDue
    /\ wake' = [wake EXCEPT ![p] = now + Tick + delay]
    /\ UNCHANGED <<now, since, pending, expiry, swept>>

\* The database is unreachable: the next tick tries again.
TickFails(p) ==
    /\ wake[p] = now
    /\ wake' = [wake EXCEPT ![p] = now + Tick]
    /\ since' = [since EXCEPT ![p] = now + Tick]
    /\ UNCHANGED <<now, queued, pending, expiry, swept>>

StopWorker(p) ==
    /\ Running(p)
    /\ wake' = [wake EXCEPT ![p] = Stopped] /\ since' = [since EXCEPT ![p] = Stopped]
    /\ UNCHANGED <<now, queued, pending, expiry, swept>>

-----------------------------------------------------------------------------
\* expire_order_dedupe_key: one per order and hour.
ExpireOrderKey(o, hour) == <<o, hour>>

\* sweep_stale_orders: some time after it was queued, every order still unpaid gets an expiry job. Twice is harmless.
SweepStaleOrders ==
    LET hour == now \div Hour IN
    /\ \E job \in queued : job[1] = Sweep
    /\ expiry' = expiry \cup {ExpireOrderKey(o, hour) : o \in pending}
    /\ swept' = [o \in StaleOrders |-> IF o \in pending THEN swept[o] \cup {hour} ELSE swept[o]]
    /\ UNCHANGED <<now, wake, since, queued, pending>>

\* expire_order, once the gateway confirms (or the customer pays): the order is no longer pending. A job that cannot
\* confirm it leaves the order as it is.
Settled(o) ==
    /\ o \in pending /\ \E h \in 0 .. MaxTime \div Hour : <<o, h>> \in expiry
    /\ pending' = pending \ {o}
    /\ UNCHANGED <<now, wake, since, queued, expiry, swept>>

SchedulerNext ==
    \/ Clock
    \/ \E p \in Processes : StartWorker(p) \/ (\E d \in 0 .. MaxDelay : TickAt(p, d)) \/ TickFails(p) \/ StopWorker(p)
    \/ SweepStaleOrders
    \/ \E o \in StaleOrders : Settled(o)

SchedulerSpec == SchedulerInit /\ [][SchedulerNext]_schedulerVars

-----------------------------------------------------------------------------
\* No bucket is skipped while some worker keeps ticking, however late its ticks are and whatever the other workers do
\* (schedule.py: "twice per shortest interval, so a bucket is never skipped").
BucketNeverSkipped ==
    \A p \in Processes, s \in Enabled :
        Running(p) => \A b \in Bucket(s, since[p]) .. Bucket(s, now) : b = Bucket(s, now) \/ <<s, b>> \in queued

\* A stuck order is tried again in every hour in which a sweep finds it, also when its earlier expiry jobs have used up
\* their attempts (job_types.py: "a stuck order is retried each hour").
StuckOrderIsRetried == \A o \in StaleOrders : \A hour \in swept[o] : <<o, hour>> \in expiry

\* Work that is due is queued: no bucket of a schedule is skipped and a stuck order is tried again every hour
\* (schedule.py, job_types.py).
DueWorkIsQueued == BucketNeverSkipped /\ StuckOrderIsRetried
=============================================================================
