------------------------------- MODULE Cache -------------------------------
(***************************************************************************)
(* The Redis cache of the public category and product lists (Cache) and    *)
(* the invalidation that follows every commit (flush_pending).             *)
(*                                                                         *)
(* A namespace has a version in Redis; an entry is served only while its   *)
(* version is the namespace's. Several server processes share Redis; each  *)
(* remembers the invalidations it could not deliver and leaves Redis alone *)
(* for a while after a failure. Every await is a step of its own: a Redis  *)
(* command may fail before or after Redis has executed it. One list per    *)
(* namespace stands for all its keys, and a payload is the number of       *)
(* committed writes it shows.                                              *)
(***************************************************************************)
EXTENDS Common, Naturals, FiniteSets

CONSTANTS
    Procs,     \* server processes
    Readers,   \* requests for a list
    Writers,   \* requests that change the catalogue
    Home,      \* the process that a request runs in
    Tables,    \* the tables they write: "products", "categories"
    MaxWrites, \* bound: commits
    MaxFaults  \* bound: failed commands, lost version keys and restarts

\* Every request runs in some process.
ASSUME HomeAssumption == (\A x \in Readers \cup Writers : Home[x] \in Procs) /\ None \notin Nat

\* _TABLE_NAMESPACES: a product list embeds its category.
TableNamespaces(table) == IF table = "categories" THEN {"products", "categories"} ELSE {"products"}

\* The lists that some write can change.
Namespaces == UNION {TableNamespaces(t) : t \in Tables}

VARIABLES
    db,        \* committed writes each namespace's list shows
    ver,       \* version of each namespace in Redis; None: the key is missing
    top,       \* the clock: every version so far is at most this
    entry,     \* the stored list of each namespace
    proc,      \* processes: cooldown, _missed and the loads under way (_inflight)
    rd, wr,    \* requests in progress
    faults,
    announced, \* history: writes whose invalidation Redis has executed
    noted,     \* history: writes whose invalidation a process has begun
    finished,  \* history: writes after which a process has finished flush_pending
    dropped    \* history: <<process, namespace>> crossed off though a write of it is not announced

cacheVars == <<db, ver, top, entry, proc, rd, wr, faults, announced, noted, finished, dropped>>
history == <<announced, noted, finished, dropped>>

NoEntry == [ver |-> 0, data |-> 0]
Fresh == [down |-> FALSE, missed |-> {}, flight |-> {}]
NoRead == [pc |-> "idle", ns |-> None, todo |-> {}, sent |-> None, ver |-> 0, data |-> 0, due |-> 0, own |-> 0]
\* The answer of a request.
Served(q, data) == [NoRead EXCEPT !.pc = "served", !.data = data, !.due = q.due, !.own = q.own]
Never == [n \in Namespaces |-> 0]
NoWrite == [pc |-> "idle", todo |-> {}, sent |-> None, wrote |-> Never]

CacheInit ==
    /\ db = Never
    /\ ver = [n \in Namespaces |-> None] /\ top = 0
    /\ entry = [n \in Namespaces |-> NoEntry]
    /\ proc = [p \in Procs |-> Fresh]
    /\ rd = [r \in Readers |-> NoRead] /\ wr = [w \in Writers |-> NoWrite]
    /\ faults = 0
    /\ announced = Never
    /\ noted = [p \in Procs |-> Never] /\ finished = [p \in Procs |-> Never]
    /\ dropped = {}

Fault == faults < MaxFaults /\ faults' = faults + 1

-----------------------------------------------------------------------------
(* Invalidation.                                                           *)

\* SET NX with the clock, then INCR.
Bumped(n) == IF ver[n] = None THEN top + 1 ELSE ver[n] + 1

\* Redis executes the invalidation of n.
Bump(n) ==
    /\ ver' = [ver EXCEPT ![n] = Bumped(n)]
    /\ top' = IF Bumped(n) > top THEN Bumped(n) ELSE top
    /\ announced' = [announced EXCEPT ![n] = db[n]]
    /\ dropped' = {d \in dropped : d[2] # n}

\* The answer arrives in process p: the namespace is crossed off, also if it was noted again since it was sent.
CrossOff(p, n) ==
    /\ proc' = [proc EXCEPT ![p].missed = @ \ {n}]
    /\ dropped' = dropped \cup {d \in {<<p, n>>} : n \in proc[p].missed /\ announced[n] < noted[p][n]}

\* A transaction changed a table: the hooks note its namespaces, the commit makes it visible.
Commit(w, table) ==
    /\ wr[w].pc = "idle" /\ \A n \in Namespaces : db[n] < MaxWrites
    /\ db' = [n \in Namespaces |-> IF n \in TableNamespaces(table) THEN db[n] + 1 ELSE db[n]]
    /\ wr' = [wr EXCEPT ![w] = [NoWrite EXCEPT !.pc = "committed",
                      !.wrote = [n \in Namespaces |-> IF n \in TableNamespaces(table) THEN db[n] + 1 ELSE 0]]]
    /\ UNCHANGED <<ver, top, entry, proc, rd, faults>> /\ UNCHANGED history

\* invalidate notes the namespaces before it tries.
Remembered(p, names) == proc[p].missed \cup names

Later(f, g) == [n \in Namespaces |-> IF g[n] > f[n] THEN g[n] ELSE f[n]]

\* flush_pending goes on with the namespaces in todo, and returns when there are none.
GoOn(w, todo) ==
    /\ wr' = [wr EXCEPT ![w] = IF todo = {} THEN NoWrite ELSE [NoWrite EXCEPT !.pc = "next", !.todo = todo, !.wrote = wr[w].wrote]]
    /\ finished' = IF todo = {} THEN [finished EXCEPT ![Home[w]] = Later(@, wr[w].wrote)] ELSE finished

\* invalidate: _replay_missed takes a copy of _missed, unless Redis is being left alone.
Invalidate(w) ==
    LET p == Home[w] IN
    /\ wr[w].pc = "committed"
    /\ proc' = [proc EXCEPT ![p].missed = Remembered(p, {n \in Namespaces : wr[w].wrote[n] > 0})]
    /\ noted' = [noted EXCEPT ![p] = Later(@, wr[w].wrote)]
    /\ GoOn(w, IF proc[p].down THEN {} ELSE proc'[p].missed)
    /\ UNCHANGED <<db, ver, top, entry, rd, faults, announced, dropped>>

\* _replay_missed: Redis executes the pipeline of the next namespace.
SendBump(w, n) ==
    /\ wr[w].pc = "next" /\ n \in wr[w].todo
    /\ Bump(n)
    /\ wr' = [wr EXCEPT ![w].pc = "executed", ![w].sent = n, ![w].todo = @ \ {n}]
    /\ UNCHANGED <<db, entry, proc, rd, faults, noted, finished>>

BumpAnswered(w) ==
    /\ wr[w].pc = "executed"
    /\ CrossOff(Home[w], wr[w].sent)
    /\ GoOn(w, wr[w].todo)
    /\ UNCHANGED <<db, ver, top, entry, rd, faults, announced, noted>>

\* A timeout or an error, before or after Redis executed the command: _record_failure, and the rest waits.
BumpFails(w) ==
    /\ wr[w].pc \in {"next", "executed"} /\ Fault
    /\ proc' = [proc EXCEPT ![Home[w]].down = TRUE]
    /\ GoOn(w, {})
    /\ UNCHANGED <<db, ver, top, entry, rd, announced, noted, dropped>>

-----------------------------------------------------------------------------
(* get_or_set.                                                             *)

\* A request for list n begins. It relies on the writes announced by now, and on those finished in its own process unless
\* their invalidation was crossed off unannounced.
Begun(r, n) ==
    [NoRead EXCEPT !.ns = n, !.due = announced[n], !.own = IF <<Home[r], n>> \in dropped THEN 0 ELSE finished[Home[r]][n]]

\* While Redis is left alone the list comes from the database (BYPASS). Otherwise the invalidations that this process still
\* owes go first, a copy of _missed.
Start(r, n) ==
    LET p == Home[r] IN
    /\ rd[r].pc = "idle"
    /\ rd' = [rd EXCEPT ![r] = IF proc[p].down THEN Served(Begun(r, n), db[n])
                               ELSE [Begun(r, n) EXCEPT !.pc = "replay", !.todo = proc[p].missed]]
    /\ UNCHANGED <<db, ver, top, entry, proc, wr, faults>> /\ UNCHANGED history

\* _replay_missed, as in SendBump.
Replay(r, n) ==
    /\ rd[r].pc = "replay" /\ n \in rd[r].todo
    /\ Bump(n)
    /\ rd' = [rd EXCEPT ![r].pc = "replayed", ![r].sent = n, ![r].todo = @ \ {n}]
    /\ UNCHANGED <<db, entry, proc, wr, faults, noted, finished>>

\* After the last one the request goes to the database if another command has failed meanwhile.
ReplayAnswered(r) ==
    LET q == rd[r] IN
    /\ q.pc = "replayed"
    /\ CrossOff(Home[r], q.sent)
    /\ rd' = [rd EXCEPT ![r] = IF q.todo = {} /\ proc[Home[r]].down THEN Served(q, db[q.ns])
                               ELSE [q EXCEPT !.pc = "replay", !.sent = None]]
    /\ UNCHANGED <<db, ver, top, entry, wr, faults, announced, noted, finished>>

\* _read: version and entry in one command; a missing version is set from the clock.
Read(r) ==
    LET q == rd[r]
        n == q.ns
    IN
    /\ q.pc = "replay" /\ q.todo = {}
    /\ IF ver[n] = None
       THEN /\ ver' = [ver EXCEPT ![n] = top + 1] /\ top' = top + 1
            /\ rd' = [rd EXCEPT ![r] = [q EXCEPT !.pc = "miss", !.ver = top + 1]]
       ELSE /\ UNCHANGED <<ver, top>>
            /\ rd' = [rd EXCEPT ![r] = IF entry[n].ver = ver[n]
                                       THEN Served(q, entry[n].data)
                                       ELSE [q EXCEPT !.pc = "miss", !.ver = ver[n]]]
    /\ UNCHANGED <<db, entry, proc, wr, faults>> /\ UNCHANGED history

\* A command fails: the request goes on to the database and serves what it finds.
ReadFails(r) ==
    /\ rd[r].pc \in {"replay", "replayed"} /\ Fault
    /\ proc' = [proc EXCEPT ![Home[r]].down = TRUE]
    /\ rd' = [rd EXCEPT ![r] = Served(@, db[@.ns])]
    /\ UNCHANGED <<db, ver, top, entry, wr>> /\ UNCHANGED history

\* Identical misses share a load, keyed by the version.
FlightKey(r) == <<rd[r].ns, rd[r].ver>>

\* A miss leads a load, unless there is one to follow; its query sees what is committed.
Lead(r) ==
    /\ rd[r].pc = "miss" /\ FlightKey(r) \notin proc[Home[r]].flight
    /\ proc' = [proc EXCEPT ![Home[r]].flight = @ \cup {FlightKey(r)}]
    /\ rd' = [rd EXCEPT ![r].pc = "loaded", ![r].data = db[rd[r].ns]]
    /\ UNCHANGED <<db, ver, top, entry, wr, faults>> /\ UNCHANGED history

Follow(r) ==
    /\ rd[r].pc = "miss" /\ FlightKey(r) \in proc[Home[r]].flight
    /\ rd' = [rd EXCEPT ![r].pc = "follow"]
    /\ UNCHANGED <<db, ver, top, entry, proc, wr, faults>> /\ UNCHANGED history

Followers(r) == {q \in Readers : rd[q].pc = "follow" /\ Home[q] = Home[r] /\ FlightKey(q) = FlightKey(r)}

\* set_result: followers get the leader's payload, or load for themselves if it failed.
Publish(r, ok) ==
    /\ rd[r].pc = "loaded"
    /\ proc' = [proc EXCEPT ![Home[r]].flight = @ \ {FlightKey(r)}]
    /\ rd' = [q \in Readers |->
                 IF q = r THEN IF ok THEN [rd[q] EXCEPT !.pc = "store"] ELSE NoRead
                 ELSE IF q \in Followers(r)
                      THEN Served(rd[q], IF ok THEN rd[r].data ELSE db[rd[q].ns])
                      ELSE rd[q]]
    /\ UNCHANGED <<db, ver, top, entry, wr, faults>> /\ UNCHANGED history

\* Mutant: the entry is stored under the version that holds when it is stored.
TagAtStore(r) == IF ver[rd[r].ns] = None THEN 0 ELSE ver[rd[r].ns]

\* The entry carries the version read before the query.
Tag(r) == rd[r].ver

\* The entry is stored, or the command fails before or after Redis executed it.
Store(r, stored, ok) ==
    /\ rd[r].pc = "store" /\ (ok => stored)
    /\ entry' = IF stored THEN [entry EXCEPT ![rd[r].ns] = [ver |-> Tag(r), data |-> rd[r].data]] ELSE entry
    /\ IF ok THEN UNCHANGED <<proc, faults>>
       ELSE Fault /\ proc' = [proc EXCEPT ![Home[r]].down = TRUE]
    /\ rd' = [rd EXCEPT ![r] = Served(@, @.data)]
    /\ UNCHANGED <<db, ver, top, wr>> /\ UNCHANGED history

\* The answer has gone out.
FinishRead(r) ==
    /\ rd[r].pc = "served"
    /\ rd' = [rd EXCEPT ![r] = NoRead]
    /\ UNCHANGED <<db, ver, top, entry, proc, wr, faults>> /\ UNCHANGED history

-----------------------------------------------------------------------------
(* Time and faults.                                                        *)

\* _failure_cooldown has passed.
CooldownEnds(p) ==
    /\ proc[p].down
    /\ proc' = [proc EXCEPT ![p].down = FALSE]
    /\ UNCHANGED <<db, ver, top, entry, rd, wr, faults>> /\ UNCHANGED history

\* ttl_seconds have passed, or Redis evicts the entry.
Expire(n) ==
    /\ entry[n] # NoEntry
    /\ entry' = [entry EXCEPT ![n] = NoEntry]
    /\ UNCHANGED <<db, ver, top, proc, rd, wr, faults>> /\ UNCHANGED history

\* The version key is evicted, or Redis is flushed. The clock is ahead of every version it held.
LoseVersion(n) ==
    /\ ver[n] # None /\ Fault
    /\ ver' = [ver EXCEPT ![n] = None] /\ top' = top + 1
    /\ UNCHANGED <<db, entry, proc, rd, wr>> /\ UNCHANGED history

\* A process restarts with its requests, and forgets what it owed.
Restart(p) ==
    /\ Fault
    /\ proc' = [proc EXCEPT ![p] = Fresh]
    /\ finished' = [finished EXCEPT ![p] = Never] /\ noted' = [noted EXCEPT ![p] = Never]
    /\ dropped' = {d \in dropped : d[1] # p}
    /\ rd' = [r \in Readers |-> IF Home[r] = p THEN NoRead ELSE rd[r]]
    /\ wr' = [w \in Writers |-> IF Home[w] = p THEN NoWrite ELSE wr[w]]
    /\ UNCHANGED <<db, ver, top, entry, announced>>

-----------------------------------------------------------------------------
Writing ==
    \E w \in Writers :
        \/ \E table \in Tables : Commit(w, table)
        \/ \E n \in Namespaces : SendBump(w, n)
        \/ Invalidate(w) \/ BumpAnswered(w) \/ BumpFails(w)

\* get_or_set
Reading ==
    \E r \in Readers :
        \/ \E n \in Namespaces : Start(r, n) \/ Replay(r, n)
        \/ ReplayAnswered(r) \/ Read(r) \/ ReadFails(r)
        \/ Lead(r) \/ Follow(r) \/ FinishRead(r)
        \/ \E ok \in BOOLEAN : Publish(r, ok) \/ \E stored \in BOOLEAN : Store(r, stored, ok)

Failures ==
    \/ \E n \in Namespaces : Expire(n) \/ LoseVersion(n)
    \/ \E p \in Procs : CooldownEnds(p) \/ Restart(p)

CacheNext == Writing \/ Reading \/ Failures

CacheSpec == CacheInit /\ [][CacheNext]_cacheVars

-----------------------------------------------------------------------------
\* A request that starts after Redis has executed the invalidation of a write is never answered
\* with a list from before that write, whichever process answers, whoever was loading the list at
\* the time, and whatever keys were lost ("the reader's (possibly stale) result is stored under the
\* old version and is never served").
NothingStaleAfterInvalidation == \A r \in Readers : rd[r].pc = "served" => rd[r].data >= rd[r].due

\* A process never answers with a list from before a write it had finished itself when the request began, not even if the
\* invalidation did not reach Redis. The exception is an invalidation that the answer to an earlier one crossed off before
\* Redis had executed it (dropped), until Redis executes another; docs/caching.md says every one "is remembered and replayed".
OwnWritesSeen == \A r \in Readers : rd[r].pc = "served" => rd[r].data >= rd[r].own

\* A list that is served is as new as the writes its reader may rely on: those whose invalidation Redis has executed and
\* those of the process that serves it (cache.py).
ServedIsFresh == NothingStaleAfterInvalidation /\ OwnWritesSeen
=============================================================================
