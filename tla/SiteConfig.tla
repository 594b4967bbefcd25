----------------------------- MODULE SiteConfig -----------------------------
(***************************************************************************)
(* The storefront's configuration: app/modules/site_config.                *)
(* Administrators edit one draft, publish it as a new version and roll     *)
(* back by publishing a copy of an earlier one.  A request that writes     *)
(* locks the single state row until it ends, and numbers a new version     *)
(* from the highest it reads.  The row exists.                             *)
(***************************************************************************)
EXTENDS Common, Naturals

CONSTANTS
    Documents,
    MaxVersions \* bound: versions published

VARIABLES
    published, \* state.published_version, 0 before the first
    draft,     \* state.draft
    versions,  \* the rows of site_config_versions: [version, document, expected, copied]
    holder,    \* the requests that hold the lock of the state row
    turn       \* what each request has read

siteConfigVars == <<published, draft, versions, holder, turn>>

\* A published version with the version it was meant to follow, and the one it is a copy of.
Version(number, document, expected, copied) ==
    [version |-> number, document |-> document, expected |-> expected, copied |-> copied]

NoTurn == [op |-> "idle"]
Numbers == {v.version : v \in versions}
Document(n) == (CHOOSE v \in versions : v.version = n).document
Latest == IF Numbers = {} THEN 0 ELSE CHOOSE n \in Numbers : \A m \in Numbers : m <= n

SiteConfigInit ==
    /\ published = 0 /\ draft = None /\ versions = {} /\ holder = {}
    /\ turn = [a \in Requests |-> NoTurn]

\* Mutant: the row is read without FOR UPDATE.
StateFreeAlways == TRUE

\* state(lock=True)
StateFree == holder = {}

Lock(a, op) ==
    /\ turn[a] = NoTurn /\ StateFree
    /\ holder' = holder \cup {a}
    /\ turn' = [turn EXCEPT ![a] = op]
    /\ UNCHANGED <<published, draft, versions>>

\* The transaction ends.
EndTurn(a) ==
    /\ holder' = holder \ {a}
    /\ turn' = [turn EXCEPT ![a] = NoTurn]

-----------------------------------------------------------------------------
\* save_draft, discard_draft
SaveDraft(document) ==
    /\ StateFree /\ draft # document
    /\ draft' = document
    /\ UNCHANGED <<published, versions, holder, turn>>

\* publish: the administrator may name the version they saw; there is a draft, and it differs from what is published.
StartPublish(a, expected) ==
    /\ expected # None => expected = published
    /\ draft # None
    /\ published # 0 => Document(published) # draft
    /\ Lock(a, [op |-> "publish", document |-> draft, expected |-> expected, copied |-> None])

\* rollback
StartRollback(a, n) ==
    /\ n \in Numbers /\ n # published
    /\ Lock(a, [op |-> "rollback", document |-> Document(n), expected |-> None, copied |-> n])

\* add_version reads the highest number ...
ReadLatest(a) ==
    /\ turn[a].op \in {"publish", "rollback"} /\ Latest < MaxVersions
    /\ turn' = [turn EXCEPT ![a] =
           [op |-> "numbered", document |-> @.document, expected |-> @.expected, copied |-> @.copied,
            version |-> Latest + 1, publishes |-> @.op = "publish"]]
    /\ UNCHANGED <<published, draft, versions, holder>>

\* ... inserts the next, which must be free, and the state row names it. A publish takes the draft with it.
Publish(a) ==
    LET q == turn[a] IN
    /\ q.op = "numbered"
    /\ IF q.version \in Numbers
       THEN UNCHANGED <<published, draft, versions>>
       ELSE /\ versions' = versions \cup {Version(q.version, q.document, q.expected, q.copied)}
            /\ published' = q.version
            /\ draft' = IF q.publishes THEN None ELSE draft
    /\ EndTurn(a)

-----------------------------------------------------------------------------
SiteConfigEndpoints ==
    \/ \E document \in Documents \cup {None} : SaveDraft(document)
    \/ \E a \in Requests :
           \/ \E expected \in Numbers \cup {0, None} : StartPublish(a, expected)
           \/ \E n \in Numbers : StartRollback(a, n)
           \/ ReadLatest(a)
           \/ Publish(a)

SiteConfigNext == SiteConfigEndpoints

SiteConfigSpec == SiteConfigInit /\ [][SiteConfigNext]_siteConfigVars

-----------------------------------------------------------------------------
\* The history is in order although everyone publishes at once: the storefront serves the last version, a version
\* published by someone who had seen version n is the one after n, and a rollback's document is that of the version it
\* names (site_config_service.py: "publishing takes turns", PublishedElsewhereError).
PublishingTakesTurns ==
    /\ published = Latest
    /\ \A v \in versions : /\ v.expected # None => v.expected = v.version - 1
                           /\ v.copied # None => v.copied < v.version /\ v.document = Document(v.copied)
=============================================================================
