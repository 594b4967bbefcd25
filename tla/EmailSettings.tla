--------------------------- MODULE EmailSettings ---------------------------
(***************************************************************************)
(* The e-mail service of the store: app/modules/email_settings.            *)
(* Administrators save credentials of a provider, test them against its    *)
(* server and make one provider active; each mail job asks which one is    *)
(* active when it sends.  A request reads the row without a lock, talks to *)
(* the mail server, which takes a while, and then writes.                  *)
(***************************************************************************)
EXTENDS Common, Naturals, FiniteSets

CONSTANTS
    Providers,
    Credentials,
    Accepted, \* the credentials their server accepts while it can be reached
    Jobs,     \* mail jobs in flight
    MaxSaves  \* bound: saved credentials

ASSUME ProvidersFinite == IsFiniteSet(Providers)

VARIABLES
    mailer,  \* the row of each provider: [credentials, is_active, last_test_ok], or None
    asking,  \* what each administrator's request has read and what its probe answered
    sending, \* the credentials each mail job resolved, and how its sending went
    saves

emailSettingsVars == <<mailer, asking, sending, saves>>

MailerRow(credentials, is_active) == [credentials |-> credentials, is_active |-> is_active, last_test_ok |-> None]
NotAsking == [op |-> "idle"]
NotSending == [credentials |-> None, state |-> "idle"]

Active(rows) == {p \in Providers : rows[p] # None /\ rows[p].is_active}

EmailSettingsInit ==
    /\ mailer = [p \in Providers |-> None]
    /\ asking = [a \in Requests |-> NotAsking]
    /\ sending = [j \in Jobs |-> NotSending]
    /\ saves = 0

Answer(a) == asking' = [asking EXCEPT ![a] = NotAsking]

\* SmtpEmailSender.probe: refused credentials fail, accepted ones too when the server cannot be reached.
Probe(credentials) == IF credentials \in Accepted THEN BOOLEAN ELSE {FALSE}

-----------------------------------------------------------------------------
(* save                                                                    *)

\* The row is read; credentials of the active provider are tried, and kept out when they fail.
StartSave(a, p, credentials) ==
    /\ asking[a] = NotAsking /\ saves < MaxSaves
    /\ mailer[p] # None /\ mailer[p].is_active => \E ok \in Probe(credentials) : ok
    /\ asking' = [asking EXCEPT ![a] = [op |-> "save", provider |-> p, row |-> mailer[p], credentials |-> credentials]]
    /\ UNCHANGED <<mailer, sending, saves>>

\* The columns of a save, which leaves is_active alone and forgets the last test.
Saved(p, credentials) == [mailer[p] EXCEPT !.credentials = credentials, !.last_test_ok = None]

\* uq_email_provider_configs_provider, and no row to write to when it has been deleted.
FinishSave(a) ==
    LET q == asking[a]
        p == q.provider IN
    /\ q.op = "save"
    /\ mailer' = IF q.row = None /\ mailer[p] = None THEN [mailer EXCEPT ![p] = MailerRow(q.credentials, FALSE)]
                 ELSE IF q.row # None /\ mailer[p] # None THEN [mailer EXCEPT ![p] = Saved(p, q.credentials)]
                 ELSE mailer
    /\ saves' = saves + 1
    /\ Answer(a)
    /\ UNCHANGED sending

-----------------------------------------------------------------------------
(* test, send_test_email, activate, deactivate, delete                     *)

\* The stored credentials are read and tried.
StartProbe(a, p, op) ==
    /\ asking[a] = NotAsking /\ mailer[p] # None
    /\ \E ok \in Probe(mailer[p].credentials) :
           asking' = [asking EXCEPT ![a] = [op |-> op, provider |-> p, ok |-> ok]]
    /\ UNCHANGED <<mailer, sending, saves>>

RecordTest(p, ok) == IF mailer[p] = None THEN mailer ELSE [mailer EXCEPT ![p].last_test_ok = ok]

FinishTest(a) ==
    LET q == asking[a] IN
    /\ q.op = "test" \/ (q.op = "activate" /\ ~q.ok)
    /\ mailer' = RecordTest(q.provider, q.ok)
    /\ Answer(a)
    /\ UNCHANGED <<sending, saves>>

\* activate switches every active row off: those that were active when its UPDATE began. Another activation may have
\* been committed since.
StartSwitch(a) ==
    /\ asking[a].op = "activate" /\ asking[a].ok
    /\ asking' = [asking EXCEPT ![a] = [op |-> "switch", provider |-> @.provider, active |-> Active(mailer)]]
    /\ UNCHANGED <<mailer, sending, saves>>

Switched(p, active) ==
    [x \in Providers |-> IF mailer[x] = None THEN None
                         ELSE IF x = p THEN [mailer[x] EXCEPT !.is_active = TRUE, !.last_test_ok = TRUE]
                         ELSE [mailer[x] EXCEPT !.is_active = @ /\ x \notin active]]

\* Mutant: the index is missing.
OneActiveIndexOff(rows) == TRUE

\* ux_email_provider_configs_one_active
OneActiveIndex(rows) == Cardinality(Active(rows)) <= 1

FinishSwitch(a) ==
    LET q == asking[a] IN
    /\ q.op = "switch"
    /\ mailer' = IF mailer[q.provider] # None /\ OneActiveIndex(Switched(q.provider, q.active))
                 THEN Switched(q.provider, q.active) ELSE mailer
    /\ Answer(a)
    /\ UNCHANGED <<sending, saves>>

Deactivate ==
    /\ Active(mailer) # {}
    /\ mailer' = [p \in Providers |-> IF mailer[p] = None THEN None ELSE [mailer[p] EXCEPT !.is_active = FALSE]]
    /\ UNCHANGED <<asking, sending, saves>>

\* delete: the active row is not deleted, unless it became active after it was read.
StartDelete(a, p) ==
    /\ asking[a] = NotAsking /\ mailer[p] # None /\ ~mailer[p].is_active
    /\ asking' = [asking EXCEPT ![a] = [op |-> "delete", provider |-> p]]
    /\ UNCHANGED <<mailer, sending, saves>>

FinishDelete(a) ==
    /\ asking[a].op = "delete"
    /\ mailer' = [mailer EXCEPT ![asking[a].provider] = None]
    /\ Answer(a)
    /\ UNCHANGED <<sending, saves>>

-----------------------------------------------------------------------------
(* Sending: resolve_email_sender, RecordingSender                          *)

\* The active provider, or the server's own settings when there is none; two would raise an error (get_active).
Resolve(j) ==
    /\ sending[j] = NotSending
    /\ sending' = [sending EXCEPT ![j] =
           IF Cardinality(Active(mailer)) > 1 THEN [credentials |-> None, state |-> "failed"]
           ELSE [credentials |-> IF Active(mailer) = {} THEN None ELSE mailer[CHOOSE p \in Active(mailer) : TRUE].credentials,
                 state |-> "sending"]]
    /\ UNCHANGED <<mailer, asking, saves>>

\* The job ends, and begins anew when the sending failed.
Send(j) ==
    /\ sending[j].state # "idle"
    /\ sending' = [sending EXCEPT ![j] = NotSending]
    /\ UNCHANGED <<mailer, asking, saves>>

-----------------------------------------------------------------------------
EmailEndpoints ==
    \/ \E a \in Requests, p \in Providers :
           \/ \E credentials \in Credentials : StartSave(a, p, credentials)
           \/ \E op \in {"test", "activate"} : StartProbe(a, p, op)
           \/ StartDelete(a, p)
    \/ \E a \in Requests : FinishSave(a) \/ FinishTest(a) \/ StartSwitch(a) \/ FinishSwitch(a) \/ FinishDelete(a)
    \/ Deactivate

Sender == \E j \in Jobs : Resolve(j) \/ Send(j)

EmailSettingsNext == EmailEndpoints \/ Sender

EmailSettingsSpec == EmailSettingsInit /\ [][EmailSettingsNext]_emailSettingsVars

-----------------------------------------------------------------------------
\* However switches overlap, a mail is never left without an account because two are active: "two administrators
\* switching at the same moment cannot leave two" (email_provider_config.py).
MailHasOneAccount == \A j \in Jobs : sending[j].state # "failed"

=============================================================================
