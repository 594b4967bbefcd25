---------------------------- MODULE PaymentSetup ----------------------------
(***************************************************************************)
(* How the shop takes payments: the stored gateway configurations and      *)
(* their credentials (ProviderConfigService), demo, test and live mode     *)
(* (PaymentModeService), the choice of a gateway for a new payment         *)
(* (ProviderResolver) and the store's currency (StoreService).             *)
(*                                                                         *)
(* A handler that locks the configuration row is one step. Checking        *)
(* credentials is not: it reads the configuration, closes its transaction  *)
(* while it waits for the gateway, and then locks the row and records the  *)
(* answer. Switching to the demo gateway reads the live switch without a   *)
(* lock, and so does everyone who needs the store's currency.              *)
(***************************************************************************)
EXTENDS Common, Naturals, FiniteSets

CONSTANTS
    Configs,         \* payment_provider_configs, one per gateway and mode
    Demo, Live,      \* of these, the demo gateway's and the live ones
    Operators,       \* concurrent administrators
    Shoppers,        \* customers checking out
    Currencies,
    CurrencyLists,   \* the lists of currencies an administrator enters for a configuration
    DefaultCurrency, \* default_store_currency
    LiveAllowed,     \* LIVE_PAYMENTS_ENABLED
    MaxKeys          \* bound: credentials entered for one configuration

ASSUME GatewaysAssumption == Demo \subseteq Configs /\ Live \subseteq Configs \ Demo

ASSUME CurrenciesAssumption ==
    None \notin Currencies /\ DefaultCurrency \in Currencies /\ CurrencyLists \subseteq SUBSET Currencies

VARIABLES
    config,   \* the configuration rows
    live,     \* payment_settings.live_payments_active
    req,      \* requests that wait for a gateway, or have read the live switch
    store,    \* store_settings.currency
    cart,     \* what each shopper's checkout has read of it; the currency of the order in the end
    accepted, \* history: credentials (by number) each gateway has accepted
    attested, \* history: credentials the attestations of a configuration were made about
    raced,    \* history: configurations whose credentials were last judged by an answer about others
    chosen    \* history: the gateway an administrator chose last; None after live was switched off

paymentSetupVars == <<config, live, req, store, cart, accepted, attested, raced, chosen>>
history == <<accepted, attested, raced, chosen>>

\* A row: status, preference, number of the credentials in use (0: none), whether there is a webhook
\* secret, what is known of them, currencies, attestations and the last gateway check.
Absent == [status |-> "absent", preferred |-> FALSE, keys |-> 0, valid |-> "unvalidated", secret |-> FALSE,
           verified |-> FALSE, currencies |-> {}, sandbox |-> FALSE, review |-> FALSE, checked |-> FALSE]

NotWaiting == [op |-> "none", config |-> None, keys |-> 0]
NotStarted == [step |-> "start", currency |-> None]

PaymentSetupInit ==
    /\ config = [c \in Configs |-> Absent]
    /\ live = FALSE
    /\ req = [a \in Operators |-> NotWaiting]
    /\ store = None
    /\ cart = [s \in Shoppers |-> NotStarted]
    /\ accepted = [c \in Configs |-> {}]
    /\ attested = [c \in Configs |-> 0]
    /\ raced = {} /\ chosen = None

Exists(c) == config[c].status # "absent"

-----------------------------------------------------------------------------
\* The store's currency.
AnyOrders == \E s \in Shoppers : cart[s].step = "ordered"

\* effective_currency: the configured one; the default for a new store; none to guess for a
\* store that already has orders.
EffectiveCurrency == IF store # None THEN store ELSE IF AnyOrders THEN None ELSE DefaultCurrency

\* initialize_currency: INSERT ... ON CONFLICT DO NOTHING.
Initialized(code) == IF store = None THEN code ELSE store

\* The trigger on store_settings: a currency that was set stays.
CurrencyGuard(code) == store \in {None, code}

\* set_currency by an administrator.
SetCurrency(code) ==
    /\ CurrencyGuard(code)
    /\ store' = Initialized(code)
    /\ UNCHANGED <<config, live, req, cart>> /\ UNCHANGED history

\* A checkout asks for the currency.
AskCurrency(s) ==
    /\ cart[s].step = "start" /\ EffectiveCurrency # None
    /\ cart' = [cart EXCEPT ![s] = [step |-> "asked", currency |-> EffectiveCurrency]]
    /\ UNCHANGED <<config, live, req, store>> /\ UNCHANGED history

\* Mutant: the order takes the currency read at first.
OrderedInAsRead(s) == cart[s].currency

\* get_or_initialize_currency returns what the table holds after its insert.
OrderedIn(s) == Initialized(cart[s].currency)

\* ... and records the default for a new store; the order is placed in the currency the table
\* then holds.
PlaceOrder(s) ==
    /\ cart[s].step = "asked"
    /\ store' = Initialized(cart[s].currency)
    /\ cart' = [cart EXCEPT ![s] = [step |-> "ordered", currency |-> OrderedIn(s)]]
    /\ UNCHANGED <<config, live, req>> /\ UNCHANGED history

-----------------------------------------------------------------------------
\* readiness: what a configuration needs to be enabled.
Ready(c) ==
    /\ config[c].valid = "valid" /\ config[c].currencies # {}
    /\ c \in Live => /\ LiveAllowed
                     /\ config[c].secret /\ config[c].verified
                     /\ config[c].sandbox /\ config[c].review

\* Nobody is preferred any more but c.
Preferred(rows, c) == [x \in Configs |-> [rows[x] EXCEPT !.preferred = (x = c)]]

\* create: a draft; create_demo is part of EnableDemo.
Create(c, withSecret) ==
    /\ c \notin Demo /\ ~Exists(c)
    /\ config' = [config EXCEPT ![c] = [Absent EXCEPT !.status = "draft", !.keys = 1,
                      !.secret = withSecret,
                      !.currencies = IF EffectiveCurrency = None THEN {} ELSE {EffectiveCurrency}]]
    /\ UNCHANGED <<live, req, store, cart>> /\ UNCHANGED history

\* Mutant: attestations survive new credentials.
NewCredentialsKeepEvidence(row) == [row EXCEPT !.keys = @ + 1, !.valid = "unvalidated"]

\* rotate, credentials: "evidence gathered for the OLD credentials does not carry over".
NewCredentials(row) == [row EXCEPT !.keys = @ + 1, !.valid = "unvalidated", !.sandbox = FALSE, !.review = FALSE]

\* rotate, webhook secret: the one in use keeps verifying events as the previous one.
NewSecret(row) == [row EXCEPT !.secret = TRUE, !.verified = FALSE]

\* A rotated configuration takes no new payments.
Paused(row) == IF row.status = "enabled" THEN [row EXCEPT !.status = "disabled", !.preferred = FALSE] ELSE row

\* rotate: credentials, webhook secret, or both.
Rotate(c, what) ==
    /\ Exists(c) /\ c \notin Demo
    /\ "credentials" \in what => config[c].keys < MaxKeys
    /\ config' = [config EXCEPT ![c] =
          LET row == IF "credentials" \in what THEN NewCredentials(@) ELSE @
          IN  Paused(IF "secret" \in what THEN NewSecret(row) ELSE row)]
    /\ raced' = IF "credentials" \in what THEN raced \ {c} ELSE raced
    /\ UNCHANGED <<live, req, store, cart, accepted, attested, chosen>>

\* validate, also as the first part of run_checks: the stored credentials go to the gateway.
StartValidation(a, c, op) ==
    /\ req[a] = NotWaiting /\ Exists(c) /\ c \notin Demo
    /\ req' = [req EXCEPT ![a] = [op |-> op, config |-> c, keys |-> config[c].keys]]
    /\ UNCHANGED <<config, live, store, cart>> /\ UNCHANGED history

\* The row after the gateway's answer: an enabled configuration never keeps bad credentials.
Answered(row, ok) ==
    IF ok THEN [row EXCEPT !.valid = "valid"]
    ELSE Paused([row EXCEPT !.valid = "invalid"])

\* run_checks passes when everything required holds (a test gateway's trial payment is left out).
Passes(c, row) ==
    /\ row.valid = "valid" /\ EffectiveCurrency \in row.currencies /\ row.secret
    /\ c \in Live => row.verified /\ row.sandbox /\ row.review

\* The gateway accepts the credentials it was sent, or not, whatever it said of them before. The answer is written on the
\* row as it is by now, also if other credentials are stored in it.
FinishValidation(a, ok) ==
    LET c == req[a].config
        row == Answered(config[c], ok)
    IN
    /\ req[a].op \in {"validate", "check"}
    /\ config' = [config EXCEPT ![c] = IF req[a].op = "check" THEN [row EXCEPT !.checked = Passes(c, row)] ELSE row]
    /\ accepted' = IF ok THEN [accepted EXCEPT ![c] = @ \cup {req[a].keys}] ELSE accepted
    /\ raced' = IF req[a].keys = config[c].keys THEN raced \ {c} ELSE raced \cup {c}
    /\ req' = [req EXCEPT ![a] = NotWaiting]
    /\ UNCHANGED <<live, store, cart, attested, chosen>>

\* A correctly signed event arrived (mark_webhook_verified).
WebhookArrives(c) ==
    /\ Exists(c) /\ config[c].secret /\ ~config[c].verified
    /\ config' = [config EXCEPT ![c].verified = TRUE]
    /\ UNCHANGED <<live, req, store, cart>> /\ UNCHANGED history

\* set_currencies.
SetCurrencies(c, codes) ==
    /\ Exists(c) /\ codes # config[c].currencies
    /\ config[c].status = "enabled" => codes # {}
    /\ config' = [config EXCEPT ![c].currencies = codes]
    /\ UNCHANGED <<live, req, store, cart>> /\ UNCHANGED history

\* attest: the sandbox verification, then the production review.
Attest(c, kind) ==
    /\ Exists(c)
    /\ kind = "review" => config[c].sandbox
    /\ ~config[c][kind]
    /\ config' = [config EXCEPT ![c][kind] = TRUE]
    /\ attested' = [attested EXCEPT ![c] = config[c].keys]
    /\ UNCHANGED <<live, req, store, cart, accepted, raced, chosen>>

\* enable.
Enable(c) ==
    /\ Exists(c) /\ config[c].status # "enabled" /\ Ready(c)
    /\ config' = [config EXCEPT ![c].status = "enabled"]
    /\ UNCHANGED <<live, req, store, cart>> /\ UNCHANGED history

\* disable, also disable_demo: nothing takes over.
Disable(c) ==
    /\ Exists(c) /\ config[c].status # "disabled"
    /\ config' = [config EXCEPT ![c].status = "disabled", ![c].preferred = FALSE]
    /\ UNCHANGED <<live, req, store, cart>> /\ UNCHANGED history

\* What prefer asks of a configuration.
MayPrefer(c) ==
    /\ config[c].status = "enabled" /\ config[c].valid = "valid"
    /\ EffectiveCurrency \in config[c].currencies

\* prefer, for a real gateway.
Prefer(c) ==
    /\ c \notin Demo /\ MayPrefer(c) /\ ~config[c].preferred
    /\ config' = Preferred(config, c)
    /\ chosen' = c
    /\ UNCHANGED <<live, req, store, cart, accepted, attested, raced>>

\* enable_demo, and prefer for the demo gateway: refused while live payments are active, which is
\* read without a lock.
StartDemo(a, c) ==
    /\ req[a] = NotWaiting /\ c \in Demo
    /\ ~live
    /\ req' = [req EXCEPT ![a] = [op |-> "demo", config |-> c, keys |-> 0]]
    /\ UNCHANGED <<config, live, store, cart>> /\ UNCHANGED history

\* The demo gateway's row, created on first use: no credentials to enter, a secret of its own.
DemoRow(c) ==
    IF Exists(c) THEN [config[c] EXCEPT !.status = "enabled"]
    ELSE [Absent EXCEPT !.status = "enabled", !.valid = "valid", !.secret = TRUE, !.currencies = Currencies]

FinishDemo(a) ==
    LET c == req[a].config IN
    /\ req[a].op = "demo"
    /\ EffectiveCurrency \in DemoRow(c).currencies
    /\ config' = Preferred([config EXCEPT ![c] = DemoRow(c)], c)
    /\ chosen' = c
    /\ req' = [req EXCEPT ![a] = NotWaiting]
    /\ UNCHANGED <<live, store, cart, accepted, attested, raced>>

\* _activation_blockers finds none: among them, the last gateway check passed.
MayActivate(c) == c \in Live /\ config[c].status = "enabled" /\ Ready(c) /\ config[c].checked

\* activate_live: the switch and the configuration are locked.
ActivateLive(c) ==
    /\ MayActivate(c) /\ MayPrefer(c)
    /\ live' = TRUE
    /\ config' = Preferred(config, c)
    /\ chosen' = c
    /\ UNCHANGED <<req, store, cart, accepted, attested, raced>>

\* "nothing takes over: no gateway is preferred until an administrator chooses one".
Deactivated(rows) == [x \in Configs |-> [rows[x] EXCEPT !.preferred = FALSE]]

\* deactivate_live.
DeactivateLive ==
    /\ live /\ live' = FALSE
    /\ config' = Deactivated(config)
    /\ chosen' = None
    /\ UNCHANGED <<req, store, cart, accepted, attested, raced>>

\* A gateway check is a day old.
CheckExpires(c) ==
    /\ config[c].checked
    /\ config' = [config EXCEPT ![c].checked = FALSE]
    /\ UNCHANGED <<live, req, store, cart>> /\ UNCHANGED history

\* A request fails while it waits.
GiveUp(a) ==
    /\ req[a] # NotWaiting
    /\ req' = [req EXCEPT ![a] = NotWaiting]
    /\ UNCHANGED <<config, live, store, cart>> /\ UNCHANGED history

-----------------------------------------------------------------------------
ProviderEndpoints ==
    \E c \in Configs :
        \/ Enable(c) \/ Disable(c) \/ Prefer(c)
        \/ \E withSecret \in BOOLEAN : Create(c, withSecret)
        \/ \E what \in SUBSET {"credentials", "secret"} \ {{}} : Rotate(c, what)
        \/ \E codes \in CurrencyLists : SetCurrencies(c, codes)
        \/ \E kind \in {"sandbox", "review"} : Attest(c, kind)
        \/ \E a \in Operators, op \in {"validate", "check"} : StartValidation(a, c, op)

ModeEndpoints ==
    \/ DeactivateLive \/ \E c \in Configs : ActivateLive(c)
    \/ \E a \in Operators : FinishDemo(a) \/ \E c \in Configs : StartDemo(a, c)

\* The gateways' answers and events, and time.
Environment ==
    \/ \E c \in Configs : WebhookArrives(c) \/ CheckExpires(c)
    \/ \E a \in Operators : GiveUp(a) \/ \E ok \in BOOLEAN : FinishValidation(a, ok)

StoreEndpoints == \E code \in Currencies : SetCurrency(code)

Checkouts == \E s \in Shoppers : AskCurrency(s) \/ PlaceOrder(s)

\* Without customers: to the gateways they only mean that the currency is recorded sooner.
SetupNext == ProviderEndpoints \/ ModeEndpoints \/ Environment \/ StoreEndpoints

\* Without gateways: what happens to them does not concern the currency.
StoreNext == StoreEndpoints \/ Checkouts

PaymentSetupNext == SetupNext \/ StoreNext

PaymentSetupSpec == PaymentSetupInit /\ [][PaymentSetupNext]_paymentSetupVars

-----------------------------------------------------------------------------
\* select_for_new_payment: the preferred configuration, if it may take a payment in the store's
\* currency; otherwise the payment is refused.
TakesPayments(c) ==
    /\ config[c].preferred /\ config[c].status = "enabled" /\ config[c].valid = "valid"
    /\ EffectiveCurrency \in config[c].currencies
    /\ c \in Live => LiveAllowed /\ live
    /\ c \in Demo => ~(LiveAllowed /\ live)

\* A real gateway takes payments only with credentials it has accepted. The exception: its answer about the ones before
\* came after they were replaced and was taken for the new ones (raced). The code allows this, although "a configuration
\* can be ENABLED only when its credentials were validated against the provider" (provider_config_service.py).
CredentialsAccepted ==
    \A c \in Configs \ Demo : TakesPayments(c) => config[c].keys \in accepted[c] \/ c \in raced

\* A live gateway that takes real money was attested with the credentials it now uses, not with
\* ones that were replaced.
EvidenceIsCurrent == \A c \in Live : TakesPayments(c) => attested[c] = config[c].keys

\* No gateway takes payments by itself: whoever takes them is the one an administrator chose last,
\* and after live payments were switched off nobody does until somebody is chosen.
NothingTakesOver == \A c \in Configs : TakesPayments(c) => chosen = c

\* Every order is in the store's one currency, whoever records it first.
OneCurrency == \A s \in Shoppers : cart[s].step = "ordered" => cart[s].currency = store /\ store # None

\* Whichever gateway takes new payments may do so: a live one was attested with the credentials it is used with, an
\* administrator chose it last, and it has accepted these credentials, unless they ever replaced others while a check of
\* those was under way: then the answer about the old ones counts for the new (provider_config_service.py,
\* payment_mode_service.py).
GatewayMayTakePayments == CredentialsAccepted /\ EvidenceIsCurrent /\ NothingTakesOver
=============================================================================
