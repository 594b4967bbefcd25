--------------------------- MODULE MCBackOffice -----------------------------
(***************************************************************************)
(* What administrators set up, for TLC: payment gateways and the store's   *)
(* currency, the GST master, the mail account, the storefront's document,  *)
(* the currency of old orders, the list of open problems, products and     *)
(* categories with their images, the amounts of an order and the scheduler.*)
(* Their models share no state, so a behaviour exercises one of them.      *)
(***************************************************************************)
EXTENDS PaymentSetup, TaxMaster, EmailSettings, SiteConfig, CurrencyReview, Worklist, Listings, Pricing, Scheduler, TLC

CONSTANTS k1, k2, p1, base, s1, s2

VARIABLE part   \* the component exercised

\* One problem names a payment, the other an event that matched none.
MCPaymentOf == (k1 :> p1) @@ (k2 :> None)

\* All names have the same slug.
MCBase == [n \in Names |-> base]

\* Values whose shares and taxes do not come out even; the last line is exempt.
MCBaskets == {<<10, 25, 7>>}
MCRateOf == <<50, 180, 0>>

MCShops ==
    [mode : {"exclusive", "inclusive"}, rounding : {"line", "invoice"}, shippingTaxed : BOOLEAN, intra : BOOLEAN,
     flat : {11}, threshold : {40}, flatRate : {0}]
    \cup [mode : {"flat"}, rounding : {"line"}, shippingTaxed : {FALSE}, intra : {TRUE},
          flat : {0, 11, None}, threshold : {0, 40}, flatRate : {75}]

MCTerms ==
    [kind : {"percentage"}, percent : {15, 100}, amount : {None}, cap : {None}]
    \cup [kind : {"percentage"}, percent : {15}, amount : {None}, cap : {5}]
    \cup [kind : {"fixed"}, percent : {None}, amount : {8}, cap : {None, 5}]
    \cup [kind : {"free_shipping"}, percent : {None}, amount : {None}, cap : {None}]

MCInterval == (s1 :> 3) @@ (s2 :> 2)

vars == <<part, paymentSetupVars, taxMasterVars, emailSettingsVars, siteConfigVars, currencyReviewVars,
          worklistVars, listingsVars, pricingVars, schedulerVars>>

\* A component that is not exercised has no state.
NoPaymentSetup == config = None /\ live = None /\ req = None /\ store = None /\ cart = None /\
                  accepted = None /\ attested = None /\ raced = None /\ chosen = None
NoTaxMaster == record = None /\ approving = None /\ assigned = None /\ tax = None
NoEmailSettings == mailer = None /\ asking = None /\ sending = None /\ saves = None
NoSiteConfig == published = None /\ draft = None /\ versions = None /\ holder = None /\ turn = None
NoCurrencyReview == currency = None /\ paid = None /\ reviews = None /\ review = None /\
                    storeCurrency = None /\ changed = None
NoWorklist == problem = None /\ refund = None /\ closing = None /\ reports = None
NoListings == row = None /\ files = None /\ uploads = None /\ request = None /\ spoilt = None /\
              page = None /\ shown = None /\ writes = None
NoPricing == basket = None /\ shop = None /\ coupon = None /\ quoted = None /\ charged = None
NoScheduler == now = None /\ wake = None /\ since = None /\ queued = None /\ pending = None /\
               expiry = None /\ swept = None

Init ==
    \/ part \in {"payment setup", "store currency"} /\ PaymentSetupInit /\ NoTaxMaster /\ NoEmailSettings /\
       NoSiteConfig /\ NoCurrencyReview /\ NoWorklist /\ NoListings /\ NoPricing /\ NoScheduler
    \/ part = "tax master" /\ TaxMasterInit /\ NoPaymentSetup /\ NoEmailSettings /\ NoSiteConfig /\
       NoCurrencyReview /\ NoWorklist /\ NoListings /\ NoPricing /\ NoScheduler
    \/ part = "mail" /\ EmailSettingsInit /\ NoPaymentSetup /\ NoTaxMaster /\ NoSiteConfig /\
       NoCurrencyReview /\ NoWorklist /\ NoListings /\ NoPricing /\ NoScheduler
    \/ part = "site" /\ SiteConfigInit /\ NoPaymentSetup /\ NoTaxMaster /\ NoEmailSettings /\
       NoCurrencyReview /\ NoWorklist /\ NoListings /\ NoPricing /\ NoScheduler
    \/ part = "currency review" /\ CurrencyReviewInit /\ NoPaymentSetup /\ NoTaxMaster /\ NoEmailSettings /\
       NoSiteConfig /\ NoWorklist /\ NoListings /\ NoPricing /\ NoScheduler
    \/ part = "worklist" /\ WorklistInit /\ NoPaymentSetup /\ NoTaxMaster /\ NoEmailSettings /\
       NoSiteConfig /\ NoCurrencyReview /\ NoListings /\ NoPricing /\ NoScheduler
    \/ part = "listings" /\ ListingsInit /\ NoPaymentSetup /\ NoTaxMaster /\ NoEmailSettings /\
       NoSiteConfig /\ NoCurrencyReview /\ NoWorklist /\ NoPricing /\ NoScheduler
    \/ part = "pricing" /\ PricingInit /\ NoPaymentSetup /\ NoTaxMaster /\ NoEmailSettings /\ NoSiteConfig /\
       NoCurrencyReview /\ NoWorklist /\ NoListings /\ NoScheduler
    \/ part = "scheduler" /\ SchedulerInit /\ NoPaymentSetup /\ NoTaxMaster /\ NoEmailSettings /\
       NoSiteConfig /\ NoCurrencyReview /\ NoWorklist /\ NoListings /\ NoPricing

Next ==
    /\ UNCHANGED part
    /\ \/ /\ part = "payment setup" /\ SetupNext
          /\ UNCHANGED <<taxMasterVars, emailSettingsVars, siteConfigVars, currencyReviewVars, worklistVars,
                         listingsVars, pricingVars, schedulerVars>>
       \/ /\ part = "store currency" /\ StoreNext
          /\ UNCHANGED <<taxMasterVars, emailSettingsVars, siteConfigVars, currencyReviewVars, worklistVars,
                         listingsVars, pricingVars, schedulerVars>>
       \/ /\ part = "tax master" /\ TaxMasterNext
          /\ UNCHANGED <<paymentSetupVars, emailSettingsVars, siteConfigVars, currencyReviewVars,
                         worklistVars, listingsVars, pricingVars, schedulerVars>>
       \/ /\ part = "mail" /\ EmailSettingsNext
          /\ UNCHANGED <<paymentSetupVars, taxMasterVars, siteConfigVars, currencyReviewVars, worklistVars,
                         listingsVars, pricingVars, schedulerVars>>
       \/ /\ part = "site" /\ SiteConfigNext
          /\ UNCHANGED <<paymentSetupVars, taxMasterVars, emailSettingsVars, currencyReviewVars, worklistVars,
                         listingsVars, pricingVars, schedulerVars>>
       \/ /\ part = "currency review" /\ CurrencyReviewNext
          /\ UNCHANGED <<paymentSetupVars, taxMasterVars, emailSettingsVars, siteConfigVars, worklistVars,
                         listingsVars, pricingVars, schedulerVars>>
       \/ /\ part = "worklist" /\ WorklistNext
          /\ UNCHANGED <<paymentSetupVars, taxMasterVars, emailSettingsVars, siteConfigVars,
                         currencyReviewVars, listingsVars, pricingVars, schedulerVars>>
       \/ /\ part = "listings" /\ ListingsNext
          /\ UNCHANGED <<paymentSetupVars, taxMasterVars, emailSettingsVars, siteConfigVars,
                         currencyReviewVars, worklistVars, pricingVars, schedulerVars>>
       \/ /\ part = "pricing" /\ PricingNext
          /\ UNCHANGED <<paymentSetupVars, taxMasterVars, emailSettingsVars, siteConfigVars,
                         currencyReviewVars, worklistVars, listingsVars, schedulerVars>>
       \/ /\ part = "scheduler" /\ SchedulerNext
          /\ UNCHANGED <<paymentSetupVars, taxMasterVars, emailSettingsVars, siteConfigVars,
                         currencyReviewVars, worklistVars, listingsVars, pricingVars>>

Spec == Init /\ [][Next]_vars

\* The administrators of the tax master are interchangeable.
Symmetry == Permutations(Admins)

-----------------------------------------------------------------------------
\* The gateway that takes new payments has accepted the credentials it is used with, a live one was attested with them,
\* and an administrator chose it last.
PaymentSetup_GatewayMayTakePayments == part \in {"payment setup", "store currency"} => GatewayMayTakePayments

\* Every order is in the store's one currency, whoever records it first.
PaymentSetup_OneCurrency == part \in {"payment setup", "store currency"} => OneCurrency

\* Whatever drafts, approvals and retirements run at once, one rule at most applies on a day, and what is approved stands
\* on what is approved.
TaxMaster_TaxIsDefinite == part = "tax master" => TaxIsDefinite

\* However switches overlap, a mail is never left without an account because two are active.
EmailSettings_MailHasOneAccount == part = "mail" => MailHasOneAccount

\* The storefront serves the last version, and each version was published by someone who had seen the one before.
SiteConfig_PublishingTakesTurns == part = "site" => PublishingTakesTurns

\* An order has a currency exactly when the last of its reviews established it, and no payment of it is in another one.
CurrencyReview_CurrencyIsEvidenced == part = "currency review" => CurrencyIsEvidenced

\* The image that is listed exists and the public sees only what is active, whatever requests overlap or fail.
Listings_ListingIsTrue == part = "listings" => ListingIsTrue

\* The amounts of an order add up, are those quoted, and the coupon they rest on is kept as it was.
Pricing_AmountsAreRight == part = "pricing" => AmountsAreRight

\* No bucket of a schedule is skipped, and a stuck order is tried again every hour.
Scheduler_DueWorkIsQueued == part = "scheduler" => DueWorkIsQueued

\* A closed problem keeps its resolution, whoever else was at it at the same time.
Worklist_ResolutionStands == [][part = "worklist" => ResolutionStands]_worklistVars
=============================================================================
