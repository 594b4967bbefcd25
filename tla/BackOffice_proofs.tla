------------------------- MODULE BackOffice_proofs --------------------------
(***************************************************************************)
(* What administrators and background jobs share, for any number of        *)
(* requests, providers, versions, orders, problems and processes: mail is  *)
(* sent from one account, the storefront serves the last version, an       *)
(* order's currency rests on its last review, a closed problem stays as it *)
(* was closed, and no period of a schedule is skipped.  And what the shop  *)
(* sells with, for any number of gateways, customers, tax records, rows    *)
(* and files: tax is definite, the gateway that takes payments may take    *)
(* them, orders are in one currency, a listing shows an image that exists *)
(* and rows that are active, and the amounts of orders add up.             *)
(*                                                                         *)
(* Each theorem states it of the component's own specification and of the  *)
(* composition that TLC checks; a step of the composition is a step of the *)
(* part exercised, or leaves that part alone (PartStep).                   *)
(***************************************************************************)
EXTENDS MCBackOffice, Sums_proofs

\* A step of the composition is a step of the component that is exercised, or leaves it alone.
LEMMA PartStep ==
    ASSUME [Next]_vars
    PROVE  /\ part' = part
           /\ part = "mail" => [EmailSettingsNext]_emailSettingsVars
           /\ part = "site" => [SiteConfigNext]_siteConfigVars
           /\ part = "tax master" => [TaxMasterNext]_taxMasterVars
           /\ part = "currency review" => [CurrencyReviewNext]_currencyReviewVars
           /\ part = "worklist" => [WorklistNext]_worklistVars
           /\ part = "listings" => [ListingsNext]_listingsVars
           /\ part = "scheduler" => [SchedulerNext]_schedulerVars
           /\ part = "pricing" => [PricingNext]_pricingVars
           /\ part = "payment setup" => [SetupNext]_paymentSetupVars
           /\ part = "store currency" => [StoreNext]_paymentSetupVars
  BY DEF Next, vars

-----------------------------------------------------------------------------
\* A stored account, and what a request remembers.
MailerRows == [credentials : Credentials, is_active : BOOLEAN, last_test_ok : BOOLEAN \cup {None}]

AskingType ==
    [op : {"idle"}]
    \cup [op : {"save"}, provider : Providers, row : MailerRows \cup {None}, credentials : Credentials]
    \cup [op : {"test", "activate"}, provider : Providers, ok : BOOLEAN]
    \cup [op : {"switch"}, provider : Providers, active : SUBSET Providers]
    \cup [op : {"delete"}, provider : Providers]

EmailType ==
    /\ mailer \in [Providers -> MailerRows \cup {None}]
    /\ asking \in [Requests -> AskingType]
    /\ DOMAIN sending = Jobs

\* The unique index carries everything.
EmailInv == EmailType /\ OneActiveIndex(mailer) /\ MailHasOneAccount

\* Fewer active accounts keep the unique index.
LEMMA FewerActive ==
    ASSUME NEW rows, NEW new, OneActiveIndex(rows), Active(new) \subseteq Active(rows)
    PROVE  OneActiveIndex(new)
<1>1. IsFiniteSet(Active(rows))
  BY ProvidersFinite, FS_Subset DEF Active
<1> QED
  BY <1>1, FS_Subset, FS_CardinalityType DEF OneActiveIndex

\* No account at first.
LEMMA EmailInitInv == EmailSettingsInit => EmailInv
<1> SUFFICES ASSUME EmailSettingsInit PROVE EmailInv
  OBVIOUS
<1>1. EmailType
  BY DEF EmailSettingsInit, EmailType, AskingType, NotAsking
<1>2. Active(mailer) = {}
  BY DEF EmailSettingsInit, Active
<1> QED
  BY <1>1, <1>2, FS_EmptySet DEF EmailInv, OneActiveIndex, MailHasOneAccount, EmailSettingsInit, NotSending

\* Every step keeps the index: a switch that would break it is refused.
LEMMA EmailStep == EmailInv /\ [EmailSettingsNext]_emailSettingsVars => EmailInv'
<1> SUFFICES ASSUME EmailInv, [EmailSettingsNext]_emailSettingsVars PROVE EmailInv'
  OBVIOUS
<1> USE DEF EmailInv
<1>0. ASSUME NEW a \in Requests, sending' = sending, mailer' = mailer, NEW q \in AskingType,
             asking' = [asking EXCEPT ![a] = q]
      PROVE EmailInv'
  BY <1>0 DEF EmailType, OneActiveIndex, Active, MailHasOneAccount
<1>a. ASSUME NEW a \in Requests, sending' = sending, asking' = [asking EXCEPT ![a] = NotAsking] \/ asking' = asking,
             mailer' \in [Providers -> MailerRows \cup {None}], Active(mailer') \subseteq Active(mailer) \/ OneActiveIndex(mailer')
      PROVE EmailInv'
  <2>1. OneActiveIndex(mailer')
    BY <1>a, FewerActive
  <2> QED BY <1>a, <2>1 DEF EmailType, OneActiveIndex, Active, MailHasOneAccount, AskingType, NotAsking
<1>1. ASSUME NEW a \in Requests, NEW p \in Providers, NEW c \in Credentials, StartSave(a, p, c) PROVE EmailInv'
  BY <1>0, <1>1 DEF StartSave, AskingType, EmailType
<1>2. ASSUME NEW a \in Requests, NEW p \in Providers, NEW op \in {"test", "activate"}, StartProbe(a, p, op) PROVE EmailInv'
  BY <1>0, <1>2 DEF StartProbe, AskingType, EmailType, Probe
<1>3. ASSUME NEW a \in Requests, NEW p \in Providers, StartDelete(a, p) PROVE EmailInv'
  BY <1>0, <1>3 DEF StartDelete, AskingType, EmailType
<1>4. ASSUME NEW a \in Requests, FinishSave(a) PROVE EmailInv'
  <2>1. asking[a].provider \in Providers /\ asking[a].credentials \in Credentials
    BY <1>4 DEF FinishSave, EmailType, AskingType
  <2>2. mailer' \in [Providers -> MailerRows \cup {None}]
    BY <1>4, <2>1 DEF FinishSave, EmailType, MailerRow, MailerRows, Saved
  <2>3. Active(mailer') \subseteq Active(mailer)
    BY <1>4, <2>1 DEF FinishSave, EmailType, MailerRow, MailerRows, Saved, Active
  <2> QED BY <1>4, <1>a, <2>2, <2>3 DEF FinishSave, Answer
<1>5. ASSUME NEW a \in Requests, FinishTest(a) PROVE EmailInv'
  <2>1. asking[a].provider \in Providers /\ asking[a].ok \in BOOLEAN
    BY <1>5 DEF FinishTest, EmailType, AskingType
  <2>2. mailer' \in [Providers -> MailerRows \cup {None}]
    BY <1>5, <2>1 DEF FinishTest, EmailType, RecordTest, MailerRows
  <2>3. Active(mailer') \subseteq Active(mailer)
    BY <1>5, <2>1 DEF FinishTest, EmailType, RecordTest, MailerRows, Active
  <2> QED BY <1>5, <1>a, <2>2, <2>3 DEF FinishTest, Answer
<1>6. ASSUME NEW a \in Requests, StartSwitch(a) PROVE EmailInv'
  <2>1. asking[a].provider \in Providers
    BY <1>6 DEF StartSwitch, EmailType, AskingType
  <2> QED
    BY <1>0, <1>6, <2>1 DEF StartSwitch, AskingType, EmailType, Active
<1>7. ASSUME NEW a \in Requests, FinishSwitch(a) PROVE EmailInv'
  <2>1. asking[a].provider \in Providers /\ asking[a].active \subseteq Providers
    BY <1>7 DEF FinishSwitch, EmailType, AskingType
  <2>2. Switched(asking[a].provider, asking[a].active) \in [Providers -> MailerRows \cup {None}]
    BY <2>1 DEF Switched, EmailType, MailerRows
  <2> QED BY <1>7, <1>a, <2>2 DEF FinishSwitch, Answer, EmailType
<1>8. ASSUME NEW a \in Requests, FinishDelete(a) PROVE EmailInv'
  <2>1. asking[a].provider \in Providers
    BY <1>8 DEF FinishDelete, EmailType, AskingType
  <2> QED BY <1>8, <1>a, <2>1 DEF FinishDelete, Answer, EmailType, Active
<1>9. ASSUME Deactivate PROVE EmailInv'
  <2>1. Active(mailer') = {} /\ mailer' \in [Providers -> MailerRows \cup {None}]
    BY <1>9 DEF Deactivate, EmailType, MailerRows, Active
  <2>2. OneActiveIndex(mailer')
    BY <2>1, FewerActive
  <2> QED BY <1>9, <2>1, <2>2 DEF Deactivate, EmailType, MailHasOneAccount, OneActiveIndex, Active
<1>10. ASSUME NEW j \in Jobs, Resolve(j) \/ Send(j) PROVE EmailInv'
  <2>1. ~(Cardinality(Active(mailer)) > 1)
    BY ProvidersFinite, FS_Subset, FS_CardinalityType DEF Active, OneActiveIndex
  <2>2. \E s : s.state # "failed" /\ sending' = [sending EXCEPT ![j] = s]
    BY <1>10, <2>1 DEF Resolve, Send, NotSending
  <2>3. mailer' = mailer /\ asking' = asking
    BY <1>10 DEF Resolve, Send
  <2> QED
    BY <2>2, <2>3 DEF EmailType, OneActiveIndex, Active, MailHasOneAccount
<1>11. CASE UNCHANGED emailSettingsVars
  BY <1>11 DEF emailSettingsVars, EmailType, OneActiveIndex, Active, MailHasOneAccount
<1> QED
  BY <1>1, <1>2, <1>3, <1>4, <1>5, <1>6, <1>7, <1>8, <1>9, <1>10, <1>11 DEF EmailSettingsNext, EmailEndpoints, Sender

\* However saves, tests, switches and deletions of the account overlap, no mail fails because two accounts are active
\* (email_settings/service.py: the unique index refuses the second).
THEOREM MailAccount ==
    /\ EmailSettingsSpec => []MailHasOneAccount
    /\ Spec => []EmailSettings_MailHasOneAccount
<1> DEFINE I == part = "mail" => EmailInv
<1>1. EmailInv => MailHasOneAccount
  BY DEF EmailInv
<1>2. Init => I
  BY EmailInitInv DEF Init
<1>3. I /\ [Next]_vars => I'
  BY PartStep, EmailStep
<1>4. I => EmailSettings_MailHasOneAccount
  BY <1>1 DEF EmailSettings_MailHasOneAccount
<1>5. EmailSettingsSpec => []MailHasOneAccount
  BY <1>1, EmailInitInv, EmailStep, PTL DEF EmailSettingsSpec
<1>6. Spec => []EmailSettings_MailHasOneAccount
  <2> HIDE DEF I
  <2> QED BY <1>2, <1>3, <1>4, PTL DEF Spec
<1> QED BY <1>5, <1>6

-----------------------------------------------------------------------------
\* A stored version, and what a request remembers.
VersionRows == [version : Nat, document : Documents \cup {None}, expected : Nat \cup {None}, copied : Nat \cup {None}]

TurnType ==
    [op : {"idle"}]
    \cup [op : {"publish", "rollback"}, document : Documents \cup {None}, expected : Nat \cup {None}, copied : Nat \cup {None}]
    \cup [op : {"numbered"}, document : Documents \cup {None}, expected : Nat \cup {None}, copied : Nat \cup {None},
          version : Nat, publishes : BOOLEAN]

SiteType ==
    /\ published \in Nat
    /\ draft \in Documents \cup {None}
    /\ versions \subseteq VersionRows
    /\ turn \in [Requests -> TurnType]

\* The versions are numbered 1 .. published, one row each.
Numbered ==
    /\ \A n \in Nat : n \in Numbers <=> n \in 1 .. published
    /\ \A v, w \in versions : v.version = w.version => v = w

\* The requests at work hold the lock: one at a time.
OneWriter ==
    /\ \A a \in Requests : turn[a].op # "idle" => a \in holder
    /\ \A a, b \in holder : a = b

\* What the request at work has read is still true.
TurnFresh ==
    \A a \in Requests : turn[a].op # "idle" =>
        /\ turn[a].expected # None => turn[a].expected = published
        /\ turn[a].copied # None => turn[a].copied \in Numbers /\ turn[a].document = Document(turn[a].copied)
        /\ turn[a].op = "numbered" => turn[a].version = published + 1

\* What the stored versions say about each other.
History ==
    \A v \in versions : /\ v.expected # None => v.expected = v.version - 1
                        /\ v.copied # None => v.copied < v.version /\ v.copied \in Numbers /\ v.document = Document(v.copied)

SiteInv == SiteType /\ Numbered /\ OneWriter /\ TurnFresh /\ History

\* A version number finds its one row.
LEMMA DocumentOf ==
    ASSUME SiteType, Numbered, NEW v \in versions
    PROVE  Document(v.version) = v.document
<1> DEFINE w == CHOOSE x \in versions : x.version = v.version
<1>1. w \in versions /\ w.version = v.version
  OBVIOUS
<1>2. w = v
  BY <1>1 DEF Numbered
<1> QED
  BY <1>2 DEF Document

\* The highest version is the one that is served.
LEMMA LatestIsPublished ==
    ASSUME SiteType, Numbered
    PROVE  Latest = published
<1>1. Numbers \subseteq Nat
  BY DEF Numbers, SiteType, VersionRows
<1>2. CASE published = 0
  <2>1. Numbers = {}
    BY <1>1, <1>2 DEF Numbered
  <2> QED
    BY <1>2, <2>1 DEF Latest
<1>3. CASE published # 0
  <2>1. published \in Numbers /\ \A m \in Numbers : m <= published
    BY <1>1, <1>3 DEF Numbered, SiteType
  <2>2. \A n \in Numbers : (\A m \in Numbers : m <= n) => n = published
    BY <1>1, <2>1 DEF SiteType
  <2> QED
    BY <2>1, <2>2 DEF Latest
<1> QED BY <1>2, <1>3

\* Nothing is published at first.
LEMMA SiteInitInv == SiteConfigInit => SiteInv
  BY DEF SiteConfigInit, SiteInv, SiteType, Numbered, OneWriter, TurnFresh, History, Numbers, TurnType, NoTurn

\* A request that takes or gives up the lock.
LEMMA LockInv ==
    ASSUME SiteInv, NEW a \in Requests, NEW q \in TurnType, Lock(a, q), q.op # "idle", q.op # "numbered",
           q.expected # None => q.expected = published,
           q.copied # None => q.copied \in Numbers /\ q.document = Document(q.copied)
    PROVE  SiteInv'
<1> USE DEF SiteInv, Lock
<1>1. SiteType' /\ OneWriter'
  BY DEF SiteType, OneWriter, StateFree
<1>2. Numbers' = Numbers /\ \A n : Document(n)' = Document(n)
  BY DEF Numbers, Document
<1>3. Numbered' /\ History'
  BY <1>2 DEF Numbered, History
<1>4. TurnFresh'
  BY <1>2 DEF TurnFresh, SiteType
<1> QED BY <1>1, <1>3, <1>4

\* Publishing begins: the request compares what it expects with what is served.
LEMMA StartPublishInv ==
    ASSUME SiteInv, NEW a \in Requests, NEW e \in Numbers \cup {0, None}, StartPublish(a, e)
    PROVE  SiteInv'
<1> DEFINE q == [op |-> "publish", document |-> draft, expected |-> e, copied |-> None]
<1>1. q \in TurnType
  BY DEF TurnType, SiteInv, SiteType, Numbers, VersionRows
<1>2. q.op = "publish" /\ q.expected = e /\ q.copied = None
  OBVIOUS
<1>3. Lock(a, q) /\ (e # None => e = published)
  BY DEF StartPublish
<1> HIDE DEF q
<1> QED BY <1>1, <1>2, <1>3, LockInv

\* A rollback begins with a copy of a version that exists.
LEMMA StartRollbackInv ==
    ASSUME SiteInv, NEW a \in Requests, NEW n \in Numbers, StartRollback(a, n)
    PROVE  SiteInv'
<1> DEFINE q == [op |-> "rollback", document |-> Document(n), expected |-> None, copied |-> n]
<1>0. PICK v \in versions : v.version = n
  BY DEF Numbers
<1>1. q \in TurnType
  BY <1>0, DocumentOf DEF TurnType, SiteInv, SiteType, VersionRows
<1>2. q.op = "rollback" /\ q.expected = None /\ q.copied = n /\ q.document = Document(n)
  OBVIOUS
<1>3. Lock(a, q)
  BY DEF StartRollback
<1> HIDE DEF q
<1> QED BY <1>1, <1>2, <1>3, LockInv

\* The holder numbers its version.
LEMMA ReadLatestInv ==
    ASSUME SiteInv, NEW a \in Requests, ReadLatest(a)
    PROVE  SiteInv'
<1> USE DEF SiteInv
<1>0. turn[a] \in [op : {"publish", "rollback"}, document : Documents \cup {None}, expected : Nat \cup {None}, copied : Nat \cup {None}]
  BY DEF ReadLatest, SiteType, TurnType
<1> DEFINE q == [op |-> "numbered", document |-> turn[a].document, expected |-> turn[a].expected, copied |-> turn[a].copied,
            version |-> published + 1, publishes |-> turn[a].op = "publish"]
<1>1. turn' = [turn EXCEPT ![a] = q]
  BY <1>0, LatestIsPublished DEF ReadLatest
<1>2. q \in TurnType
  BY <1>0 DEF TurnType, SiteType
<1>3. Numbers' = Numbers /\ \A n : Document(n)' = Document(n)
  BY DEF Numbers, Document, ReadLatest
<1>4. SiteType' /\ Numbered' /\ History'
  BY <1>1, <1>2, <1>3 DEF Numbered, History, SiteType, ReadLatest
<1>5. OneWriter'
  BY <1>1 DEF OneWriter, ReadLatest, SiteType
<1>6. TurnFresh'
  BY <1>1, <1>3 DEF ReadLatest, TurnFresh, SiteType
<1> QED BY <1>4, <1>5, <1>6

\* The version is stored and served.
LEMMA PublishInv ==
    ASSUME SiteInv, NEW a \in Requests, Publish(a)
    PROVE  SiteInv'
<1> DEFINE q == turn[a]
<1> USE DEF SiteInv
<1>0. q \in [op : {"numbered"}, document : Documents \cup {None}, expected : Nat \cup {None}, copied : Nat \cup {None},
             version : Nat, publishes : BOOLEAN]
  BY DEF Publish, SiteType, TurnType
<1>1. q.version = published + 1 /\ q.version \notin Numbers
  BY <1>0 DEF Publish, TurnFresh, Numbered, SiteType
<1>2. /\ published' = published + 1 /\ draft' \in {None, draft}
      /\ turn' = [turn EXCEPT ![a] = NoTurn] /\ holder' = holder \ {a}
  BY <1>1 DEF Publish, EndTurn
<1>3. PICK v \in VersionRows :
          /\ versions' = versions \cup {v}
          /\ v.version = published + 1 /\ v.expected = q.expected /\ v.copied = q.copied /\ v.document = q.document
  <2> DEFINE new == Version(q.version, q.document, q.expected, q.copied)
  <2>1. new \in VersionRows /\ versions' = versions \cup {new}
    BY <1>0, <1>1 DEF Publish, Version, VersionRows
  <2>2. new.version = published + 1 /\ new.expected = q.expected /\ new.copied = q.copied /\ new.document = q.document
    BY <1>1 DEF Version
  <2> QED
    BY <2>1, <2>2
<1>4. SiteType'
  BY <1>2, <1>3 DEF SiteType, TurnType, NoTurn
<1>5. Numbers' = Numbers \cup {published + 1}
  BY <1>2, <1>3 DEF Numbers
<1>6. Numbered'
  <2>1. \A n \in Nat : (n \in Numbers)' <=> n \in 1 .. published'
    BY <1>2, <1>5 DEF Numbered, SiteType
  <2>2. \A w \in versions : w.version # v.version
    BY <1>1, <1>3 DEF Numbers
  <2>3. \A x, y \in versions' : x.version = y.version => x = y
    BY <1>3, <2>2 DEF Numbered
  <2> QED BY <2>1, <2>3 DEF Numbered
<1>7. \A n \in Numbers : Document(n)' = Document(n)
  <2> SUFFICES ASSUME NEW w \in versions PROVE Document(w.version)' = Document(w.version)
    BY DEF Numbers
  <2>1. Document(w.version) = w.document
    BY DocumentOf
  <2>3. \A x \in versions' : x.version = w.version => x = w
    BY <1>3, <1>6 DEF Numbered
  <2>2. Document(w.version)' = w.document
    BY <1>3, <2>3 DEF Document
  <2> QED BY <2>1, <2>2
<1>8. OneWriter' /\ \A b \in Requests : turn'[b].op = "idle"
  BY <1>0, <1>2 DEF OneWriter, SiteType, NoTurn
<1>9. TurnFresh'
  BY <1>8 DEF TurnFresh
<1>10. History'
  <2>1. \A w \in versions : w.version \in Nat /\ w.expected \in Nat \cup {None}
    BY DEF SiteType, VersionRows
  <2>2. q.expected # None => q.expected = published
    BY <1>0 DEF TurnFresh
  <2>3. q.copied # None => q.copied \in Numbers /\ q.document = Document(q.copied)
    BY <1>0 DEF TurnFresh
  <2>4. q.copied # None => q.copied < published + 1
    BY <2>3, <1>0 DEF Numbered, SiteType
  <2>5. /\ v.expected # None => v.expected = v.version - 1
        /\ v.copied # None => v.copied < v.version /\ v.copied \in Numbers' /\ v.document = Document(v.copied)'
    BY <1>3, <1>5, <1>7, <2>2, <2>3, <2>4 DEF SiteType
  <2>6. \A w \in versions : /\ w.expected # None => w.expected = w.version - 1
                            /\ w.copied # None => w.copied < w.version /\ w.copied \in Numbers' /\ w.document = Document(w.copied)'
    BY <1>5, <1>7 DEF History
  <2> QED BY <1>3, <2>5, <2>6 DEF History
<1> QED BY <1>4, <1>6, <1>8, <1>9, <1>10

\* Every step keeps the invariant.
LEMMA SiteStep == SiteInv /\ [SiteConfigNext]_siteConfigVars => SiteInv'
<1> SUFFICES ASSUME SiteInv, [SiteConfigNext]_siteConfigVars PROVE SiteInv'
  OBVIOUS
<1>1. ASSUME UNCHANGED <<published, versions, holder, turn>>, draft' \in Documents \cup {None}
      PROVE  SiteInv'
  <2>1. Numbers' = Numbers /\ \A n : Document(n)' = Document(n)
    BY <1>1 DEF Numbers, Document
  <2> QED
    BY <1>1, <2>1 DEF SiteInv, SiteType, Numbered, OneWriter, TurnFresh, History
<1>2. ASSUME NEW d \in Documents \cup {None}, SaveDraft(d) PROVE SiteInv'
  BY <1>1, <1>2 DEF SaveDraft
<1>3. CASE UNCHANGED siteConfigVars
  BY <1>1, <1>3 DEF siteConfigVars, SiteInv, SiteType
<1> QED
  BY <1>2, <1>3, StartPublishInv, StartRollbackInv, ReadLatestInv, PublishInv DEF SiteConfigNext, SiteConfigEndpoints

\* The invariant says what is wanted.
LEMMA SiteSafe == SiteInv => PublishingTakesTurns
  BY LatestIsPublished DEF SiteInv, PublishingTakesTurns, History

\* The storefront serves the last version, versions are numbered without a gap, whoever named the version it expects had
\* seen the one before, and a rollback copies an older one, whoever publishes at the same time (site_config/service.py).
THEOREM PublishingInTurn ==
    /\ SiteConfigSpec => []PublishingTakesTurns
    /\ Spec => []SiteConfig_PublishingTakesTurns
<1> DEFINE I == part = "site" => SiteInv
<1>1. SiteInv => PublishingTakesTurns
  BY SiteSafe
<1>2. Init => I
  BY SiteInitInv DEF Init
<1>3. I /\ [Next]_vars => I'
  BY PartStep, SiteStep
<1>4. I => SiteConfig_PublishingTakesTurns
  BY <1>1 DEF SiteConfig_PublishingTakesTurns
<1>5. SiteConfigSpec => []PublishingTakesTurns
  BY <1>1, SiteInitInv, SiteStep, PTL DEF SiteConfigSpec
<1>6. Spec => []SiteConfig_PublishingTakesTurns
  <2> HIDE DEF I
  <2> QED BY <1>2, <1>3, <1>4, PTL DEF Spec
<1> QED BY <1>5, <1>6

-----------------------------------------------------------------------------
\* A recorded review.
Remediations ==
    [decision : {"established", "unresolved_conflicting", "unresolved_inconclusive"},
     currency : CurrencyCodes \cup {None}, evidence : Evidence]

CurrencyType ==
    /\ currency \in [Orders -> CurrencyCodes \cup {None}]
    /\ paid \in [Orders -> SUBSET CurrencyCodes]
    /\ reviews \in [Orders -> Seq(Remediations)]
    /\ review \in [Reviewers -> [order : Orders \cup {None}]]

\* An order has one review at a time, and no currency while it lasts.
OneReview ==
    \A r \in Reviewers : review[r].order # None =>
        /\ currency[review[r].order] = None
        /\ \A s \in Reviewers : review[s].order = review[r].order => s = r

CurrencyInv == CurrencyType /\ OneReview /\ CurrencyIsEvidenced

\* No order has a currency or a review at first.
LEMMA CurrencyInitInv == CurrencyReviewInit => CurrencyInv
<1> SUFFICES ASSUME CurrencyReviewInit PROVE CurrencyInv
  OBVIOUS
<1>1. CurrencyType /\ OneReview
  BY DEF CurrencyReviewInit, CurrencyType, OneReview, NotReviewing
<1>2. CurrencyIsEvidenced
  BY DEF CurrencyReviewInit, CurrencyIsEvidenced
<1> QED BY <1>1, <1>2 DEF CurrencyInv

\* A review ends: it is the order's last, and establishes its currency or not.
LEMMA FinishReviewInv ==
    ASSUME CurrencyInv, NEW r \in Reviewers, NEW q \in Request, FinishReview(r, q)
    PROVE  CurrencyInv'
<1> DEFINE o == review[r].order
           decision == IF q.decision = "established" THEN Check(o, q) ELSE q.decision
<1>0. o \in Orders /\ currency[o] = None /\ o # None
  BY DEF FinishReview, CurrencyInv, CurrencyType, OneReview
<1>1. \A i \in 1 .. Len(reviews[o]) : reviews[o][i].decision # "established"
  BY <1>0 DEF CurrencyInv, CurrencyIsEvidenced
<1>2. PICK m \in Remediations :
        /\ reviews' = [reviews EXCEPT ![o] = Append(@, m)]
        /\ \/ /\ m.decision # "established" /\ currency' = currency
           \/ /\ m.decision = "established" /\ m.currency # None
              /\ currency' = [currency EXCEPT ![o] = m.currency]
              /\ paid[o] \subseteq {m.currency}
  <2>1. CASE decision = "established"
    <3>1. q.code \in CurrencyCodes /\ q.evidence \in Evidence
      BY <2>1 DEF Request
    <3> DEFINE m == Remediation("established", q.code, q.evidence)
    <3>2. m \in Remediations /\ m.decision = "established" /\ m.currency = q.code
      BY <3>1 DEF Remediations, Remediation
    <3>3. q.code # None
      BY <3>1, CurrencyCodesAssumption
    <3>4. reviews' = [reviews EXCEPT ![o] = Append(@, m)] /\ currency' = [currency EXCEPT ![o] = q.code]
      BY <1>0, <1>1, <2>1, <3>3 DEF FinishReview, OneEstablished
    <3>5. paid[o] \subseteq {q.code}
      BY <2>1 DEF Check, Request
    <3> QED BY <3>2, <3>3, <3>4, <3>5
  <2>2. CASE decision # "established"
    <3>1. decision \in {"unresolved_conflicting", "unresolved_inconclusive"} /\ q.evidence \in Evidence
      BY <2>2 DEF Request, Check
    <3> DEFINE m == Remediation(decision, None, q.evidence)
    <3>2. m \in Remediations /\ m.decision # "established"
      BY <3>1 DEF Remediations, Remediation
    <3>3. reviews' = [reviews EXCEPT ![o] = Append(@, m)] /\ currency' = currency
      BY <2>2 DEF FinishReview
    <3> QED BY <3>2, <3>3
  <2> QED BY <2>1, <2>2
<1>3. paid' = paid /\ review' = [review EXCEPT ![r] = NotReviewing]
  BY DEF FinishReview
<1>4. CurrencyType'
  <2>1. reviews' \in [Orders -> Seq(Remediations)]
    BY <1>0, <1>2 DEF CurrencyInv, CurrencyType
  <2>2. currency' \in [Orders -> CurrencyCodes \cup {None}]
    BY <1>0, <1>2 DEF CurrencyInv, CurrencyType, Remediations
  <2> QED
    BY <1>3, <2>1, <2>2 DEF CurrencyInv, CurrencyType, NotReviewing
<1>5. OneReview'
  BY <1>0, <1>2, <1>3 DEF CurrencyInv, CurrencyType, OneReview, NotReviewing
<1>6. CurrencyIsEvidenced'
  <2> SUFFICES ASSUME NEW x \in Orders
               PROVE  LET established == {i \in 1 .. Len(reviews'[x]) : reviews'[x][i].decision = "established"}
                      IN  IF currency'[x] = None THEN established = {}
                          ELSE /\ established = {Len(reviews'[x])}
                               /\ reviews'[x][Len(reviews'[x])].currency = currency'[x]
                               /\ paid'[x] \subseteq {currency'[x]}
    BY DEF CurrencyIsEvidenced
  <2>1. CASE x # o
    BY <1>2, <1>3, <2>1 DEF CurrencyInv, CurrencyType, CurrencyIsEvidenced
  <2>2. CASE x = o
    <3>1. reviews'[x] = Append(reviews[x], m) /\ reviews[x] \in Seq(Remediations)
      BY <1>0, <1>2, <2>2 DEF CurrencyInv, CurrencyType
    <3>2. /\ Len(reviews'[x]) = Len(reviews[x]) + 1 /\ Len(reviews[x]) \in Nat
          /\ reviews'[x][Len(reviews'[x])] = m
          /\ \A i \in 1 .. Len(reviews[x]) : reviews'[x][i] = reviews[x][i]
      BY <3>1
    <3>3. \A i \in 1 .. Len(reviews[x]) : reviews'[x][i].decision # "established"
      BY <1>1, <2>2, <3>2
    <3>4. CASE m.decision # "established"
      BY <1>0, <1>2, <2>2, <3>2, <3>3, <3>4
    <3>5. CASE m.decision = "established"
      <4>1. currency'[x] = m.currency /\ m.currency # None
        BY <1>0, <1>2, <2>2, <3>5 DEF CurrencyInv, CurrencyType
      <4> QED BY <1>2, <1>3, <2>2, <3>2, <3>3, <3>5, <4>1
    <3> QED BY <3>4, <3>5
  <2> QED BY <2>1, <2>2
<1> QED BY <1>4, <1>5, <1>6 DEF CurrencyInv

\* Every step keeps the invariant.
LEMMA CurrencyStep == CurrencyInv /\ [CurrencyReviewNext]_currencyReviewVars => CurrencyInv'
<1> SUFFICES ASSUME CurrencyInv, [CurrencyReviewNext]_currencyReviewVars PROVE CurrencyInv'
  OBVIOUS
<1> USE DEF CurrencyInv
<1>1. ASSUME NEW r \in Reviewers, NEW o \in Orders, StartReview(r, o) PROVE CurrencyInv'
  BY <1>1 DEF StartReview, CurrencyType, OneReview, CurrencyIsEvidenced, OrderFree, NotReviewing
<1>2. ASSUME NEW o \in Orders, StartPayment(o) PROVE CurrencyInv'
  <2>1. currency[o] \in CurrencyCodes /\ currency[o] # None
    BY <1>2 DEF StartPayment, UnknownCurrency, CurrencyType
  <2> QED BY <1>2, <2>1 DEF StartPayment, CurrencyType, OneReview, CurrencyIsEvidenced
<1>3. ASSUME NEW code \in CurrencyCodes, SetStoreCurrency(code) PROVE CurrencyInv'
  BY <1>3 DEF SetStoreCurrency, CurrencyType, OneReview, CurrencyIsEvidenced
<1>4. CASE UNCHANGED currencyReviewVars
  BY <1>4 DEF currencyReviewVars, CurrencyType, OneReview, CurrencyIsEvidenced
<1> QED
  BY <1>1, <1>2, <1>3, <1>4, FinishReviewInv DEF CurrencyReviewNext

\* An order has a currency exactly when the last of its reviews established it, and no payment of it is in another,
\* whatever reviewers work at the same time (currency_review_service.py).
THEOREM CurrencyEvidence ==
    /\ CurrencyReviewSpec => []CurrencyIsEvidenced
    /\ Spec => []CurrencyReview_CurrencyIsEvidenced
<1> DEFINE I == part = "currency review" => CurrencyInv
<1>1. CurrencyInv => CurrencyIsEvidenced
  BY DEF CurrencyInv
<1>2. Init => I
  BY CurrencyInitInv DEF Init
<1>3. I /\ [Next]_vars => I'
  BY PartStep, CurrencyStep
<1>4. I => CurrencyReview_CurrencyIsEvidenced
  BY <1>1 DEF CurrencyReview_CurrencyIsEvidenced
<1>5. CurrencyReviewSpec => []CurrencyIsEvidenced
  BY <1>1, CurrencyInitInv, CurrencyStep, PTL DEF CurrencyReviewSpec
<1>6. Spec => []CurrencyReview_CurrencyIsEvidenced
  <2> HIDE DEF I
  <2> QED BY <1>2, <1>3, <1>4, PTL DEF Spec
<1> QED BY <1>5, <1>6

-----------------------------------------------------------------------------
\* A record that is being closed is locked by one request, and open.
ClosingOpen ==
    \A a \in Requests : closing[a].key # None =>
        /\ closing[a].key \in Problems /\ IsOpen(closing[a].key)
        /\ \A b \in Requests : closing[b].key = closing[a].key => b = a

WorklistInv ==
    /\ problem \in [Problems -> [status : {"open", "resolved"}, resolution : {None, "handled_externally", "no_action_needed", "refund_requested"}, by : Requests \cup {None}] \cup {None}]
    /\ DOMAIN closing = Requests /\ closing = [a \in Requests |-> closing[a]]
    /\ ClosingOpen

\* No record at first.
LEMMA WorklistInitInv == WorklistInit => WorklistInv
  BY DEF WorklistInit, WorklistInv, ClosingOpen, NotClosing

\* Every step keeps the lock, and no step touches a resolution.
LEMMA WorklistStep ==
    ASSUME WorklistInv, [WorklistNext]_worklistVars
    PROVE  WorklistInv' /\ [ResolutionStands]_worklistVars
<1> USE DEF WorklistInv
<1>1. ASSUME NEW k \in Problems, Reconcile(k) PROVE WorklistInv' /\ ResolutionStands
  BY <1>1 DEF Reconcile, Recorded, Open, ClosingOpen, IsOpen, ResolutionStands
<1>2. ASSUME NEW k \in Recoverable, ResolveByDedupeKey(k) PROVE WorklistInv' /\ ResolutionStands
  BY <1>2 DEF ResolveByDedupeKey, Resolved, RecordFree, ClosingOpen, IsOpen, ResolutionStands
<1>3. ASSUME NEW a \in Requests, NEW k \in Problems, StartResolve(a, k) \/ StartRefund(a, k) PROVE WorklistInv' /\ ResolutionStands
  BY <1>3 DEF StartResolve, StartRefund, StartClosing, RecordFree, ClosingOpen, IsOpen, ResolutionStands
<1>4. ASSUME NEW a \in Requests, NEW resolution \in {"handled_externally", "no_action_needed"}, FinishResolve(a, resolution)
      PROVE  WorklistInv' /\ ResolutionStands
  BY <1>4 DEF FinishResolve, Resolved, ClosingOpen, IsOpen, ResolutionStands, NotClosing
<1>5. ASSUME NEW a \in Requests, FinishRefund(a) PROVE WorklistInv' /\ ResolutionStands
  BY <1>5 DEF FinishRefund, Resolved, ClosingOpen, IsOpen, ResolutionStands, NotClosing
<1>6. ASSUME NEW p \in Payments, NEW outcome \in {"none", "done"}, RefundEnds(p, outcome) PROVE WorklistInv' /\ ResolutionStands
  BY <1>6 DEF RefundEnds, ClosingOpen, IsOpen, ResolutionStands
<1>7. CASE UNCHANGED worklistVars
  BY <1>7 DEF worklistVars, ClosingOpen, IsOpen
<1> QED
  BY <1>1, <1>2, <1>3, <1>4, <1>5, <1>6, <1>7 DEF WorklistNext

\* A closed problem keeps its resolution: no step of an administrator, a webhook or a refund changes it afterwards
\* (reconciliation_service.py closes under the row's lock and only what is open).
THEOREM ResolutionsStand ==
    /\ WorklistSpec => [][ResolutionStands]_worklistVars
    /\ Spec => Worklist_ResolutionStands
<1> DEFINE I == part = "worklist" => WorklistInv
<1>2. Init => I
  BY WorklistInitInv DEF Init
<1>3. I /\ [Next]_vars => I' /\ [part = "worklist" => ResolutionStands]_worklistVars
  BY PartStep, WorklistStep
<1>4. WorklistInv /\ [WorklistNext]_worklistVars => WorklistInv' /\ [ResolutionStands]_worklistVars
  BY WorklistStep
<1>5. WorklistSpec => [][ResolutionStands]_worklistVars
  BY <1>4, WorklistInitInv, PTL DEF WorklistSpec
<1>6. Spec => Worklist_ResolutionStands
  <2> HIDE DEF I
  <2> QED BY <1>2, <1>3, PTL DEF Spec, Worklist_ResolutionStands
<1> QED BY <1>5, <1>6

-----------------------------------------------------------------------------
\* A set of naturals has the least element that Min names.
LEMMA SmallestOf ==
    ASSUME NEW S \in SUBSET Nat, S # {}
    PROVE  Min(S) \in S /\ \A x \in S : Min(S) <= x
<1> DEFINE R == {ss \in Nat \X Nat : ss[1] < ss[2]}
<1>1. OpToRel(<, Nat) = R
  BY DEF OpToRel
<1>2. IsWellFoundedOn(R, Nat)
  BY <1>1, NatLessThanWellFounded
<1> HIDE DEF R
<1>3. PICK x \in S : \A y \in S : ~(<<y, x>> \in R)
  BY <1>2, WFMin
<1>4. ASSUME NEW y \in S PROVE x <= y
  <2>1. x \in Nat /\ y \in Nat /\ <<y, x>> \notin R
    BY <1>3
  <2>2. ~(y < x)
    BY <2>1 DEF R
  <2> QED BY <2>1, <2>2
<1> QED BY <1>4 DEF Min

\* Two ticks in a row fall into one bucket or into neighbours, late ones too.
LEMMA TickInTime ==
    ASSUME NEW s \in Enabled
    PROVE  Tick \in Nat /\ 2 <= Tick /\ Tick + MaxDelay <= 2 * Interval[s]
<1> DEFINE S == {Interval[t] : t \in Enabled}
<1>1. S \subseteq Nat /\ Interval[s] \in S /\ Interval[s] \in Nat
  BY ScheduleAssumption DEF Enabled
<1>2. Shortest \in Nat /\ Shortest <= Interval[s]
  BY <1>1, SmallestOf DEF Shortest
<1>3. Tick \in {2, Shortest} /\ Tick >= 2
  BY <1>2 DEF Tick, Max
<1> QED BY <1>1, <1>2, <1>3, ScheduleAssumption, DelayAssumption DEF Enabled

\* Later times have later buckets.
LEMMA BucketGrows ==
    ASSUME NEW s \in Enabled, NEW t \in Nat, NEW u \in Nat, t <= u
    PROVE  Bucket(s, t) \in Nat /\ Bucket(s, u) \in Nat /\ Bucket(s, t) <= Bucket(s, u)
<1>1. 2 * Interval[s] \in Nat \ {0}
  BY ScheduleAssumption DEF Enabled
<1> DEFINE d == 2 * Interval[s]
<1> HIDE DEF d
<1>2. t \div d <= u \div d /\ t \div d \in Nat /\ u \div d \in Nat
  BY <1>1 DEF d
<1> QED BY <1>2 DEF Bucket, d

\* Within one interval at most one bucket begins.
LEMMA NextBucket ==
    ASSUME NEW s \in Enabled, NEW t \in Nat, NEW u \in Nat, t <= u, u <= t + 2 * Interval[s]
    PROVE  Bucket(s, u) <= Bucket(s, t) + 1
<1> DEFINE d == 2 * Interval[s]
<1>1. d \in Nat \ {0} /\ u <= t + d
  BY ScheduleAssumption DEF Enabled
<1> HIDE DEF d
<1>2. u \div d <= t \div d + 1
  BY <1>1
<1> QED BY <1>2 DEF Bucket, d

\* A running process has ticked at t, late by MaxDelay at most, and the buckets up to then are queued; or it waits for
\* its first tick.
Ticked(p, t) ==
    /\ since[p] <= t /\ t <= now /\ wake[p] <= t + Tick + MaxDelay
    /\ \A s \in Enabled : \A b \in Bucket(s, since[p]) .. Bucket(s, t) : <<s, b>> \in queued

KeepsTicking(p) == wake[p] >= now /\ (since[p] = wake[p] \/ \E t \in Nat : Ticked(p, t))

SchedulerInv ==
    /\ now \in Nat /\ now <= MaxTime
    /\ wake \in [Processes -> Nat] /\ since \in [Processes -> Nat]
    /\ swept = [o \in StaleOrders |-> swept[o]]
    /\ \A p \in Processes : Running(p) => Enabled # {} /\ KeepsTicking(p)
    /\ StuckOrderIsRetried

\* Between two ticks no bucket passes unseen.
LEMMA SchedulerSafe == SchedulerInv => DueWorkIsQueued
<1> SUFFICES ASSUME SchedulerInv, NEW p \in Processes, NEW s \in Enabled, Running(p), NEW b \in Bucket(s, since[p]) .. Bucket(s, now)
             PROVE  b = Bucket(s, now) \/ <<s, b>> \in queued
  BY DEF DueWorkIsQueued, BucketNeverSkipped, SchedulerInv
<1>0. now \in Nat /\ since[p] \in Nat /\ wake[p] \in Nat /\ wake[p] >= now
  BY DEF SchedulerInv, KeepsTicking
<1>1. CASE since[p] = wake[p]
  <2>1. Bucket(s, now) <= Bucket(s, since[p]) /\ Bucket(s, now) \in Nat /\ Bucket(s, since[p]) \in Nat
    BY <1>0, <1>1, BucketGrows
  <2> QED BY <2>1
<1>2. ASSUME NEW t \in Nat, Ticked(p, t) PROVE b = Bucket(s, now) \/ <<s, b>> \in queued
  <2>1. Tick \in Nat /\ Tick + MaxDelay <= 2 * Interval[s] /\ Interval[s] \in Nat /\ MaxDelay \in Nat
    BY TickInTime, ScheduleAssumption DEF Enabled
  <2>2. t <= now /\ since[p] <= t /\ wake[p] <= t + Tick + MaxDelay
    BY <1>2 DEF Ticked
  <2>3. now <= t + 2 * Interval[s]
    BY <1>0, <2>1, <2>2
  <2>4. Bucket(s, now) <= Bucket(s, t) + 1
    BY <1>0, <2>2, <2>3, NextBucket
  <2>5. Bucket(s, t) \in Nat /\ Bucket(s, now) \in Nat /\ Bucket(s, since[p]) \in Nat
    BY <1>0, <2>2, BucketGrows
  <2>6. b # Bucket(s, now) => b \in Bucket(s, since[p]) .. Bucket(s, t)
    BY <2>4, <2>5
  <2> QED BY <1>2, <2>6 DEF Ticked
<1> QED BY <1>1, <1>2 DEF SchedulerInv, KeepsTicking

\* No process runs at first.
LEMMA SchedulerInitInv == SchedulerInit => SchedulerInv
  BY ScheduleAssumption DEF SchedulerInit, SchedulerInv, Running, Stopped, StuckOrderIsRetried

\* Only the row of the process that acts changes; the jobs queued only grow.
LEMMA OneProcess ==
    ASSUME SchedulerInv, now' = now, NEW p \in Processes, NEW w \in Nat, NEW b \in Nat,
           wake' = [wake EXCEPT ![p] = w], since' = [since EXCEPT ![p] = b], queued \subseteq queued',
           UNCHANGED <<expiry, swept>>, w # Stopped => Enabled # {} /\ KeepsTicking(p)'
    PROVE  SchedulerInv'
<1>1. ASSUME NEW q \in Processes, q # p, Running(q) PROVE KeepsTicking(q)'
  <2>1. wake'[q] = wake[q] /\ since'[q] = since[q] /\ KeepsTicking(q)
    BY <1>1 DEF SchedulerInv
  <2> QED BY <2>1 DEF KeepsTicking, Ticked
<1>2. \A q \in Processes : Running(q)' => Enabled # {} /\ KeepsTicking(q)'
  BY <1>1 DEF SchedulerInv, Running
<1> QED BY <1>2 DEF SchedulerInv, StuckOrderIsRetried

\* A tick queues the bucket it finds, and those before it were queued.
LEMMA TickAtInv == ASSUME SchedulerInv, NEW p \in Processes, NEW d \in 0 .. MaxDelay, TickAt(p, d) PROVE SchedulerInv'
<1>0. now \in Nat /\ MaxDelay \in Nat /\ d \in Nat /\ d <= MaxDelay /\ wake[p] = now /\ since[p] \in Nat /\ since' = since
      /\ now' = now /\ queued \subseteq queued' /\ UNCHANGED <<expiry, swept>>
  BY ScheduleAssumption DEF TickAt, SchedulerInv, EnqueueDue
<1>1. Running(p) /\ Enabled # {} /\ KeepsTicking(p)
  BY <1>0, ScheduleAssumption DEF SchedulerInv, Running, Stopped
<1>2. Tick \in Nat
  BY <1>1, TickInTime
<1>3. \A s \in Enabled : \A b \in Bucket(s, since[p]) .. Bucket(s, now) : <<s, b>> \in queued'
  <2> SUFFICES ASSUME NEW s \in Enabled, NEW b \in Bucket(s, since[p]) .. Bucket(s, now), b # Bucket(s, now)
               PROVE  <<s, b>> \in queued
    BY <1>0 DEF TickAt, EnqueueDue
  <2>1. BucketNeverSkipped
    BY SchedulerSafe DEF DueWorkIsQueued
  <2> QED BY <1>1, <2>1 DEF BucketNeverSkipped
<1>4. since[p] <= now
  BY <1>0, <1>1 DEF KeepsTicking, Ticked
<1>5. wake' = [wake EXCEPT ![p] = now + Tick + d] /\ wake'[p] = now + Tick + d /\ since'[p] = since[p]
  BY <1>0 DEF TickAt, SchedulerInv
<1>6. Ticked(p, now)'
  BY <1>0, <1>2, <1>3, <1>4, <1>5 DEF Ticked
<1>7. KeepsTicking(p)'
  <2>1. \E t \in Nat : Ticked(p, t)'
    BY <1>0, <1>6 DEF Ticked
  <2> QED BY <1>0, <1>2, <1>5, <2>1 DEF KeepsTicking, Ticked
<1>8. now + Tick + d \in Nat /\ since' = [since EXCEPT ![p] = since[p]]
  BY <1>0, <1>2 DEF SchedulerInv
<1> QED BY <1>0, <1>1, <1>5, <1>7, <1>8, OneProcess

\* Every step keeps the invariant.
LEMMA SchedulerStep == SchedulerInv /\ [SchedulerNext]_schedulerVars => SchedulerInv'
<1> SUFFICES ASSUME SchedulerInv, [SchedulerNext]_schedulerVars PROVE SchedulerInv'
  OBVIOUS
<1>0. now \in Nat /\ Stopped \in Nat /\ now # Stopped
  BY ScheduleAssumption DEF SchedulerInv, Stopped
<1>1. CASE Clock
  <2>1. ASSUME NEW p \in Processes, Running(p) PROVE Enabled # {} /\ KeepsTicking(p)'
    <3>1. KeepsTicking(p) /\ Enabled # {} /\ wake[p] \in Nat /\ wake[p] > now /\ now' = now + 1
      BY <1>1, <2>1 DEF SchedulerInv, Clock
    <3> QED BY <1>0, <1>1, <3>1 DEF Clock, KeepsTicking, Ticked
  <2>2. now' \in Nat /\ now' <= MaxTime
    BY <1>0, <1>1, ScheduleAssumption DEF Clock
  <2> QED BY <1>1, <2>1, <2>2 DEF Clock, SchedulerInv, Running, StuckOrderIsRetried
<1>2. ASSUME NEW p \in Processes, StartWorker(p) PROVE SchedulerInv'
  <2>1. KeepsTicking(p)'
    BY <1>0, <1>2 DEF StartWorker, KeepsTicking, SchedulerInv
  <2> QED BY <1>0, <1>2, <2>1, OneProcess DEF StartWorker
<1>3. ASSUME NEW p \in Processes, NEW d \in 0 .. MaxDelay, TickAt(p, d) PROVE SchedulerInv'
  BY <1>3, TickAtInv
<1>4. ASSUME NEW p \in Processes, TickFails(p) PROVE SchedulerInv'
  <2>1. Running(p) /\ Enabled # {}
    BY <1>0, <1>4 DEF TickFails, Running, SchedulerInv
  <2>2. Tick \in Nat
    BY <2>1, TickInTime
  <2>3. KeepsTicking(p)'
    BY <1>0, <1>4, <2>2 DEF TickFails, KeepsTicking, SchedulerInv
  <2>4. now + Tick \in Nat
    BY <1>0, <2>2
  <2>5. wake' = [wake EXCEPT ![p] = now + Tick] /\ since' = [since EXCEPT ![p] = now + Tick] /\ now' = now /\ queued \subseteq queued'
        /\ UNCHANGED <<expiry, swept>>
    BY <1>4 DEF TickFails
  <2> QED BY <2>1, <2>3, <2>4, <2>5, OneProcess
<1>5. ASSUME NEW p \in Processes, StopWorker(p) PROVE SchedulerInv'
  BY <1>0, <1>5, OneProcess DEF StopWorker
<1>6. CASE SweepStaleOrders
  <2>1. StuckOrderIsRetried'
    BY <1>6 DEF SweepStaleOrders, SchedulerInv, StuckOrderIsRetried, ExpireOrderKey
  <2>2. \A p \in Processes : Running(p)' => Enabled # {} /\ KeepsTicking(p)'
    BY <1>6 DEF SweepStaleOrders, SchedulerInv, Running, KeepsTicking, Ticked
  <2> QED BY <1>6, <2>1, <2>2 DEF SweepStaleOrders, SchedulerInv
<1>7. CASE UNCHANGED <<now, wake, since, queued, expiry, swept>>
  BY <1>7 DEF SchedulerInv, Running, KeepsTicking, Ticked, StuckOrderIsRetried
<1> QED
  BY <1>1, <1>2, <1>3, <1>4, <1>5, <1>6, <1>7 DEF SchedulerNext, schedulerVars, Settled

\* No bucket of a schedule is skipped while some worker keeps ticking, however late its ticks are within half an interval,
\* and a stuck order gets an expiry job in every hour in which a sweep finds it (core/jobs/schedule.py, job_types.py).
THEOREM WorkIsQueued ==
    /\ SchedulerSpec => []DueWorkIsQueued
    /\ Spec => []Scheduler_DueWorkIsQueued
<1> DEFINE I == part = "scheduler" => SchedulerInv
<1>1. SchedulerInv => DueWorkIsQueued
  BY SchedulerSafe
<1>2. Init => I
  BY SchedulerInitInv DEF Init
<1>3. I /\ [Next]_vars => I'
  BY PartStep, SchedulerStep
<1>4. I => Scheduler_DueWorkIsQueued
  BY <1>1 DEF Scheduler_DueWorkIsQueued
<1>5. SchedulerSpec => []DueWorkIsQueued
  BY <1>1, SchedulerInitInv, SchedulerStep, PTL DEF SchedulerSpec
<1>6. Spec => []Scheduler_DueWorkIsQueued
  <2> HIDE DEF I
  <2> QED BY <1>2, <1>3, <1>4, PTL DEF Spec
<1> QED BY <1>5, <1>6

-----------------------------------------------------------------------------
(* Tax records.                                                            *)

\* The table a record stands on.
ParentSet(r) == IF r \in Rules THEN Classifications ELSE IF r \in Settings THEN Registrations ELSE {None}

\* What a table can hold for a record.
TaxRows(r) ==
    [status : {"absent"}] \cup [status : {"asked", "retired"}, parent : ParentSet(r)]
    \cup [status : {"draft", "approved"}, creator : Admins, source : BOOLEAN, period : Periods, parent : ParentSet(r)]

TaxType ==
    /\ record = [r \in Records |-> record[r]]
    /\ \A r \in Records : record[r] \in TaxRows(r)
    /\ approving = [r \in Records |-> approving[r]]
    /\ assigned \in [TaxedProducts -> Classifications \cup {None}]
    /\ tax.state \in {"configured", "ready"} => tax.product \in TaxedProducts /\ tax.day \in Days

\* Whoever passed the overlap check holds a draft whose parent is approved.
ApprovingSound ==
    \A c \in Records : approving[c] # None =>
        c \in Children /\ Status(c) = "draft" /\ Status(record[c].parent) = "approved"

\* Approved periods of one classification, and of the store's settings, do not overlap.
NoOverlap ==
    /\ \A c, d \in Rules : /\ c # d /\ Status(c) = "approved" /\ Status(d) = "approved"
                           /\ record[c].parent = record[d].parent
                           => ~Overlap(record[c].period, record[d].period)
    /\ \A c, d \in Settings : /\ c # d /\ Status(c) = "approved" /\ Status(d) = "approved"
                              => ~Overlap(record[c].period, record[d].period)

TaxInv == TaxType /\ ApprovingSound /\ NoOverlap /\ ApprovedOnApproved /\ tax.state # "ambiguous"

\* A set whose elements are equal has one at most.
LEMMA AtMostOne ==
    ASSUME NEW S, \A x, y \in S : x = y
    PROVE  Cardinality(S) <= 1 /\ ~(Cardinality(S) > 1)
<1>1. CASE S = {}
  BY <1>1, FS_EmptySet
<1>2. CASE S # {}
  <2>1. PICK x \in S : TRUE
    BY <1>2
  <2>2. S = {x}
    BY <2>1
  <2>3. Cardinality(S) = 1
    BY <2>2, FS_Singleton, Zenon
  <2> QED BY <2>3
<1> QED BY <1>1, <1>2

\* A period is a pair of days in order.
LEMMA PeriodType == ASSUME NEW p \in Periods PROVE p[1] \in Nat /\ p[2] \in Nat /\ p[1] < p[2] /\ p = <<p[1], p[2]>>
  BY LastDayAssumption DEF Periods, Days

\* On one day one setting is in force and one rule covers a classification, at most.
LEMMA InForceOnce ==
    ASSUME TaxInv, NEW day \in Days
    PROVE  /\ \A x, y \in InForce(Settings, day) : x = y
           /\ \A k : \A x, y \in RulesCovering(k, day) : x = y
<1>1. \A r \in Children : Status(r) = "approved" => record[r].period \in Periods
  BY DEF TaxInv, TaxType, TaxRows, Status, Records
<1>2. ASSUME NEW c \in Children, NEW d \in Children, Status(c) = "approved", Status(d) = "approved",
             Covers(record[c].period, day), Covers(record[d].period, day)
      PROVE  Overlap(record[c].period, record[d].period)
  <2>1. record[c].period \in Periods /\ record[d].period \in Periods
    BY <1>1, <1>2
  <2> QED BY <1>2, <2>1, PeriodType, LastDayAssumption DEF Covers, Overlap, Days
<1>3. \A x, y \in InForce(Settings, day) : x = y
  BY <1>2 DEF InForce, TaxInv, NoOverlap, Children
<1>4. \A k : \A x, y \in RulesCovering(k, day) : x = y
  BY <1>2 DEF RulesCovering, InForce, TaxInv, NoOverlap, Children
<1> QED BY <1>3, <1>4

\* The invariant says what is wanted.
LEMMA TaxSafe == TaxInv => TaxIsDefinite
<1> SUFFICES ASSUME TaxInv PROVE TaxIsDefinite
  OBVIOUS
<1>1. ASSUME NEW day \in Days
      PROVE  /\ Cardinality(InForce(Settings, day)) <= 1
             /\ \A k \in Classifications : Cardinality(RulesCovering(k, day)) <= 1
  BY InForceOnce, AtMostOne
<1> QED BY <1>1 DEF TaxIsDefinite, OneRuleApplies, TaxInv

\* The tables are empty at first.
LEMMA TaxInitInv == TaxMasterInit => TaxInv
  BY DEF TaxMasterInit, TaxInv, TaxType, ApprovingSound, NoOverlap, ApprovedOnApproved, NoRecord, NoTax, TaxRows, Status, Records, Children

\* One record is written that is not approved, or leaves approval with nothing on it.
LEMMA PutInv ==
    ASSUME TaxInv, NEW r \in Records, NEW v \in TaxRows(r), Put(r, v), approving[r] = None,
           v.status = "approved" =>
               \/ r \in Parents
               \/ /\ r \in Rules /\ Status(r) = "approved" /\ v.parent = record[r].parent
                  /\ v.period[1] = record[r].period[1] /\ v.period[2] <= record[r].period[2],
           Status(r) = "approved" /\ v.status # "approved" =>
               /\ \A c \in Children : NotRetired(c) => record[c].parent # r
               /\ ~InUse(r)
    PROVE  TaxInv'
<1> USE DEF TaxInv
<1>0. /\ record' = [record EXCEPT ![r] = v] /\ UNCHANGED <<approving, assigned, tax>>
      /\ \A x \in Records : Status(x)' = IF x = r THEN v.status ELSE Status(x)
      /\ \A x \in Records : record'[x] = IF x = r THEN v ELSE record[x]
  BY DEF Put, Status, TaxType
<1>1. TaxType'
  BY <1>0 DEF TaxType
<1>p. \A c \in Children : Status(c) \in {"draft", "approved"} => record[c].parent \in Parents /\ record[c].period \in Periods
  BY TablesAssumption DEF TaxType, TaxRows, Status, Records, Children, Parents, ParentSet
<1>2. ApprovingSound'
  BY <1>0, <1>p DEF ApprovingSound, NotRetired, Records
<1>3. ApprovedOnApproved'
  <2>1. ASSUME NEW c \in Children, Status(c)' = "approved" PROVE record'[record'[c].parent].status = "approved"
    <3>1. Status(c) = "approved" /\ record'[c].parent = record[c].parent
      BY <1>0, <2>1, TablesAssumption DEF Parents, Children, Records
    <3>2. Status(record[c].parent) = "approved" /\ record[c].parent \in Records
      BY <1>p, <3>1 DEF ApprovedOnApproved, Records
    <3> QED BY <1>0, <3>1, <3>2 DEF NotRetired, Status
  <2>2. ASSUME NEW p \in TaxedProducts, assigned'[p] # None PROVE record'[assigned'[p]].status = "approved"
    <3>1. Status(assigned[p]) = "approved" /\ assigned'[p] = assigned[p] /\ assigned[p] \in Records
      BY <1>0, <2>2 DEF ApprovedOnApproved, TaxType, Records, Parents
    <3> QED BY <1>0, <3>1 DEF InUse, Status
  <2> QED BY <2>1, <2>2 DEF ApprovedOnApproved, Status
<1>4. NoOverlap'
  <2>1. ASSUME NEW c \in Children, Status(c)' = "approved"
        PROVE  /\ Status(c) = "approved" /\ record'[c].parent = record[c].parent
               /\ record[c].period \in Periods /\ record'[c].period \in Periods
               /\ record'[c].period[1] = record[c].period[1] /\ record'[c].period[2] <= record[c].period[2]
    <3>1. Status(c) = "approved" /\ record'[c].parent = record[c].parent
      BY <1>0, <2>1, TablesAssumption DEF Parents, Children, Records
    <3>2. record[c].period \in Periods
      BY <1>p, <3>1
    <3>3. record'[c].period \in Periods
      BY <1>1, <2>1 DEF TaxType, TaxRows, Status, Records
    <3>4. record'[c].period[1] = record[c].period[1] /\ record'[c].period[2] <= record[c].period[2]
      BY <1>0, <2>1, <3>2, PeriodType, TablesAssumption DEF Parents, Children, Records
    <3> QED BY <3>1, <3>2, <3>3, <3>4
  <2>2. ASSUME NEW c \in Children, Status(c)' = "approved", NEW d \in Children, Status(d)' = "approved",
               ~Overlap(record[c].period, record[d].period)
        PROVE  ~Overlap(record'[c].period, record'[d].period)
    BY <2>1, <2>2, PeriodType DEF Overlap
  <2> QED BY <2>1, <2>2 DEF NoOverlap, Children
<1> QED BY <1>0, <1>1, <1>2, <1>3, <1>4

\* A classification or a registration is asked for, drafted, approved or edited.
LEMMA ParentActions ==
    ASSUME TaxInv, NEW r \in Parents, NEW by \in Admins, NEW source \in BOOLEAN, NEW period \in Periods,
           \/ CreateParent(r, by, source, period)
           \/ UpdateClassification(r, source) \/ UpdateRegistration(r, period)
           \/ ApproveParent(r, by)
    PROVE  TaxInv'
<1> USE DEF TaxInv
<1>0. r \in Records /\ r \notin Children /\ record[r] \in TaxRows(r) /\ ParentSet(r) = {None}
  BY TablesAssumption DEF Records, Parents, Children, TaxType, ParentSet
<1>1. approving[r] = None
  BY <1>0 DEF ApprovingSound
<1>2. PICK v \in TaxRows(r) : Put(r, v) /\ Status(r) # "approved"
  <2>1. CASE CreateParent(r, by, source, period)
    <3>1. Draft(by, source, period, None) \in TaxRows(r)
      BY <1>0 DEF Draft, TaxRows
    <3> QED BY <2>1, <3>1 DEF CreateParent, Fresh
  <2>2. CASE UpdateClassification(r, source)
    <3>1. [record[r] EXCEPT !.source = source] \in TaxRows(r)
      BY <1>0, <2>2 DEF UpdateClassification, Editable, Status, TaxRows
    <3> QED BY <2>2, <3>1 DEF UpdateClassification, Editable
  <2>3. CASE UpdateRegistration(r, period)
    <3>1. [record[r] EXCEPT !.period = period] \in TaxRows(r)
      BY <1>0, <2>3 DEF UpdateRegistration, Editable, Status, TaxRows
    <3> QED BY <2>3, <3>1 DEF UpdateRegistration, Editable
  <2>4. CASE ApproveParent(r, by)
    <3>1. [record[r] EXCEPT !.status = "approved"] \in TaxRows(r)
      BY <1>0, <2>4 DEF ApproveParent, MayApprove, Status, TaxRows
    <3> QED BY <2>4, <3>1 DEF ApproveParent, MayApprove
  <2> QED BY <2>1, <2>2, <2>3, <2>4
<1> QED BY <1>0, <1>1, <1>2, PutInv

\* A parent is retired only when nothing approved stands on it.
LEMMA RetireParentInv ==
    ASSUME TaxInv, NEW r, \/ r \in Classifications /\ RetireClassification(r)
                          \/ r \in Registrations /\ RetireRegistration(r)
    PROVE  TaxInv'
<1> USE DEF TaxInv
<1>0. r \in Records /\ r \notin Children /\ Retired(None) \in TaxRows(r) /\ Retired(None).status = "retired"
  BY TablesAssumption DEF Records, Parents, Children, ParentSet, Retired, TaxRows
<1>1. approving[r] = None /\ Put(r, Retired(None))
  BY <1>0 DEF ApprovingSound, RetireClassification, RetireRegistration
<1>2. \A c \in Children : NotRetired(c) => record[c].parent # r
  <2>1. \A c \in Children : NotRetired(c) => record[c].parent \in ParentSet(c)
    BY DEF NotRetired, Status, TaxType, TaxRows, Records
  <2>2. \A c \in Children : IF c \in Rules THEN ParentSet(c) = Classifications ELSE c \in Settings /\ ParentSet(c) = Registrations
    BY DEF ParentSet, Children
  <2> QED BY <2>1, <2>2, TablesAssumption DEF RetireClassification, RetireRegistration, HasOpenRules, HasOpenSettings
<1>3. ~InUse(r)
  BY TablesAssumption DEF RetireClassification, InUse, TaxType, Records, Parents
<1> QED BY <1>0, <1>1, <1>2, <1>3, PutInv

\* A rule or a setting is asked for.
LEMMA CreateChildInv ==
    ASSUME TaxInv, NEW c \in Children, NEW parent, parent \in ParentSet(c), AskCreate(c, parent)
    PROVE  TaxInv'
<1> DEFINE v == [status |-> "asked", parent |-> parent]
<1>1. c \in Records /\ v \in TaxRows(c) /\ v.status = "asked"
  BY DEF Records, TaxRows
<1>2. Put(c, v) /\ Status(c) = "absent"
  BY DEF AskCreate, Fresh
<1>3. approving[c] = None
  BY <1>1, <1>2 DEF TaxInv, ApprovingSound
<1> HIDE DEF v
<1> QED BY <1>1, <1>2, <1>3, PutInv

\* It is drafted with a period.
LEMMA DraftChildInv ==
    ASSUME TaxInv, NEW c \in Children, NEW by \in Admins, NEW source \in BOOLEAN, NEW period \in Periods,
           NEW parent, parent \in ParentSet(c),
           \/ CreateRule(c, by, source, period) \/ CreateSettings(c, by, source, period)
           \/ UpdateRule(c, source, period) \/ UpdateSettings(c, source, period, parent)
    PROVE  TaxInv'
<1>0. c \in Records /\ record[c] \in TaxRows(c)
  BY DEF TaxInv, TaxType, Records
<1>1. Status(c) \in {"asked", "draft"} /\ approving[c] = None
  BY <1>0 DEF CreateRule, CreateSettings, UpdateRule, UpdateSettings, Editable, Unlocked, TaxInv, ApprovingSound
<1>2. \E v \in TaxRows(c) : Put(c, v) /\ v.status = "draft"
  <2>1. CASE CreateRule(c, by, source, period) \/ CreateSettings(c, by, source, period)
    <3> DEFINE v == Draft(by, source, period, record[c].parent)
    <3>1. record[c].parent \in ParentSet(c)
      BY <1>0, <2>1 DEF CreateRule, CreateSettings, Status, TaxRows
    <3>2. v \in TaxRows(c) /\ v.status = "draft"
      BY <3>1 DEF Draft, TaxRows
    <3>3. Put(c, v)
      BY <2>1 DEF CreateRule, CreateSettings
    <3> QED BY <3>2, <3>3
  <2>2. CASE UpdateRule(c, source, period)
    <3> DEFINE v == [record[c] EXCEPT !.source = source, !.period = period]
    <3>2. v \in TaxRows(c) /\ v.status = "draft"
      BY <1>0, <2>2 DEF UpdateRule, Editable, Status, TaxRows
    <3>3. Put(c, v)
      BY <2>2 DEF UpdateRule
    <3> QED BY <3>2, <3>3
  <2>3. CASE UpdateSettings(c, source, period, parent)
    <3> DEFINE v == [record[c] EXCEPT !.source = source, !.period = period, !.parent = parent]
    <3>2. v \in TaxRows(c) /\ v.status = "draft"
      BY <1>0, <2>3 DEF UpdateSettings, Editable, Status, TaxRows
    <3>3. Put(c, v)
      BY <2>3 DEF UpdateSettings
    <3> QED BY <3>2, <3>3
  <2> QED BY <2>1, <2>2, <2>3
<1> QED BY <1>0, <1>1, <1>2, PutInv

\* A rule in force is given an end: its period shrinks.
LEMMA CloseRuleInv ==
    ASSUME TaxInv, NEW r \in Rules, NEW to \in Days, CloseRule(r, to)
    PROVE  TaxInv'
<1> DEFINE v == [record[r] EXCEPT !.period[2] = to]
           p == record[r].period
<1>0. r \in Records /\ r \in Children /\ record[r] \in [status : {"approved"}, creator : Admins, source : BOOLEAN, period : Periods, parent : ParentSet(r)]
  BY DEF TaxInv, TaxType, TaxRows, Records, Children, CloseRule, Status
<1>1. p \in Periods /\ p[1] < to /\ to < p[2] /\ p[1] \in Days /\ p[1] \in Nat /\ p[2] \in Nat
  BY <1>0, PeriodType, LastDayAssumption DEF CloseRule, Periods, Days
<1>2. v = [record[r] EXCEPT !.period = <<p[1], to>>]
  <2>1. [p EXCEPT ![2] = to] = <<p[1], to>>
    BY <1>1, PeriodType DEF Periods, Days
  <2> QED BY <1>0, <2>1
<1>3. <<p[1], to>> \in Periods
  BY <1>1, LastDayAssumption DEF Periods, Days
<1>4. /\ v \in TaxRows(r) /\ v.status = "approved" /\ v.parent = record[r].parent /\ v.period = <<p[1], to>>
  BY <1>0, <1>2, <1>3 DEF TaxRows
<1>5. Put(r, v) /\ Status(r) = "approved" /\ approving[r] = None
  BY <1>0 DEF CloseRule, TaxInv, ApprovingSound
<1>6. v.period[1] = record[r].period[1] /\ v.period[2] <= record[r].period[2]
  BY <1>1, <1>4, LastDayAssumption DEF Days
<1> HIDE DEF v
<1> QED BY <1>0, <1>4, <1>5, <1>6, PutInv

\* A rule or a setting is retired.
LEMMA RetireChildInv ==
    ASSUME TaxInv, NEW c \in Children, RetireChild(c)
    PROVE  TaxInv'
<1> DEFINE v == Retired(record[c].parent)
<1>0. c \in Records /\ record[c] \in TaxRows(c) /\ c \notin Parents
  BY TablesAssumption DEF TaxInv, TaxType, Records, Parents, Children
<1>1. v \in TaxRows(c) /\ v.status = "retired"
  BY <1>0 DEF RetireChild, NotRetired, Status, TaxRows, Retired
<1>2. Put(c, v) /\ approving[c] = None
  BY DEF RetireChild, Unlocked
<1>3. ~InUse(c)
  BY <1>0, TablesAssumption DEF InUse, TaxInv, TaxType, Parents
<1>4. \A d \in Children : NotRetired(d) => record[d].parent # c
  BY <1>0, TablesAssumption DEF TaxInv, TaxType, TaxRows, NotRetired, Status, Records, Children, Parents, ParentSet
<1> HIDE DEF v
<1> QED BY <1>0, <1>1, <1>2, <1>3, <1>4, PutInv

\* The overlap check that precedes an approval.
LEMMA CheckApprovalInv ==
    ASSUME TaxInv, NEW c \in Children, NEW by \in Admins, CheckApproval(c, by)
    PROVE  TaxInv'
  BY DEF TaxInv, CheckApproval, TaxType, ApprovingSound, NoOverlap, ApprovedOnApproved, Status, MayApprove, Records

\* An approval under the lock: the check is repeated and nothing overlaps.
LEMMA ApproveInv ==
    ASSUME TaxInv, NEW c \in Children, Approve(c)
    PROVE  TaxInv'
<1> USE DEF TaxInv
<1>0. /\ c \in Records /\ Status(c) = "draft" /\ Status(record[c].parent) = "approved"
      /\ record[c] \in [status : {"draft"}, creator : Admins, source : BOOLEAN, period : Periods, parent : ParentSet(c)]
  BY DEF Approve, ApprovingSound, Records, TaxType, TaxRows, Status
<1>1. CASE ~Exclusion(c)
  <2>1. record' = record /\ approving' = [approving EXCEPT ![c] = None] /\ UNCHANGED <<assigned, tax>>
    BY <1>1 DEF Approve
  <2> QED BY <2>1 DEF TaxType, ApprovingSound, NoOverlap, ApprovedOnApproved, Status
<1>2. CASE Exclusion(c)
  <2> DEFINE v == [record[c] EXCEPT !.status = "approved"]
  <2>1. record' = [record EXCEPT ![c] = v] /\ approving' = [approving EXCEPT ![c] = None] /\ UNCHANGED <<assigned, tax>>
    BY <1>2 DEF Approve
  <2>2. v \in TaxRows(c) /\ v.status = "approved" /\ v.parent = record[c].parent /\ v.period = record[c].period
    BY <1>0 DEF TaxRows
  <2> HIDE DEF v
  <2>3. \A x \in Records : /\ record'[x] = IF x = c THEN v ELSE record[x]
                           /\ approving'[x] = IF x = c THEN None ELSE approving[x]
    BY <1>0, <2>1 DEF TaxType
  <2>4. TaxType'
    BY <2>1, <2>2, <2>3 DEF TaxType
  <2>5. \A d \in Children : Status(d) \in {"draft", "approved"} => record[d].parent \in Parents
    BY TablesAssumption DEF TaxType, TaxRows, Status, Records, Children, Parents, ParentSet
  <2>6. c \notin Parents
    BY TablesAssumption DEF Parents, Children, Records
  <2>7. ApprovingSound'
    BY <2>3, <2>5, <2>6 DEF ApprovingSound, Status, Records
  <2>8. ApprovedOnApproved'
    BY <1>0, <2>1, <2>2, <2>3, <2>5, <2>6 DEF ApprovedOnApproved, Status, Records, TaxType, Parents
  <2>9. NoOverlap'
    <3>1. \A d \in Children : record'[d].parent = record[d].parent /\ record'[d].period = record[d].period
      BY <2>2, <2>3 DEF Records
    <3>2. \A d \in Children : d # c => record'[d].status = record[d].status
      BY <2>3 DEF Records
    <3>3. \A d \in Rivals(c) : ~Overlap(record[c].period, record[d].period)
      BY <1>2 DEF Exclusion, Overlapping
    <3>4. \A d \in Rivals(c) : ~Overlap(record[d].period, record[c].period)
      BY <3>3 DEF Overlap
    <3> QED BY <3>1, <3>2, <3>3, <3>4, TablesAssumption DEF NoOverlap, Rivals, Children, Status
  <2> QED BY <2>1, <2>4, <2>7, <2>8, <2>9
<1> QED BY <1>1, <1>2

\* A product is classified.
LEMMA AssignInv ==
    ASSUME TaxInv, NEW p \in TaxedProducts, NEW k \in Classifications \cup {None}, Assign(p, k)
    PROVE  TaxInv'
  BY DEF TaxInv, Assign, Assignable, TaxType, ApprovingSound, NoOverlap, ApprovedOnApproved, Status

\* The engine resolves a day to one rule or to none.
LEMMA EngineInv ==
    ASSUME TaxInv, Engine
    PROVE  TaxInv'
<1> USE DEF TaxInv
<1>1. UNCHANGED <<record, approving, assigned>>
  BY DEF Engine, EvaluateConfig, EvaluateReadiness, ApplyRules
<1>2. \A day \in Days : /\ ~(Cardinality(InForce(Settings, day)) > 1)
                        /\ \A k : ~(Cardinality(RulesCovering(k, day)) > 1)
  BY InForceOnce, AtMostOne
<1>3. tax'.state # "ambiguous" /\ (tax'.state \in {"configured", "ready"} => tax'.product \in TaxedProducts /\ tax'.day \in Days)
  <2>1. ASSUME NEW p \in TaxedProducts, NEW day \in Days, EvaluateConfig(p, day)
        PROVE  tax'.state # "ambiguous" /\ tax'.product = p /\ tax'.day = day
    BY <1>2, <2>1 DEF EvaluateConfig
  <2>2. CASE EvaluateReadiness
    BY <1>2, <2>2 DEF EvaluateReadiness, TaxType
  <2>3. CASE ApplyRules
    BY <2>3 DEF ApplyRules, TaxType
  <2> QED BY <2>1, <2>2, <2>3 DEF Engine
<1> QED BY <1>1, <1>3 DEF TaxType, ApprovingSound, NoOverlap, ApprovedOnApproved, Status

\* Every step keeps the invariant.
LEMMA TaxStep == TaxInv /\ [TaxMasterNext]_taxMasterVars => TaxInv'
<1> SUFFICES ASSUME TaxInv, [TaxMasterNext]_taxMasterVars PROVE TaxInv'
  OBVIOUS
<1>0. <<1, LastDay + 1>> \in Periods
  BY LastDayAssumption DEF Periods, Days
<1>1. CASE ClassificationEndpoints
  <2> PICK r \in Classifications :
          \/ \E by \in Admins, source \in BOOLEAN : CreateClassification(r, by, source)
          \/ \E source \in BOOLEAN : UpdateClassification(r, source)
          \/ \E by \in Admins : ApproveClassification(r, by)
          \/ RetireClassification(r)
    BY <1>1 DEF ClassificationEndpoints
  <2>1. r \in Parents
    BY DEF Parents
  <2>2. \A by \in Admins, source \in BOOLEAN : CreateClassification(r, by, source) => TaxInv'
    BY <1>0, <2>1, ParentActions DEF CreateClassification
  <2>3. ASSUME NEW source \in BOOLEAN, UpdateClassification(r, source) PROVE TaxInv'
    <3>1. record[r] \in TaxRows(r) /\ Status(r) = "draft"
      BY <2>1, <2>3 DEF UpdateClassification, Editable, TaxInv, TaxType, Records
    <3>2. \E by \in Admins : TRUE
      BY <3>1 DEF TaxRows, Status
    <3> QED BY <1>0, <2>1, <2>3, <3>2, ParentActions
  <2>4. \A by \in Admins : ApproveClassification(r, by) => TaxInv'
    BY <1>0, <2>1, ParentActions DEF ApproveClassification
  <2> QED BY <2>2, <2>3, <2>4, RetireParentInv
<1>2. CASE RegistrationEndpoints
  <2> PICK r \in Registrations :
          \/ \E by \in Admins, period \in Periods : CreateRegistration(r, by, period)
          \/ \E period \in Periods : UpdateRegistration(r, period)
          \/ \E by \in Admins : ApproveRegistration(r, by)
          \/ RetireRegistration(r)
    BY <1>2 DEF RegistrationEndpoints
  <2>1. r \in Parents
    BY DEF Parents
  <2>2. \A by \in Admins, period \in Periods : CreateRegistration(r, by, period) => TaxInv'
    BY <2>1, ParentActions DEF CreateRegistration
  <2>3. ASSUME NEW period \in Periods, UpdateRegistration(r, period) PROVE TaxInv'
    <3>1. record[r] \in TaxRows(r) /\ Status(r) = "draft"
      BY <2>1, <2>3 DEF UpdateRegistration, Editable, TaxInv, TaxType, Records
    <3>2. \E by \in Admins : TRUE
      BY <3>1 DEF TaxRows, Status
    <3> QED BY <2>1, <2>3, <3>2, ParentActions
  <2>4. \A by \in Admins : ApproveRegistration(r, by) => TaxInv'
    BY <1>0, <2>1, ParentActions DEF ApproveRegistration
  <2> QED BY <2>2, <2>3, <2>4, RetireParentInv
<1>3. CASE RuleEndpoints
  <2> PICK r \in Rules :
          \/ \E k \in Classifications : AskCreate(r, k)
          \/ \E by \in Admins, source \in BOOLEAN, period \in Periods : CreateRule(r, by, source, period)
          \/ \E source \in BOOLEAN, period \in Periods : UpdateRule(r, source, period)
          \/ \E by \in Admins : CheckApproval(r, by)
          \/ Approve(r)
          \/ \E to \in Days : CloseRule(r, to)
          \/ RetireChild(r)
    BY <1>3 DEF RuleEndpoints
  <2>1. r \in Children /\ ParentSet(r) = Classifications
    BY DEF Children, ParentSet
  <2>2. \A by \in Admins, source \in BOOLEAN, period \in Periods : CreateRule(r, by, source, period) => TaxInv'
    <3> SUFFICES ASSUME NEW by \in Admins, NEW source \in BOOLEAN, NEW period \in Periods, CreateRule(r, by, source, period)
                 PROVE  TaxInv'
      OBVIOUS
    <3>1. record[r].parent \in ParentSet(r)
      BY <2>1 DEF CreateRule, Status, TaxInv, TaxType, TaxRows, Records
    <3> QED BY <2>1, <3>1, DraftChildInv
  <2>3. \A source \in BOOLEAN, period \in Periods : UpdateRule(r, source, period) => TaxInv'
    <3> SUFFICES ASSUME NEW source \in BOOLEAN, NEW period \in Periods, UpdateRule(r, source, period)
                 PROVE  TaxInv'
      OBVIOUS
    <3>1. record[r].parent \in ParentSet(r) /\ record[r].creator \in Admins
      BY <2>1 DEF UpdateRule, Editable, Status, TaxInv, TaxType, TaxRows, Records
    <3> QED BY <2>1, <3>1, DraftChildInv
  <2> QED BY <2>1, <2>2, <2>3, CreateChildInv, CheckApprovalInv, ApproveInv, CloseRuleInv, RetireChildInv
<1>4. CASE SettingsEndpoints
  <2> PICK r \in Settings :
          \/ \E g \in Registrations : AskCreate(r, g)
          \/ \E by \in Admins, source \in BOOLEAN, period \in Periods : CreateSettings(r, by, source, period)
          \/ \E source \in BOOLEAN, period \in Periods, g \in Registrations : UpdateSettings(r, source, period, g)
          \/ \E by \in Admins : CheckApproval(r, by)
          \/ Approve(r)
          \/ RetireChild(r)
    BY <1>4 DEF SettingsEndpoints
  <2>1. r \in Children /\ ParentSet(r) = Registrations
    BY TablesAssumption DEF Children, ParentSet
  <2>2. \A by \in Admins, source \in BOOLEAN, period \in Periods : CreateSettings(r, by, source, period) => TaxInv'
    <3> SUFFICES ASSUME NEW by \in Admins, NEW source \in BOOLEAN, NEW period \in Periods, CreateSettings(r, by, source, period)
                 PROVE  TaxInv'
      OBVIOUS
    <3>1. record[r].parent \in ParentSet(r)
      BY <2>1 DEF CreateSettings, Status, TaxInv, TaxType, TaxRows, Records
    <3> QED BY <2>1, <3>1, DraftChildInv
  <2>3. ASSUME NEW source \in BOOLEAN, NEW period \in Periods, NEW g \in Registrations, UpdateSettings(r, source, period, g)
        PROVE  TaxInv'
    <3>1. record[r].creator \in Admins
      BY <2>1, <2>3 DEF UpdateSettings, Editable, Status, TaxInv, TaxType, TaxRows, Records
    <3> QED BY <2>1, <2>3, <3>1, DraftChildInv
  <2> QED BY <2>1, <2>2, <2>3, CreateChildInv, CheckApprovalInv, ApproveInv, RetireChildInv
<1>5. CASE UNCHANGED taxMasterVars
  BY <1>5 DEF taxMasterVars, TaxInv, TaxType, ApprovingSound, NoOverlap, ApprovedOnApproved, Status
<1> QED BY <1>1, <1>2, <1>3, <1>4, <1>5, AssignInv, EngineInv DEF TaxMasterNext, ProductTax

\* Whatever drafts, approvals and retirements run at once, one rule and one setting at most apply on a day, what is
\* approved stands on what is approved, and the engine never meets two (tax/services/tax_service.py).
THEOREM TaxDefinite ==
    /\ TaxMasterSpec => []TaxIsDefinite
    /\ Spec => []TaxMaster_TaxIsDefinite
<1> DEFINE I == part = "tax master" => TaxInv
<1>1. TaxInv => TaxIsDefinite
  BY TaxSafe
<1>2. Init => I
  BY TaxInitInv DEF Init
<1>3. I /\ [Next]_vars => I'
  BY PartStep, TaxStep
<1>4. I => TaxMaster_TaxIsDefinite
  BY <1>1 DEF TaxMaster_TaxIsDefinite
<1>5. TaxMasterSpec => []TaxIsDefinite
  BY <1>1, TaxInitInv, TaxStep, PTL DEF TaxMasterSpec
<1>6. Spec => []TaxMaster_TaxIsDefinite
  <2> HIDE DEF I
  <2> QED BY <1>2, <1>3, <1>4, PTL DEF Spec
<1> QED BY <1>5, <1>6

-----------------------------------------------------------------------------
\* A stored configuration.
ConfigRows ==
    [status : {"absent", "draft", "enabled", "disabled"}, preferred : BOOLEAN, keys : Nat,
     valid : {"unvalidated", "valid", "invalid"}, secret : BOOLEAN, verified : BOOLEAN,
     currencies : SUBSET Currencies, sandbox : BOOLEAN, review : BOOLEAN, checked : BOOLEAN]

\* What a request remembers while it waits for a gateway.
Waiting == [op : {"none", "validate", "check", "demo"}, config : Configs \cup {None}, keys : Nat]

SetupType ==
    /\ config \in [Configs -> ConfigRows]
    /\ req \in [Operators -> Waiting]
    /\ store \in Currencies \cup {None}
    /\ cart \in [Shoppers -> [step : {"start", "asked", "ordered"}, currency : Currencies \cup {None}]]
    /\ accepted \in [Configs -> SUBSET Nat]
    /\ attested \in [Configs -> Nat]

\* A request that waits for a gateway is about a stored configuration; the demo gateway's is about a demo configuration.
WaitsFor ==
    \A a \in Operators :
        /\ req[a].op \in {"validate", "check"} => req[a].config \in Configs \ Demo /\ Exists(req[a].config)
        /\ req[a].op = "demo" => req[a].config \in Configs \cap Demo

\* An answer counts only for the credentials it was about; a live configuration is enabled only when attested; the one preferred was chosen last.
RowSound(c) ==
    /\ c \notin Demo /\ config[c].valid = "valid" => config[c].keys \in accepted[c] \/ c \in raced
    /\ config[c].sandbox \/ config[c].review => attested[c] = config[c].keys
    /\ c \in Live /\ config[c].status = "enabled" => config[c].sandbox /\ config[c].review
    /\ config[c].preferred => chosen = c

SetupInv == SetupType /\ WaitsFor /\ (\A c \in Configs : RowSound(c))

\* A customer who was shown amounts was shown them in a currency.
CartInv ==
    /\ OneCurrency
    /\ \A s \in Shoppers : cart[s].step = "asked" => cart[s].currency # None

\* No configuration, no order at first.
LEMMA SetupInitInv == PaymentSetupInit => SetupInv /\ CartInv
<1> SUFFICES ASSUME PaymentSetupInit PROVE SetupInv /\ CartInv
  OBVIOUS
<1> USE DEF PaymentSetupInit, Absent, NotWaiting, NotStarted
<1>1. SetupType
  BY DEF SetupType, ConfigRows, Waiting
<1>2. WaitsFor /\ \A c \in Configs : RowSound(c)
  BY DEF WaitsFor, RowSound
<1>3. CartInv
  BY DEF CartInv, OneCurrency
<1> QED BY <1>1, <1>2, <1>3 DEF SetupInv

\* The invariant says what is wanted.
LEMMA SetupSafe == SetupInv => GatewayMayTakePayments
  BY GatewaysAssumption DEF SetupInv, RowSound, GatewayMayTakePayments, CredentialsAccepted, EvidenceIsCurrent, NothingTakesOver, TakesPayments

\* The currency in effect is one of the store's.
LEMMA EffectiveType == SetupType => EffectiveCurrency \in Currencies \cup {None}
  BY CurrenciesAssumption DEF SetupType, EffectiveCurrency

\* What a row may become without a request being answered: the credentials stay, they are not declared valid and
\* the row not preferred, and what is attested is attested about n.
MayBecome(c, v, n) ==
    /\ v.keys = config[c].keys \/ ~Exists(c)
    /\ Exists(c) => v.status # "absent"
    /\ c \notin Demo /\ v.valid = "valid" => config[c].valid = "valid" /\ v.keys = config[c].keys
    /\ v.sandbox \/ v.review => n = v.keys
    /\ c \in Live /\ v.status = "enabled" => v.sandbox /\ v.review
    /\ v.preferred => config[c].preferred

\* One row changes and no request.
LEMMA RowChange ==
    ASSUME SetupInv, NEW c \in Configs, NEW v \in ConfigRows, config' = [config EXCEPT ![c] = v],
           UNCHANGED <<live, req, store, cart, accepted, raced, chosen>>,
           attested' \in [Configs -> Nat], \A d \in Configs \ {c} : attested'[d] = attested[d],
           MayBecome(c, v, attested'[c])
    PROVE  SetupInv'
<1> USE DEF SetupInv
<1>1. SetupType'
  BY DEF SetupType
<1>2. \A d \in Configs : config'[d] = IF d = c THEN v ELSE config[d]
  BY DEF SetupType
<1>3. WaitsFor'
  BY <1>2 DEF WaitsFor, Exists, MayBecome
<1>4. \A d \in Configs : RowSound(d)'
  BY <1>2 DEF RowSound, MayBecome
<1> QED BY <1>1, <1>3, <1>4

\* The administrator's edits of one configuration.
LEMMA RowActions ==
    ASSUME SetupInv, NEW c \in Configs,
           \/ Enable(c) \/ Disable(c) \/ WebhookArrives(c) \/ CheckExpires(c)
           \/ \E withSecret \in BOOLEAN : Create(c, withSecret)
           \/ \E codes \in CurrencyLists : SetCurrencies(c, codes)
           \/ \E kind \in {"sandbox", "review"} : Attest(c, kind)
    PROVE  SetupInv'
<1>0. config[c] \in ConfigRows /\ RowSound(c) /\ SetupType
  BY DEF SetupInv, SetupType
<1>1. CASE Enable(c)
  <2> DEFINE v == [config[c] EXCEPT !.status = "enabled"]
  <2>1. v \in ConfigRows /\ config' = [config EXCEPT ![c] = v]
    BY <1>0, <1>1 DEF Enable, Ready, ConfigRows
  <2>2. v.status = "enabled" /\ v.keys = config[c].keys /\ v.valid = config[c].valid /\ v.sandbox = config[c].sandbox /\ v.review = config[c].review /\ v.preferred = config[c].preferred
    BY <1>0 DEF ConfigRows
  <2> HIDE DEF v
  <2>3. MayBecome(c, v, attested[c]) /\ UNCHANGED <<live, req, store, cart, accepted, attested, raced, chosen>>
    BY <1>0, <1>1, <2>2 DEF Enable, Ready, MayBecome, RowSound, history
  <2> QED BY <1>0, <2>1, <2>3, RowChange DEF SetupType
<1>2. CASE Disable(c)
  <2> DEFINE v == [config[c] EXCEPT !.status = "disabled", !.preferred = FALSE]
  <2>1. v \in ConfigRows /\ config' = [config EXCEPT ![c] = v]
    BY <1>0, <1>2 DEF Disable, ConfigRows
  <2>2. v.status = "disabled" /\ ~v.preferred /\ v.keys = config[c].keys /\ v.valid = config[c].valid /\ v.sandbox = config[c].sandbox /\ v.review = config[c].review
    BY <1>0 DEF ConfigRows
  <2> HIDE DEF v
  <2>3. MayBecome(c, v, attested[c]) /\ UNCHANGED <<live, req, store, cart, accepted, attested, raced, chosen>>
    BY <1>0, <1>2, <2>2 DEF Disable, MayBecome, RowSound, history
  <2> QED BY <1>0, <2>1, <2>3, RowChange DEF SetupType
<1>3. CASE WebhookArrives(c)
  <2> DEFINE v == [config[c] EXCEPT !.verified = TRUE]
  <2>1. v \in ConfigRows /\ config' = [config EXCEPT ![c] = v]
    BY <1>0, <1>3 DEF WebhookArrives, ConfigRows
  <2>2. v.status = config[c].status /\ v.keys = config[c].keys /\ v.valid = config[c].valid /\ v.sandbox = config[c].sandbox /\ v.review = config[c].review /\ v.preferred = config[c].preferred
    BY <1>0 DEF ConfigRows
  <2> HIDE DEF v
  <2>3. MayBecome(c, v, attested[c]) /\ UNCHANGED <<live, req, store, cart, accepted, attested, raced, chosen>>
    BY <1>0, <1>3, <2>2 DEF WebhookArrives, MayBecome, RowSound, history, Exists
  <2> QED BY <1>0, <2>1, <2>3, RowChange DEF SetupType
<1>4. CASE CheckExpires(c)
  <2> DEFINE v == [config[c] EXCEPT !.checked = FALSE]
  <2>1. v \in ConfigRows /\ config' = [config EXCEPT ![c] = v]
    BY <1>0, <1>4 DEF CheckExpires, ConfigRows
  <2>2. v.status = config[c].status /\ v.keys = config[c].keys /\ v.valid = config[c].valid /\ v.sandbox = config[c].sandbox /\ v.review = config[c].review /\ v.preferred = config[c].preferred
    BY <1>0 DEF ConfigRows
  <2> HIDE DEF v
  <2>3. MayBecome(c, v, attested[c]) /\ UNCHANGED <<live, req, store, cart, accepted, attested, raced, chosen>>
    BY <1>0, <1>4, <2>2 DEF CheckExpires, MayBecome, RowSound, history, Exists
  <2> QED BY <1>0, <2>1, <2>3, RowChange DEF SetupType
<1>5. ASSUME NEW withSecret \in BOOLEAN, Create(c, withSecret) PROVE SetupInv'
  <2> DEFINE codes == IF EffectiveCurrency = None THEN {} ELSE {EffectiveCurrency}
             v == [Absent EXCEPT !.status = "draft", !.keys = 1, !.secret = withSecret, !.currencies = codes]
  <2>1. codes \in SUBSET Currencies
    BY <1>0, EffectiveType
  <2>2. config' = [config EXCEPT ![c] = v]
    BY <1>5 DEF Create
  <2> HIDE DEF codes
  <2>3. v \in ConfigRows /\ v.status = "draft" /\ v.valid = "unvalidated" /\ ~v.sandbox /\ ~v.review /\ ~v.preferred
    BY <2>1 DEF ConfigRows, Absent
  <2> HIDE DEF v
  <2>4. MayBecome(c, v, attested[c]) /\ UNCHANGED <<live, req, store, cart, accepted, attested, raced, chosen>>
    BY <1>5, <2>3 DEF Create, MayBecome, history
  <2> QED BY <1>0, <2>2, <2>3, <2>4, RowChange DEF SetupType
<1>6. ASSUME NEW codes \in CurrencyLists, SetCurrencies(c, codes) PROVE SetupInv'
  <2> DEFINE v == [config[c] EXCEPT !.currencies = codes]
  <2>1. v \in ConfigRows /\ config' = [config EXCEPT ![c] = v]
    BY <1>0, <1>6, CurrenciesAssumption DEF SetCurrencies, ConfigRows
  <2>2. v.status = config[c].status /\ v.keys = config[c].keys /\ v.valid = config[c].valid /\ v.sandbox = config[c].sandbox /\ v.review = config[c].review /\ v.preferred = config[c].preferred
    BY <1>0 DEF ConfigRows
  <2> HIDE DEF v
  <2>3. MayBecome(c, v, attested[c]) /\ UNCHANGED <<live, req, store, cart, accepted, attested, raced, chosen>>
    BY <1>0, <1>6, <2>2 DEF SetCurrencies, MayBecome, RowSound, history, Exists
  <2> QED BY <1>0, <2>1, <2>3, RowChange DEF SetupType
<1>7. ASSUME NEW kind \in {"sandbox", "review"}, Attest(c, kind) PROVE SetupInv'
  <2>1. PICK v \in ConfigRows : /\ config' = [config EXCEPT ![c] = v]
                                /\ v.status = config[c].status /\ v.keys = config[c].keys /\ v.valid = config[c].valid /\ v.preferred = config[c].preferred
                                /\ (config[c].sandbox => v.sandbox) /\ (config[c].review => v.review)
    <3>1. CASE kind = "sandbox"
      <4> DEFINE v == [config[c] EXCEPT !.sandbox = TRUE]
      <4>1. config' = [config EXCEPT ![c] = v]
        BY <1>7, <3>1 DEF Attest
      <4>2. v \in ConfigRows /\ v.sandbox /\ v.status = config[c].status /\ v.keys = config[c].keys /\ v.valid = config[c].valid /\ v.preferred = config[c].preferred /\ v.review = config[c].review
        BY <1>0 DEF ConfigRows
      <4> QED BY <4>1, <4>2
    <3>2. CASE kind = "review"
      <4> DEFINE v == [config[c] EXCEPT !.review = TRUE]
      <4>1. config' = [config EXCEPT ![c] = v]
        BY <1>7, <3>2 DEF Attest
      <4>2. v \in ConfigRows /\ v.review /\ v.status = config[c].status /\ v.keys = config[c].keys /\ v.valid = config[c].valid /\ v.preferred = config[c].preferred /\ v.sandbox = config[c].sandbox
        BY <1>0 DEF ConfigRows
      <4> QED BY <4>1, <4>2
    <3> QED BY <3>1, <3>2
  <2>2. config[c].keys \in Nat /\ attested' = [attested EXCEPT ![c] = config[c].keys]
    BY <1>0, <1>7 DEF Attest, ConfigRows
  <2>3. attested' \in [Configs -> Nat] /\ attested'[c] = config[c].keys /\ \A d \in Configs \ {c} : attested'[d] = attested[d]
    BY <1>0, <2>2 DEF SetupType
  <2>4. MayBecome(c, v, attested'[c]) /\ UNCHANGED <<live, req, store, cart, accepted, raced, chosen>>
    BY <1>0, <1>7, <2>1, <2>3 DEF Attest, MayBecome, RowSound, Exists
  <2> QED BY <2>1, <2>3, <2>4, RowChange
<1> QED BY <1>1, <1>2, <1>3, <1>4, <1>5, <1>6, <1>7

\* New credentials take the answers about the old ones away.
LEMMA NewCredentialsRow ==
    ASSUME NEW cfg \in ConfigRows
    PROVE  LET new == NewCredentials(cfg) IN
           /\ new \in ConfigRows /\ new.status = cfg.status /\ new.preferred = cfg.preferred
           /\ new.valid = "unvalidated" /\ ~new.sandbox /\ ~new.review
<1>1. cfg.keys + 1 \in Nat
  BY DEF ConfigRows
<1> DEFINE k == cfg.keys + 1
           new == [cfg EXCEPT !.keys = k, !.valid = "unvalidated", !.sandbox = FALSE, !.review = FALSE]
<1>2. NewCredentials(cfg) = new
  BY DEF NewCredentials
<1> HIDE DEF k
<1>3. /\ new \in ConfigRows /\ new.status = cfg.status /\ new.preferred = cfg.preferred
      /\ new.valid = "unvalidated" /\ ~new.sandbox /\ ~new.review
  BY <1>1 DEF ConfigRows, k
<1> QED BY <1>2, <1>3

\* Credentials are rotated, also while a gateway is being asked about the old ones.
LEMMA RotateInv ==
    ASSUME SetupInv, NEW c \in Configs, NEW what \in SUBSET {"credentials", "secret"}, Rotate(c, what)
    PROVE  SetupInv'
<1> USE DEF SetupInv
<1>0. config[c] \in ConfigRows /\ RowSound(c) /\ SetupType /\ c \notin Demo /\ Exists(c)
  BY DEF SetupType, Rotate
<1> DEFINE new == IF "credentials" \in what THEN NewCredentials(config[c]) ELSE config[c]
           set == IF "secret" \in what THEN NewSecret(new) ELSE new
           v == Paused(set)
<1>1. config' = [config EXCEPT ![c] = v]
  BY DEF Rotate
<1>2. /\ new \in ConfigRows
      /\ new.status = config[c].status /\ new.preferred = config[c].preferred
      /\ "credentials" \in what => new.valid = "unvalidated" /\ ~new.sandbox /\ ~new.review
      /\ "credentials" \notin what => new = config[c]
  <2>1. CASE "credentials" \in what
    BY <1>0, <2>1, NewCredentialsRow
  <2>2. CASE "credentials" \notin what
    BY <1>0, <2>2
  <2> QED BY <2>1, <2>2
<1> HIDE DEF new
<1>3. /\ set \in ConfigRows
      /\ set.status = new.status /\ set.preferred = new.preferred /\ set.keys = new.keys /\ set.valid = new.valid
      /\ set.sandbox = new.sandbox /\ set.review = new.review
  BY <1>2 DEF ConfigRows, NewSecret
<1> HIDE DEF set
<1>4. /\ v \in ConfigRows
      /\ v.status # "enabled" /\ (v.status = "absent" <=> set.status = "absent") /\ (v.preferred => set.preferred) /\ v.keys = set.keys /\ v.valid = set.valid
      /\ v.sandbox = set.sandbox /\ v.review = set.review
  BY <1>3 DEF ConfigRows, Paused
<1> HIDE DEF v
<1>5. /\ UNCHANGED <<live, req, store, cart, accepted, attested, chosen>>
      /\ raced' = IF "credentials" \in what THEN raced \ {c} ELSE raced
  BY DEF Rotate
<1>6. \A d \in Configs : config'[d] = IF d = c THEN v ELSE config[d]
  BY <1>1 DEF SetupType
<1>7. SetupType'
  BY <1>1, <1>4, <1>5 DEF SetupType
<1>8. WaitsFor'
  BY <1>0, <1>2, <1>3, <1>4, <1>5, <1>6 DEF WaitsFor, Exists
<1>9. ASSUME NEW d \in Configs PROVE RowSound(d)'
  BY <1>0, <1>2, <1>3, <1>4, <1>5, <1>6 DEF RowSound
<1> QED BY <1>7, <1>8, <1>9

\* A gateway answers: about the credentials it was asked about, which may have been rotated since.
LEMMA FinishValidationInv ==
    ASSUME SetupInv, NEW a \in Operators, NEW ok \in BOOLEAN, FinishValidation(a, ok)
    PROVE  SetupInv'
<1> USE DEF SetupInv
<1> DEFINE c == req[a].config
           old == config[c]
           cfg == Answered(old, ok)
           v == IF req[a].op = "check" THEN [cfg EXCEPT !.checked = Passes(c, cfg)] ELSE cfg
<1>0. /\ c \in Configs /\ old \in ConfigRows /\ c \notin Demo /\ old.status # "absent"
      /\ req[a].keys \in Nat
  BY DEF FinishValidation, WaitsFor, SetupType, Exists, Waiting
<1>1. /\ config' = [config EXCEPT ![c] = v]
      /\ accepted' = IF ok THEN [accepted EXCEPT ![c] = @ \cup {req[a].keys}] ELSE accepted
      /\ raced' = IF req[a].keys = old.keys THEN raced \ {c} ELSE raced \cup {c}
      /\ req' = [req EXCEPT ![a] = NotWaiting] /\ UNCHANGED <<store, cart, attested, chosen>>
  BY DEF FinishValidation
<1>2. /\ cfg \in ConfigRows /\ cfg.keys = old.keys /\ cfg.sandbox = old.sandbox /\ cfg.review = old.review
      /\ (cfg.preferred => old.preferred) /\ cfg.status # "absent" /\ (cfg.status = "enabled" => old.status = "enabled")
      /\ (cfg.valid = "valid" => ok)
  BY <1>0 DEF ConfigRows, Answered, Paused
<1>3. Passes(c, cfg) \in BOOLEAN
  BY DEF Passes
<1> HIDE DEF cfg
<1>4. /\ v \in ConfigRows /\ v.keys = old.keys /\ v.sandbox = old.sandbox /\ v.review = old.review
      /\ (v.preferred => old.preferred) /\ v.status # "absent" /\ (v.status = "enabled" => old.status = "enabled")
      /\ (v.valid = "valid" => ok)
  BY <1>2, <1>3 DEF ConfigRows
<1> HIDE DEF v
<1>5. PICK x, w : x = c /\ w = v
  OBVIOUS
<1>6. \A d \in Configs : config'[d] = IF d = x THEN w ELSE config[d]
  BY <1>0, <1>1, <1>5 DEF SetupType
<1>7. /\ \A d \in Configs : accepted[d] \subseteq accepted'[d]
      /\ ok => req[a].keys \in accepted'[x]
      /\ accepted' \in [Configs -> SUBSET Nat]
  BY <1>0, <1>1, <1>5 DEF SetupType
<1>8. SetupType'
  BY <1>0, <1>1, <1>4, <1>7 DEF SetupType, NotWaiting, Waiting
<1>9. WaitsFor'
  <2> SUFFICES ASSUME NEW b \in Operators, b # a
               PROVE  /\ req[b].op \in {"validate", "check"} =>
                             req[b].config \in Configs \ Demo /\ config'[req[b].config].status # "absent"
                      /\ req[b].op = "demo" => req[b].config \in Configs \cap Demo
    BY <1>1 DEF WaitsFor, Exists, SetupType, NotWaiting
  <2> QED BY <1>4, <1>5, <1>6 DEF WaitsFor, Exists
<1>10. ASSUME NEW d \in Configs PROVE RowSound(d)'
  BY <1>0, <1>1, <1>4, <1>5, <1>6, <1>7 DEF RowSound
<1> QED BY <1>8, <1>9, <1>10

\* What a row may become when the preference moves.
MayTurn(d, v) ==
    /\ d \notin Demo => v.keys = config[d].keys /\ v.valid = config[d].valid
    /\ v.sandbox \/ v.review => attested[d] = v.keys
    /\ d \in Live /\ v.status = "enabled" => v.sandbox /\ v.review
    /\ v.status = "absent" => config[d].status = "absent"

\* The preference moves to one row, or away from all.
LEMMA PreferenceInv ==
    ASSUME SetupInv, NEW c, NEW rows \in [Configs -> ConfigRows],
           \A d \in Configs : MayTurn(d, rows[d]) /\ (rows[d].preferred => d = c),
           config' = rows, chosen' = c,
           req' = req \/ \E a \in Operators : req' = [req EXCEPT ![a] = NotWaiting],
           UNCHANGED <<store, cart, accepted, attested, raced>>
    PROVE  SetupInv'
<1> USE DEF SetupInv
<1>1. \A b \in Operators : req'[b] = req[b] \/ req'[b] = NotWaiting
  BY DEF SetupType
<1>2. SetupType'
  BY DEF SetupType, NotWaiting, Waiting
<1>3. WaitsFor'
  BY <1>1 DEF WaitsFor, Exists, NotWaiting, MayTurn
<1>4. ASSUME NEW d \in Configs PROVE RowSound(d)'
  BY DEF RowSound, MayTurn
<1> QED BY <1>2, <1>3, <1>4

\* An administrator prefers a configuration.
LEMMA PreferInv ==
    ASSUME SetupInv, NEW c \in Configs, Prefer(c) \/ ActivateLive(c)
    PROVE  SetupInv'
<1>0. config \in [Configs -> ConfigRows]
  BY DEF SetupInv, SetupType
<1> DEFINE rows == Preferred(config, c)
<1>1. rows \in [Configs -> ConfigRows]
  BY <1>0 DEF Preferred, ConfigRows
<1>2. \A d \in Configs : /\ rows[d].keys = config[d].keys /\ rows[d].sandbox = config[d].sandbox /\ rows[d].review = config[d].review
                         /\ rows[d].valid = config[d].valid /\ rows[d].status = config[d].status
                         /\ rows[d].preferred = (d = c)
  BY <1>0 DEF Preferred, ConfigRows
<1>3. config' = rows /\ chosen' = c /\ UNCHANGED <<req, store, cart, accepted, attested, raced>>
  BY DEF Prefer, ActivateLive
<1> HIDE DEF rows
<1>4. \A d \in Configs : MayTurn(d, rows[d])
  BY <1>2 DEF MayTurn, SetupInv, RowSound
<1> QED BY <1>1, <1>2, <1>3, <1>4, PreferenceInv

\* Live payments are switched off.
LEMMA DeactivateLiveInv ==
    ASSUME SetupInv, DeactivateLive
    PROVE  SetupInv'
<1>0. config \in [Configs -> ConfigRows]
  BY DEF SetupInv, SetupType
<1> DEFINE rows == Deactivated(config)
<1>1. rows \in [Configs -> ConfigRows]
  BY <1>0 DEF Deactivated, ConfigRows
<1>2. \A d \in Configs : /\ rows[d].keys = config[d].keys /\ rows[d].sandbox = config[d].sandbox /\ rows[d].review = config[d].review
                         /\ rows[d].valid = config[d].valid /\ rows[d].status = config[d].status
                         /\ rows[d].preferred = FALSE
  BY <1>0 DEF Deactivated, ConfigRows
<1>3. config' = rows /\ chosen' = None /\ UNCHANGED <<req, store, cart, accepted, attested, raced>>
  BY DEF DeactivateLive
<1> HIDE DEF rows
<1>4. \A d \in Configs : MayTurn(d, rows[d])
  BY <1>2 DEF MayTurn, SetupInv, RowSound
<1> QED BY <1>1, <1>2, <1>3, <1>4, PreferenceInv

\* The demo gateway is set up and preferred.
LEMMA FinishDemoInv ==
    ASSUME SetupInv, NEW a \in Operators, FinishDemo(a)
    PROVE  SetupInv'
<1> DEFINE c == req[a].config
           new == DemoRow(c)
           rows == Preferred([config EXCEPT ![c] = new], c)
<1>0. config \in [Configs -> ConfigRows] /\ c \in Configs /\ c \in Demo /\ c \notin Live
  BY GatewaysAssumption DEF SetupInv, SetupType, FinishDemo, WaitsFor
<1>1. /\ new \in ConfigRows /\ new.status = "enabled"
      /\ new.sandbox \/ new.review => attested[c] = new.keys
  <2>1. CASE Exists(c)
    BY <1>0, <2>1 DEF DemoRow, ConfigRows, SetupInv, RowSound
  <2>2. CASE ~Exists(c)
    BY <2>2 DEF DemoRow, ConfigRows, Absent
  <2> QED BY <2>1, <2>2
<1>2. config' = rows /\ chosen' = c /\ req' = [req EXCEPT ![a] = NotWaiting] /\ UNCHANGED <<store, cart, accepted, attested, raced>>
  BY DEF FinishDemo
<1> HIDE DEF new
<1>3. \A d \in Configs : rows[d] = [(IF d = c THEN new ELSE config[d]) EXCEPT !.preferred = (d = c)]
  BY <1>0 DEF Preferred
<1>4. rows \in [Configs -> ConfigRows]
  BY <1>0, <1>1 DEF Preferred, ConfigRows
<1>5. \A d \in Configs : MayTurn(d, rows[d]) /\ (rows[d].preferred => d = c)
  <2> SUFFICES ASSUME NEW d \in Configs PROVE MayTurn(d, rows[d]) /\ (rows[d].preferred => d = c)
    OBVIOUS
  <2>1. CASE d = c
    <3>1. rows[d].sandbox = new.sandbox /\ rows[d].review = new.review /\ rows[d].keys = new.keys /\ rows[d].status = "enabled"
      BY <1>1, <1>3, <2>1 DEF ConfigRows
    <3> HIDE DEF rows
    <3> QED BY <1>0, <1>1, <2>1, <3>1 DEF MayTurn
  <2>2. CASE d # c
    <3>1. /\ rows[d].sandbox = config[d].sandbox /\ rows[d].review = config[d].review /\ rows[d].keys = config[d].keys
          /\ rows[d].status = config[d].status /\ rows[d].valid = config[d].valid /\ rows[d].preferred = FALSE
      <4>1. config[d] \in ConfigRows /\ rows[d] = [config[d] EXCEPT !.preferred = (d = c)]
        BY <1>0, <1>3, <2>2
      <4>2. (d = c) = FALSE
        BY <2>2
      <4> HIDE DEF rows, c
      <4> QED BY <4>1, <4>2 DEF ConfigRows
    <3> HIDE DEF rows
    <3> QED BY <3>1 DEF MayTurn, SetupInv, RowSound
  <2> QED BY <2>1, <2>2
<1> HIDE DEF rows, c
<1> QED BY <1>2, <1>4, <1>5, PreferenceInv

\* Every step keeps the invariant.
LEMMA SetupStep == SetupInv /\ [PaymentSetupNext]_paymentSetupVars => SetupInv'
<1> SUFFICES ASSUME SetupInv, [PaymentSetupNext]_paymentSetupVars PROVE SetupInv'
  OBVIOUS
<1>0. ASSUME UNCHANGED <<config, accepted, attested, raced, chosen>>, SetupType', WaitsFor' PROVE SetupInv'
  BY <1>0 DEF SetupInv, RowSound
<1>1. ASSUME NEW a \in Operators, NEW c \in Configs, NEW op \in {"validate", "check"}, StartValidation(a, c, op) PROVE SetupInv'
  BY <1>0, <1>1 DEF StartValidation, SetupInv, SetupType, WaitsFor, Exists, Waiting, ConfigRows, history
<1>2. ASSUME NEW a \in Operators, NEW c \in Configs, StartDemo(a, c) PROVE SetupInv'
  BY <1>0, <1>2 DEF StartDemo, SetupInv, SetupType, WaitsFor, Exists, Waiting, history
<1>3. ASSUME NEW a \in Operators, GiveUp(a) PROVE SetupInv'
  BY <1>0, <1>3 DEF GiveUp, SetupInv, SetupType, WaitsFor, Exists, Waiting, NotWaiting, history
<1>4. ASSUME UNCHANGED <<config, req>>, UNCHANGED history, SetupType' PROVE SetupInv'
  BY <1>0, <1>4 DEF SetupInv, WaitsFor, Exists, history
<1>5. ASSUME NEW code \in Currencies, SetCurrency(code) PROVE SetupInv'
  BY <1>4, <1>5 DEF SetCurrency, Initialized, SetupInv, SetupType, history
<1>6. ASSUME NEW s \in Shoppers, AskCurrency(s) \/ PlaceOrder(s) PROVE SetupInv'
  <2>1. SetupType'
    BY <1>6, EffectiveType DEF AskCurrency, PlaceOrder, Initialized, OrderedIn, SetupInv, SetupType, history
  <2> QED BY <1>4, <1>6, <2>1 DEF AskCurrency, PlaceOrder
<1>7. CASE UNCHANGED paymentSetupVars
  BY <1>4, <1>7 DEF paymentSetupVars, history, SetupInv, SetupType
<1>8. CASE ProviderEndpoints
  BY <1>1, <1>8, RowActions, RotateInv, PreferInv DEF ProviderEndpoints
<1>9. CASE ModeEndpoints
  BY <1>2, <1>9, PreferInv, DeactivateLiveInv, FinishDemoInv DEF ModeEndpoints
<1>10. CASE Environment
  BY <1>3, <1>10, RowActions, FinishValidationInv DEF Environment
<1> QED
  BY <1>5, <1>6, <1>7, <1>8, <1>9, <1>10 DEF PaymentSetupNext, SetupNext, StoreNext, StoreEndpoints, Checkouts

\* Every step keeps orders in one currency.
LEMMA CartStep == SetupInv /\ CartInv /\ [PaymentSetupNext]_paymentSetupVars => CartInv'
<1> SUFFICES ASSUME SetupInv, CartInv, [PaymentSetupNext]_paymentSetupVars PROVE CartInv'
  OBVIOUS
<1>1. ASSUME UNCHANGED <<store, cart>> PROVE CartInv'
  BY <1>1 DEF CartInv, OneCurrency
<1>2. ASSUME NEW code \in Currencies, SetCurrency(code) PROVE CartInv'
  BY <1>2, CurrenciesAssumption DEF SetCurrency, Initialized, CartInv, OneCurrency
<1>3. ASSUME NEW s \in Shoppers, AskCurrency(s) PROVE CartInv'
  BY <1>3 DEF AskCurrency, CartInv, OneCurrency, SetupInv, SetupType
<1>4. ASSUME NEW s \in Shoppers, PlaceOrder(s) PROVE CartInv'
  BY <1>4 DEF PlaceOrder, Initialized, OrderedIn, CartInv, OneCurrency, SetupInv, SetupType
<1>5. ProviderEndpoints \/ ModeEndpoints \/ Environment => UNCHANGED <<store, cart>>
  BY DEF ProviderEndpoints, ModeEndpoints, Environment, Enable, Disable, Prefer, Create, Rotate, SetCurrencies, Attest,
         StartValidation, DeactivateLive, ActivateLive, FinishDemo, StartDemo, WebhookArrives, CheckExpires, GiveUp, FinishValidation
<1>6. CASE UNCHANGED paymentSetupVars
  BY <1>1, <1>6 DEF paymentSetupVars
<1> QED
  BY <1>1, <1>2, <1>3, <1>4, <1>5, <1>6 DEF PaymentSetupNext, SetupNext, StoreNext, StoreEndpoints, Checkouts

\* The gateway that takes new payments has accepted the credentials it is used with, a live one was attested with them,
\* and an administrator chose it last; the exception are credentials that replaced others while the gateway was being
\* asked about those, so that its answer was taken for them (raced; provider_config_service.py).
THEOREM GatewayTakesPayments ==
    /\ PaymentSetupSpec => []GatewayMayTakePayments
    /\ Spec => []PaymentSetup_GatewayMayTakePayments
<1> DEFINE P == part \in {"payment setup", "store currency"}
           I == P => SetupInv
<1>1. SetupInv => GatewayMayTakePayments
  BY SetupSafe
<1>2. Init => I
  BY SetupInitInv DEF Init
<1>3. I /\ [Next]_vars => I'
  BY PartStep, SetupStep DEF PaymentSetupNext
<1>4. I => PaymentSetup_GatewayMayTakePayments
  BY <1>1 DEF PaymentSetup_GatewayMayTakePayments
<1>5. PaymentSetupSpec => []GatewayMayTakePayments
  BY <1>1, SetupInitInv, SetupStep, PTL DEF PaymentSetupSpec
<1>6. Spec => []PaymentSetup_GatewayMayTakePayments
  <2> HIDE DEF I
  <2> QED BY <1>2, <1>3, <1>4, PTL DEF Spec
<1> QED BY <1>5, <1>6

\* Every order is in the store's one currency, whichever of two customers or the administrator records it first
\* (store_settings, order_service.py).
THEOREM OneStoreCurrency ==
    /\ PaymentSetupSpec => []OneCurrency
    /\ Spec => []PaymentSetup_OneCurrency
<1> DEFINE P == part \in {"payment setup", "store currency"}
           J == SetupInv /\ CartInv
           I == P => J
<1>1. J => OneCurrency
  BY DEF CartInv
<1>2. Init => I
  BY SetupInitInv DEF Init
<1>3. J /\ [PaymentSetupNext]_paymentSetupVars => J'
  BY SetupStep, CartStep
<1>4. I /\ [Next]_vars => I'
  BY <1>3, PartStep DEF PaymentSetupNext
<1>5. I => PaymentSetup_OneCurrency
  BY <1>1 DEF PaymentSetup_OneCurrency
<1>6. PaymentSetupInit => J
  BY SetupInitInv
<1>7. PaymentSetupSpec => []OneCurrency
  <2> HIDE DEF J
  <2> QED BY <1>1, <1>3, <1>6, PTL DEF PaymentSetupSpec
<1>8. Spec => []PaymentSetup_OneCurrency
  <2> HIDE DEF I
  <2> QED BY <1>2, <1>4, <1>5, PTL DEF Spec
<1> QED BY <1>7, <1>8

-----------------------------------------------------------------------------
\* The fields of a row and of an image request, and the paths handed out.
RowFields == {"name", "slug", "status", "category", "image"}
Statuses == {"draft", "active", "inactive", "archived"}
ImageOps == {"upload", "stored", "saved", "dropped"}
ImageFields == {"op", "row", "old", "path"}
Uploaded == (1 .. uploads) \cup {None}

\* A stored row, and what a request remembers.
ListedRow(v) == DOMAIN v = RowFields /\ v.status \in Statuses /\ v.image \in Uploaded
RequestSound(q) ==
    /\ q.op = "create" => DOMAIN q.values = RowFields /\ q.values.status \in Statuses /\ q.values.image = None
    /\ q.op = "rename" => q.row \in Rows /\ RowExists(q.row)
    /\ q.op \in ImageOps => DOMAIN q = ImageFields /\ q.row \in Rows /\ RowExists(q.row) /\ q.old \in Uploaded /\ q.path \in Uploaded

ListingsType ==
    /\ uploads \in Nat
    /\ row = [r \in Rows |-> row[r]] /\ request = [a \in Requests |-> request[a]]
    /\ \A r \in Rows : RowExists(r) => ListedRow(row[r])
    /\ \A a \in Requests : RequestSound(request[a])

\* A request's new file is its own: no row names it, nobody deletes it.
OwnFile ==
    \A a \in Requests : request[a].op \in ImageOps /\ request[a].path # None =>
        /\ request[a].path \in files
        /\ \A r \in Rows : RowExists(r) => row[r].image # request[a].path
        /\ \A b \in Requests : request[b].op \in ImageOps =>
               request[b].old # request[a].path /\ (request[b].path = request[a].path => b = a)

\* A file belongs to one row.
OneOwner ==
    /\ \A r, s \in Rows : RowExists(r) /\ RowExists(s) /\ row[r].image = row[s].image /\ row[r].image # None => r = s
    /\ \A a \in Requests, r \in Rows :
           request[a].op \in ImageOps /\ request[a].old # None /\ RowExists(r) /\ row[r].image = request[a].old =>
               r = request[a].row

\* Whatever the public was shown was active.
PublicPage == (page # None => page \subseteq {"active"}) /\ shown \subseteq {"active"}

ListingsInv == ListingsType /\ OwnFile /\ OneOwner /\ ShownImageExists /\ PublicPage

\* No row and no file at first.
LEMMA ListingsInitInv == ListingsInit => ListingsInv
  BY DEF ListingsInit, ListingsInv, ListingsType, OwnFile, OneOwner, ShownImageExists, PublicPage, RowExists, RequestSound,
         NoWrite, ImageOps

\* A request that had nothing to do with images starts or ends something.
LEMMA RequestInv ==
    ASSUME ListingsInv, NEW a \in Requests, NEW q, request' = [request EXCEPT ![a] = q],
           UNCHANGED <<row, files, uploads, spoilt, page, shown>>,
           RequestSound(q), request[a].op # "dropped",
           q.op \in ImageOps => q.path = None /\ q.old = row[q.row].image
    PROVE  ListingsInv'
<1> USE DEF ListingsInv
<1>1. \A b \in Requests : request'[b] = IF b = a THEN q ELSE request[b]
  BY DEF ListingsType
<1>2. ListingsType'
  BY <1>1 DEF ListingsType, RowExists, ListedRow, RequestSound, Uploaded
<1>3. OwnFile'
  BY <1>1 DEF OwnFile, RowExists, RequestSound
<1>4. OneOwner'
  BY <1>1 DEF OneOwner, RowExists, RequestSound
<1>5. ShownImageExists'
  BY <1>1 DEF ShownImageExists, RowExists
<1> QED BY <1>2, <1>3, <1>4, <1>5 DEF PublicPage

\* A row is written and its image stays; a new row has none.
LEMMA WriteInv ==
    ASSUME ListingsInv, NEW r \in Rows, NEW v, row' = [row EXCEPT ![r] = v], page' = None,
           UNCHANGED <<files, uploads, spoilt, shown>>,
           request' = request \/ \E a \in Requests : request[a].op \notin ImageOps /\ request' = [request EXCEPT ![a] = NoWrite],
           DOMAIN v = RowFields, v.status \in Statuses,
           v.image = IF RowExists(r) THEN row[r].image ELSE None
    PROVE  ListingsInv'
<1> USE DEF ListingsInv
<1>1. \A s \in Rows : row'[s] = IF s = r THEN v ELSE row[s]
  BY DEF ListingsType
<1>2. \A b \in Requests : request'[b] = request[b] \/ (request'[b] = NoWrite /\ request[b].op \notin ImageOps)
  <2>1. CASE request' = request
    BY <2>1
  <2>2. CASE \E a \in Requests : request[a].op \notin ImageOps /\ request' = [request EXCEPT ![a] = NoWrite]
    BY <2>2 DEF ListingsType
  <2> QED BY <2>1, <2>2
<1>3. \A b \in Requests : request'[b].op \in ImageOps \/ request[b].op \in ImageOps => request'[b] = request[b]
  BY <1>2 DEF NoWrite, ImageOps
<1>4. ListingsType'
  <2>1. \A s \in Rows : RowExists(s) => RowExists(s)'
    BY <1>1 DEF RowExists, Statuses
  <2>2. \A b \in Requests : RequestSound(request[b])'
    BY <1>2, <2>1 DEF ListingsType, RequestSound, Uploaded, NoWrite, ImageOps, RowExists
  <2>3. \A s \in Rows : RowExists(s)' => ListedRow(row[s])'
    BY <1>1 DEF ListingsType, ListedRow, Uploaded, RowExists
  <2>4. row' = [s \in Rows |-> row'[s]] /\ request' = [b \in Requests |-> request'[b]]
    BY DEF ListingsType
  <2> QED BY <2>2, <2>3, <2>4 DEF ListingsType
<1>5. OwnFile'
  BY <1>1, <1>3 DEF OwnFile, RowExists
<1>6. OneOwner'
  BY <1>1, <1>3 DEF OneOwner, RowExists
<1>7. ShownImageExists'
  BY <1>1, <1>3 DEF ShownImageExists, RowExists, ImageOps
<1> QED BY <1>4, <1>5, <1>6, <1>7 DEF PublicPage

\* A request that starts something.
LEMMA StartInv ==
    ASSUME ListingsInv, NEW a \in Requests, NEW q, Start(a, q), RequestSound(q),
           q.op \in ImageOps => q.path = None /\ q.old = row[q.row].image
    PROVE  ListingsInv'
<1>1. request[a].op # "dropped" /\ request' = [request EXCEPT ![a] = q] /\ UNCHANGED <<row, files, uploads, spoilt, page, shown>>
  BY DEF Start, NoWrite
<1> QED BY <1>1, RequestInv

\* A request that ends without a trace.
LEMMA EndInv ==
    ASSUME ListingsInv, NEW a \in Requests, EndWrite(a), request[a].op # "dropped",
           UNCHANGED <<row, files, uploads, spoilt, page, shown>>
    PROVE  ListingsInv'
<1>1. RequestSound(NoWrite) /\ NoWrite.op \notin ImageOps
  BY DEF RequestSound, NoWrite, ImageOps
<1> QED BY <1>1, RequestInv DEF EndWrite

\* A new row is prepared.
LEMMA CreateInv ==
    ASSUME ListingsInv, NEW a \in Requests, NEW name, NEW c, NEW status \in {"draft", "active"},
           CreateCategory(a, name) \/ CreateProduct(a, name, c, status)
    PROVE  ListingsInv'
<1>1. ASSUME NEW T, NEW st \in {"draft", "active"}, NEW k, NEW slug
      PROVE  LET q == [op |-> "create", in |-> T, values |-> ListingRow(name, slug, st, k)]
             IN  RequestSound(q) /\ q.op = "create"
  BY DEF RequestSound, ListingRow, RowFields, Statuses, ImageOps
<1>2. CASE CreateCategory(a, name)
  BY <1>1, <1>2, StartInv DEF CreateCategory, ImageOps
<1>3. CASE CreateProduct(a, name, c, status)
  BY <1>1, <1>3, StartInv DEF CreateProduct, ImageOps
<1> QED BY <1>2, <1>3

\* A category is edited.
LEMMA UpdateCategoryInv ==
    ASSUME ListingsInv, NEW a \in Requests, NEW c \in Categories, NEW name, UpdateCategory(a, c, name)
    PROVE  ListingsInv'
<1> DEFINE q == [op |-> "rename", row |-> c, name |-> name, slug |-> UniqueSlugFor(Categories, name)]
<1>1. RequestSound(q) /\ q.op = "rename"
  BY DEF UpdateCategory, RequestSound, Rows, ImageOps
<1>2. Start(a, q)
  BY DEF UpdateCategory
<1> HIDE DEF q
<1> QED BY <1>1, <1>2, StartInv DEF ImageOps

\* A request reads the row that it will change.
LEMMA ReadForInv ==
    ASSUME ListingsInv, NEW a \in Requests, NEW r \in Rows, RowExists(r), ReadForUpload(a, r) \/ ReadForDelete(a, r)
    PROVE  ListingsInv'
<1>1. PICK op \in {"upload", "stored"} : Start(a, [op |-> op, row |-> r, old |-> row[r].image, path |-> None])
  BY DEF ReadForUpload, ReadForDelete
<1> DEFINE q == [op |-> op, row |-> r, old |-> row[r].image, path |-> None]
<1>2. row[r].image \in Uploaded
  BY DEF ListingsInv, ListingsType, ListedRow
<1>3. RequestSound(q) /\ q.path = None /\ q.old = row[q.row].image
  BY <1>2 DEF RequestSound, Uploaded, ImageFields
<1>4. Start(a, q)
  BY <1>1
<1> HIDE DEF q
<1> QED BY <1>3, <1>4, StartInv

\* The row is inserted, unless its slug is taken.
LEMMA InsertInv ==
    ASSUME ListingsInv, NEW a \in Requests, NEW r \in Rows, Insert(a, r)
    PROVE  ListingsInv'
<1> DEFINE q == request[a]
<1>1. q.op = "create" /\ DOMAIN q.values = RowFields /\ q.values.status \in Statuses /\ q.values.image = None /\ ~RowExists(r)
  BY DEF Insert, ListingsInv, ListingsType, RequestSound
<1>2. CASE UniqueIndexes(q.in, q.values)
  <2>1. row' = [row EXCEPT ![r] = q.values] /\ page' = None /\ UNCHANGED <<files, uploads, spoilt, shown>>
    BY <1>2 DEF Insert, Commit
  <2>2. request[a].op \notin ImageOps /\ request' = [request EXCEPT ![a] = NoWrite]
    BY <1>1 DEF Insert, EndWrite, ImageOps
  <2> QED BY <1>1, <2>1, <2>2, WriteInv
<1>3. CASE ~UniqueIndexes(q.in, q.values)
  BY <1>1, <1>3, EndInv DEF Insert
<1> QED BY <1>2, <1>3

\* A name and a slug are written.
LEMMA RenameInv ==
    ASSUME ListingsInv, NEW a \in Requests, Rename(a)
    PROVE  ListingsInv'
<1> DEFINE q == request[a]
           r == q.row
           v == [row[r] EXCEPT !.name = q.name, !.slug = q.slug]
<1>1. q.op = "rename" /\ r \in Rows /\ RowExists(r) /\ ListedRow(row[r])
  BY DEF Rename, ListingsInv, ListingsType, RequestSound
<1>2. DOMAIN v = RowFields /\ v.status = row[r].status /\ v.image = row[r].image
  BY <1>1 DEF ListedRow, RowFields
<1>3. CASE UNCHANGED <<row, page>>
  BY <1>1, <1>3, EndInv DEF Rename
<1>4. CASE Commit(r, v)
  <2>1. row' = [row EXCEPT ![r] = v] /\ page' = None /\ UNCHANGED <<files, uploads, spoilt, shown>>
    BY <1>4 DEF Rename, Commit
  <2>2. request[a].op \notin ImageOps /\ request' = [request EXCEPT ![a] = NoWrite]
    BY <1>1 DEF Rename, EndWrite, ImageOps
  <2> HIDE DEF v
  <2> QED BY <1>1, <1>2, <2>1, <2>2, WriteInv DEF ListedRow
<1> QED BY <1>3, <1>4 DEF Rename

\* A status is written.
LEMMA SetStatusInv ==
    ASSUME ListingsInv, NEW r \in Rows, NEW status \in Statuses, SetStatus(r, status)
    PROVE  ListingsInv'
<1> DEFINE v == [row[r] EXCEPT !.status = status]
<1>1. RowExists(r) /\ ListedRow(row[r])
  BY DEF SetStatus, ListingsInv, ListingsType
<1>2. DOMAIN v = RowFields /\ v.status = status /\ v.image = row[r].image
  BY <1>1 DEF ListedRow, RowFields
<1>3. row' = [row EXCEPT ![r] = v] /\ page' = None /\ UNCHANGED <<files, uploads, spoilt, shown, request>>
  BY DEF SetStatus, Commit
<1> HIDE DEF v
<1> QED BY <1>1, <1>2, <1>3, WriteInv

\* The public page is filled from the active rows.
LEMMA ListInv ==
    ASSUME ListingsInv,
           \/ \E isAdmin \in BOOLEAN : ListProducts(isAdmin)
           \/ \E p \in Products : GetProduct(p)
    PROVE  ListingsInv'
<1>1. UNCHANGED <<row, files, uploads, request, spoilt>>
  BY DEF ListProducts, GetProduct
<1>2. PublicPage'
  <2>1. ASSUME NEW p \in Products, GetProduct(p) PROVE PublicPage'
    BY <2>1 DEF GetProduct, ListingsInv, PublicPage
  <2>2. ListPaginated(FALSE) \subseteq {"active"}
    BY DEF ListPaginated
  <2>3. ASSUME NEW isAdmin \in BOOLEAN, ListProducts(isAdmin) PROVE PublicPage'
    BY <2>2, <2>3 DEF ListProducts, Cacheable, ListingsInv, PublicPage
  <2> QED BY <2>1, <2>3
<1> QED
  BY <1>1, <1>2 DEF ListingsInv, ListingsType, OwnFile, OneOwner, ShownImageExists, RowExists, ListedRow, RequestSound, Uploaded

\* A file is stored under a new path.
LEMMA UploadInv ==
    ASSUME ListingsInv, NEW a \in Requests, Upload(a)
    PROVE  ListingsInv'
<1> USE DEF ListingsInv
<1> DEFINE n == uploads + 1
<1>1. /\ request[a].op = "upload" /\ uploads' = n /\ files' = files \cup {n} /\ uploads \in Nat
      /\ UNCHANGED <<row, spoilt, page, shown>>
  BY DEF Upload, ListingsType
<1>2. \A b \in Requests \ {a} : request'[b] = request[b]
  BY DEF Upload, ListingsType
<1>3. /\ request'[a].op = "stored" /\ request'[a].path = n
      /\ request'[a].old = request[a].old /\ request'[a].row = request[a].row /\ DOMAIN request'[a] = ImageFields
  <2>1. DOMAIN request[a] = ImageFields
    BY <1>1 DEF ListingsType, RequestSound, ImageOps
  <2>2. request'[a] = [request[a] EXCEPT !.op = "stored", !.path = n]
    BY DEF Upload, ListingsType
  <2> QED BY <2>1, <2>2 DEF ImageFields
<1>4. /\ \A r \in Rows : RowExists(r) => row[r].image # n
      /\ \A b \in Requests : request[b].op \in ImageOps => request[b].old # n /\ request[b].path # n
  BY <1>1, NoneAssumption DEF ListingsType, ListedRow, RequestSound, Uploaded
<1>5. Uploaded \subseteq Uploaded' /\ n \in Uploaded'
  BY <1>1 DEF Uploaded
<1>6. ListingsType'
  <2>1. \A r \in Rows : RowExists(r)' => ListedRow(row[r])'
    BY <1>1, <1>5 DEF ListingsType, ListedRow, RowExists
  <2>2. \A b \in Requests \ {a} : RequestSound(request[b])'
    BY <1>1, <1>2, <1>5 DEF ListingsType, RequestSound, RowExists
  <2>3. RequestSound(request[a])'
    BY <1>1, <1>3, <1>5 DEF ListingsType, RequestSound, RowExists, ImageOps
  <2>4. request' = [b \in Requests |-> request'[b]] /\ row' = [r \in Rows |-> row'[r]]
    BY <1>1 DEF Upload, ListingsType
  <2> QED BY <1>1, <2>1, <2>2, <2>3, <2>4 DEF ListingsType
<1>7. OwnFile'
  <2>1. request[a].op \in ImageOps
    BY <1>1 DEF ImageOps
  <2>2. request'[a].path \in files' /\ (\A r \in Rows : RowExists(r)' => row'[r].image # request'[a].path)
    BY <1>1, <1>3, <1>4 DEF RowExists
  <2>3. \A b \in Requests : request'[b].op \in ImageOps => request'[b].old # request'[a].path /\ (request'[b].path = request'[a].path => b = a)
    BY <1>2, <1>3, <1>4, <2>1
  <2>4. ASSUME NEW c \in Requests \ {a}, request[c].op \in ImageOps /\ request[c].path # None
        PROVE  /\ request[c].path \in files' /\ \A r \in Rows : RowExists(r)' => row'[r].image # request[c].path
               /\ \A b \in Requests : request'[b].op \in ImageOps =>
                      request'[b].old # request[c].path /\ (request'[b].path = request[c].path => b = c)
    BY <1>1, <1>2, <1>3, <1>4, <2>1, <2>4 DEF OwnFile, RowExists
  <2> QED BY <1>2, <2>2, <2>3, <2>4 DEF OwnFile
<1>8. OneOwner'
  BY <1>1, <1>2, <1>3 DEF OneOwner, RowExists, ImageOps
<1>9. ShownImageExists'
  BY <1>1, <1>2, <1>3 DEF ShownImageExists, RowExists
<1> QED BY <1>1, <1>6, <1>7, <1>8, <1>9 DEF PublicPage

\* A request goes on or ends; the files it takes away are its own new one or the one it read first.
LEMMA ImageStepInv ==
    ASSUME ListingsInv, NEW a \in Requests, request[a].op \in ImageOps,
           UNCHANGED <<row, uploads, page, shown>>, request' = [request EXCEPT ![a] = request'[a]],
           \/ request'[a] = NoWrite
           \/ /\ request'[a].op \in ImageOps /\ DOMAIN request'[a] = ImageFields
              /\ request'[a].row = request[a].row /\ request'[a].old = request[a].old /\ request'[a].path = request[a].path,
           files' \subseteq files,
           \A f \in files \ files' : f = request[a].old \/ (f = request[a].path /\ request'[a] = NoWrite),
           request[a].old = None \/ request'[a].op = "dropped" \/ request[a].old \in spoilt' \/
               (request[a].op # "dropped" /\ (request[a].old \in files => request[a].old \in files')),
           spoilt \subseteq spoilt'
    PROVE  ListingsInv'
<1> USE DEF ListingsInv
<1>1. \A b \in Requests \ {a} : request'[b] = request[b]
  BY DEF ListingsType
<1>2. \A b \in Requests : request'[b].op \in ImageOps =>
          /\ request[b].op \in ImageOps
          /\ request'[b].row = request[b].row /\ request'[b].old = request[b].old /\ request'[b].path = request[b].path
  BY <1>1 DEF NoWrite, ImageOps
<1>3. ListingsType'
  <2>1. \A b \in Requests \ {a} : RequestSound(request[b])'
    BY <1>1 DEF ListingsType, RequestSound, RowExists, Uploaded
  <2>2. RequestSound(request[a])'
    BY DEF ListingsType, RequestSound, RowExists, Uploaded, ImageOps, NoWrite
  <2>3. request' = [b \in Requests |-> request'[b]]
    BY DEF ListingsType
  <2> QED BY <2>1, <2>2, <2>3 DEF ListingsType, RowExists, ListedRow, Uploaded
<1>4. OwnFile'
  <2> SUFFICES ASSUME NEW c \in Requests, request'[c].op \in ImageOps, request'[c].path # None
               PROVE  /\ request[c].path \in files'
                      /\ \A r \in Rows : RowExists(r) => row[r].image # request[c].path
                      /\ \A b \in Requests : request[b].op \in ImageOps =>
                             request[b].old # request[c].path /\ (request[b].path = request[c].path => b = c)
    BY <1>2 DEF OwnFile, RowExists
  <2>1. request[c].op \in ImageOps /\ request[c].path # None
    BY <1>2
  <2>2. c = a => request'[a] # NoWrite
    BY DEF NoWrite, ImageOps
  <2> QED BY <2>1, <2>2 DEF OwnFile
<1>5. OneOwner'
  BY <1>2 DEF OneOwner, RowExists
<1>6. ShownImageExists'
  <2> SUFFICES ASSUME NEW r \in Rows, RowExists(r), row[r].image # None
               PROVE  \/ row[r].image \in files' \cup spoilt'
                      \/ \E b \in Requests : request'[b].op = "dropped" /\ request'[b].row = r /\ request'[b].old = row[r].image
    BY DEF ShownImageExists, RowExists
  <2>1. row[r].image # request[a].path
    BY DEF OwnFile, ListingsType
  <2>2. row[r].image = request[a].old => r = request[a].row
    BY DEF OneOwner
  <2>3. CASE row[r].image \in files \cup spoilt
    BY <1>2, <2>1, <2>2, <2>3 DEF NoWrite, ImageOps
  <2>4. CASE \E b \in Requests : request[b].op = "dropped" /\ request[b].row = r /\ request[b].old = row[r].image
    BY <1>1, <1>2, <2>2, <2>4 DEF NoWrite, ImageOps
  <2> QED BY <2>3, <2>4 DEF ShownImageExists
<1> QED BY <1>3, <1>4, <1>5, <1>6 DEF PublicPage

\* The steps of an image request between its upload and its end.
LEMMA ImageStepsInv ==
    ASSUME ListingsInv, NEW a \in Requests,
           UpdateImage(a) \/ UpdateFails(a) \/ DeleteOldFile(a) \/ DeleteFails(a) \/ CommitFails(a)
    PROVE  ListingsInv'
<1>0. /\ request[a].op \in ImageOps /\ UNCHANGED <<row, uploads, page, shown>>
      /\ request' = [request EXCEPT ![a] = request'[a]]
  BY DEF UpdateImage, UpdateFails, DeleteOldFile, DeleteFails, CommitFails, EndWrite, ImageOps, ListingsInv, ListingsType
<1>1. DOMAIN request[a] = ImageFields
  BY <1>0 DEF ListingsInv, ListingsType, RequestSound
<1>2. CASE UpdateImage(a) \/ DeleteOldFile(a)
  <2>1. PICK op \in {"saved", "dropped"} : request'[a] = [request[a] EXCEPT !.op = op] /\ (DeleteOldFile(a) => op = "dropped")
    BY <1>2 DEF UpdateImage, DeleteOldFile, ListingsInv, ListingsType
  <2>2. /\ request'[a].op = op /\ DOMAIN request'[a] = ImageFields
        /\ request'[a].row = request[a].row /\ request'[a].old = request[a].old /\ request'[a].path = request[a].path
    BY <1>1, <2>1 DEF ImageFields
  <2>3. files' = files \/ (files' = files \ {request[a].old} /\ op = "dropped")
    BY <1>2, <2>1 DEF UpdateImage, DeleteOldFile, OldImage
  <2>4. spoilt' = spoilt /\ (UpdateImage(a) => request[a].op # "dropped" /\ files' = files)
    BY <1>2 DEF UpdateImage, DeleteOldFile
  <2> QED BY <1>0, <1>2, <2>1, <2>2, <2>3, <2>4, ImageStepInv DEF ImageOps
<1>3. CASE UpdateFails(a) \/ DeleteFails(a) \/ CommitFails(a)
  <2>1. request'[a] = NoWrite
    BY <1>3 DEF UpdateFails, DeleteFails, CommitFails, EndWrite, ListingsInv, ListingsType
  <2>2. files' \subseteq files /\ \A f \in files \ files' : f = request[a].path
    BY <1>3 DEF UpdateFails, DeleteFails, CommitFails
  <2>3. request[a].path # None => request[a].old # request[a].path
    BY <1>0 DEF ListingsInv, OwnFile
  <2>4. spoilt \subseteq spoilt' /\ (request[a].old = None \/ request[a].old \in spoilt' \/ (request[a].op # "dropped" /\ (request[a].old \in files => request[a].old \in files')))
    BY <1>3, <2>2, <2>3 DEF UpdateFails, DeleteFails, CommitFails
  <2> QED BY <1>0, <2>1, <2>2, <2>4, ImageStepInv
<1> QED BY <1>2, <1>3

\* The row takes the new image, and the old file goes.
LEMMA FinishImageInv ==
    ASSUME ListingsInv, NEW a \in Requests, FinishImage(a)
    PROVE  ListingsInv'
<1> USE DEF ListingsInv
<1>0. PICK r, p : r = request[a].row /\ p = request[a].path
  OBVIOUS
<1>1. request[a].op \in ImageOps /\ r \in Rows /\ RowExists(r) /\ ListedRow(row[r]) /\ p \in Uploaded
  BY <1>0 DEF FinishImage, ListingsType, RequestSound, ImageOps
<1>2. PICK v : v = [row[r] EXCEPT !.image = p]
  OBVIOUS
<1>3. DOMAIN v = RowFields /\ v.status = row[r].status /\ v.image = p
  BY <1>1, <1>2 DEF ListedRow, RowFields
<1>4. /\ row' = [row EXCEPT ![r] = v] /\ request' = [request EXCEPT ![a] = NoWrite] /\ page' = None
      /\ UNCHANGED <<files, uploads, spoilt, shown>>
  BY <1>0, <1>2 DEF FinishImage, Commit, EndWrite
<1>5. \A s \in Rows : row'[s] = IF s = r THEN v ELSE row[s]
  BY <1>4 DEF ListingsType
<1>6. \A b \in Requests : request'[b] = IF b = a THEN NoWrite ELSE request[b]
  BY <1>4 DEF ListingsType
<1>7. NoWrite.op \notin ImageOps /\ NoWrite.op \notin {"create", "rename"}
  BY DEF NoWrite, ImageOps
<1>8. \A s \in Rows : RowExists(s)' <=> RowExists(s)
  BY <1>1, <1>3, <1>5 DEF RowExists
<1>9. ListingsType'
  <2>1. Uploaded' = Uploaded
    BY <1>4 DEF Uploaded
  <2>2. \A s \in Rows : RowExists(s)' => ListedRow(row[s])'
    BY <1>1, <1>3, <1>5, <1>8, <2>1 DEF ListingsType, ListedRow
  <2>3. ASSUME NEW b \in Requests PROVE RequestSound(request[b])'
    BY <1>6, <1>7, <1>8, <2>1 DEF ListingsType, RequestSound
  <2>4. request' = [b \in Requests |-> request'[b]] /\ row' = [s \in Rows |-> row'[s]]
    BY <1>4 DEF ListingsType
  <2> QED BY <1>4, <2>2, <2>3, <2>4 DEF ListingsType
<1>10. p # None => /\ p \in files
                   /\ \A s \in Rows : RowExists(s) => row[s].image # p
                   /\ \A b \in Requests : request[b].op \in ImageOps => request[b].old # p /\ (request[b].path = p => b = a)
  BY <1>0, <1>1 DEF OwnFile
<1>11. OwnFile'
  <2> SUFFICES ASSUME NEW c \in Requests \ {a}, request[c].op \in ImageOps, request[c].path # None
               PROVE  /\ request[c].path \in files
                      /\ \A s \in Rows : RowExists(s) => row'[s].image # request[c].path
                      /\ \A b \in Requests \ {a} : request[b].op \in ImageOps =>
                             request[b].old # request[c].path /\ (request[b].path = request[c].path => b = c)
    BY <1>4, <1>6, <1>7, <1>8 DEF OwnFile
  <2> QED BY <1>3, <1>5, <1>10 DEF OwnFile
<1>12. OneOwner'
  <2>1. ASSUME NEW s \in Rows, NEW t \in Rows, RowExists(s), RowExists(t), row'[s].image = row'[t].image, row'[s].image # None
        PROVE  s = t
    BY <1>3, <1>5, <1>10, <2>1 DEF OneOwner
  <2>2. ASSUME NEW b \in Requests \ {a}, NEW s \in Rows, request[b].op \in ImageOps, request[b].old # None, RowExists(s),
               row'[s].image = request[b].old
        PROVE  s = request[b].row
    BY <1>3, <1>5, <1>10, <2>2 DEF OneOwner
  <2> QED BY <1>6, <1>7, <1>8, <2>1, <2>2 DEF OneOwner
<1>13. ShownImageExists'
  <2> SUFFICES ASSUME NEW s \in Rows, RowExists(s), row'[s].image # None
               PROVE  \/ row'[s].image \in files' \cup spoilt'
                      \/ \E b \in Requests : request'[b].op = "dropped" /\ request'[b].row = s /\ request'[b].old = row'[s].image
    BY <1>8 DEF ShownImageExists
  <2>1. CASE s = r
    BY <1>3, <1>4, <1>5, <1>10, <2>1
  <2>2. CASE s # r
    BY <1>0, <1>4, <1>5, <1>6, <2>2 DEF ShownImageExists
  <2> QED BY <2>1, <2>2
<1> QED BY <1>4, <1>9, <1>11, <1>12, <1>13 DEF PublicPage

\* Every step keeps the invariant.
LEMMA ListingsStep == ListingsInv /\ [ListingsNext]_listingsVars => ListingsInv'
<1> SUFFICES ASSUME ListingsInv, [ListingsNext]_listingsVars PROVE ListingsInv'
  OBVIOUS
<1>1. CASE CategoryEndpoints
  BY <1>1, CreateInv, UpdateCategoryInv, ReadForInv DEF CategoryEndpoints, UploadCategoryImage, DeleteCategoryImage, Rows
<1>2. CASE ProductEndpoints
  BY <1>2, CreateInv, ReadForInv DEF ProductEndpoints, UploadProductImage, DeleteProductImage, Rows
<1>3. ASSUME NEW a \in Requests, ImageStep(a) PROVE ListingsInv'
  BY <1>3, UploadInv, ImageStepsInv, FinishImageInv, EndInv DEF ImageStep, UploadFails
<1>4. ASSUME NEW c \in Categories, DeactivateCategory(c) \/ ReactivateCategory(c) PROVE ListingsInv'
  BY <1>4, SetStatusInv DEF DeactivateCategory, ReactivateCategory, Rows, Statuses
<1>5. ASSUME NEW p \in Products, ArchiveProduct(p) PROVE ListingsInv'
  BY <1>5, SetStatusInv DEF ArchiveProduct, Rows, Statuses
<1>6. CASE UNCHANGED listingsVars
  BY <1>6 DEF listingsVars, ListingsInv, ListingsType, OwnFile, OneOwner, ShownImageExists, PublicPage, RowExists, ListedRow,
              RequestSound, Uploaded
<1> QED BY <1>1, <1>2, <1>3, <1>4, <1>5, <1>6, RenameInv, InsertInv, ListInv DEF ListingsNext

\* The image a row names exists, and the public is shown active rows only, whatever image, status and listing requests
\* overlap or fail (category_service.py, product_service.py, image_service.py).
THEOREM ListingTrue ==
    /\ ListingsSpec => []ListingIsTrue
    /\ Spec => []Listings_ListingIsTrue
<1> DEFINE I == part = "listings" => ListingsInv
<1>1. ListingsInv => ListingIsTrue
  BY DEF ListingsInv, PublicPage, ListingIsTrue, PublicSeesActive
<1>2. Init => I
  BY ListingsInitInv DEF Init
<1>3. I /\ [Next]_vars => I'
  BY PartStep, ListingsStep
<1>4. I => Listings_ListingIsTrue
  BY <1>1 DEF Listings_ListingIsTrue
<1>5. ListingsSpec => []ListingIsTrue
  BY <1>1, ListingsInitInv, ListingsStep, PTL DEF ListingsSpec
<1>6. Spec => []Listings_ListingIsTrue
  <2> HIDE DEF I
  <2> QED BY <1>2, <1>3, <1>4, PTL DEF Spec
<1> QED BY <1>5, <1>6

-----------------------------------------------------------------------------
\* Division of numbers, with its remainder.
LEMMA Division ==
    ASSUME NEW a \in Nat, NEW d \in Nat, d > 0
    PROVE  a \div d \in Nat /\ a % d \in Nat /\ a % d < d /\ a = d * (a \div d) + (a % d)
  OBVIOUS

\* ProductOrder keep an order.
LEMMA ProductOrder ==
    ASSUME NEW a \in Nat, NEW b \in Nat, NEW c \in Nat
    PROVE  /\ a * b \in Nat
           /\ a <= b => a * c <= b * c /\ c * a <= c * b
           /\ c > 0 /\ c * a <= c * b => a <= b
           /\ c > 0 /\ c * a = c * b => a = b
<1>1. a * b \in Nat
  OBVIOUS
<1>2. a <= b => a * c <= b * c /\ c * a <= c * b
  OBVIOUS
<1>3. c > 0 /\ c * a <= c * b => a <= b
  OBVIOUS
<1>4. c > 0 /\ c * a = c * b => a = b
  OBVIOUS
<1> QED BY <1>1, <1>2, <1>3, <1>4


\* A share of the total before the leftover is dealt out, and what the division leaves of it.
Part(total, w) == [i \in DOMAIN w |-> (total * w[i]) \div Total(w)]
Rest(total, w) == [i \in DOMAIN w |-> (total * w[i]) % Total(w)]
Leftover(total, w) == total - Total(Part(total, w))

\* The lines that come before each when the leftover is dealt out.
Preceding(total, w) ==
    [i \in DOMAIN w |-> {j \in DOMAIN w : (total * w[j]) % Total(w) > (total * w[i]) % Total(w)
                                          \/ ((total * w[j]) % Total(w) = (total * w[i]) % Total(w) /\ j < i)}]

\* _allocate, in these words.
LEMMA AllocateIs ==
    ASSUME NEW total, NEW w
    PROVE  /\ DOMAIN Allocate(total, w) = DOMAIN w
           /\ \A i \in DOMAIN w : Allocate(total, w)[i] =
                IF total = 0 \/ Total(w) = 0 THEN 0
                ELSE Part(total, w)[i] + (IF Cardinality(Preceding(total, w)[i]) < Leftover(total, w) THEN 1 ELSE 0)
<1>1. DOMAIN Allocate(total, w) = DOMAIN w
  BY DEF Allocate
<1>2. ASSUME NEW i \in DOMAIN w
      PROVE  Allocate(total, w)[i] =
                IF total = 0 \/ Total(w) = 0 THEN 0
                ELSE Part(total, w)[i] + (IF Cardinality(Preceding(total, w)[i]) < Leftover(total, w) THEN 1 ELSE 0)
  BY Zenon DEF Allocate, Part, Preceding, Leftover
<1> QED BY <1>1, <1>2

\* The sum of a function with domain D.
LEMMA TotalIs == ASSUME NEW D, NEW f, DOMAIN f = D PROVE Total(f) = SumFunctionOnSet(f, D)
  BY DEF Total, SumFunction

\* The leftover is what the rests add up to, and fewer than the lines that have one.
LEMMA Leavings ==
    ASSUME NEW total \in Nat, NEW D \in SUBSET Nat, IsFiniteSet(D), NEW w \in [D -> Nat], Total(w) > 0
    PROVE  LET piece == Part(total, w)
               rest == Rest(total, w)
               left == Leftover(total, w)
               owed == {i \in D : rest[i] > 0}
           IN  /\ Total(w) \in Nat
               /\ piece \in [D -> Nat] /\ rest \in [D -> Nat]
               /\ \A i \in D : total * w[i] = Total(w) * piece[i] + rest[i] /\ rest[i] < Total(w)
               /\ left \in Nat /\ IsFiniteSet(owed) /\ left <= Cardinality(owed)
<1> DEFINE sum == Total(w)
           piece == Part(total, w)
           rest == Rest(total, w)
           left == Leftover(total, w)
           owed == {i \in D : rest[i] > 0}
           given == [i \in D |-> total * w[i]]
           whole == [i \in D |-> sum * piece[i]]
           one == [i \in D |-> IF i \in owed THEN 1 ELSE 0]
           most == [i \in D |-> sum * one[i]]
<1>1. sum = SumFunctionOnSet(w, D) /\ sum \in Nat /\ sum > 0
  BY TotalIs, SumNat
<1>2. piece \in [D -> Nat] /\ rest \in [D -> Nat] /\ \A i \in D : given[i] = sum * piece[i] + rest[i] /\ rest[i] < sum
  <2> SUFFICES ASSUME NEW i \in D
               PROVE  /\ (total * w[i]) \div sum \in Nat /\ (total * w[i]) % sum \in Nat /\ (total * w[i]) % sum < sum
                      /\ total * w[i] = sum * ((total * w[i]) \div sum) + ((total * w[i]) % sum)
    BY Zenon DEF Part, Rest
  <2>1. total * w[i] \in Nat
    BY ProductOrder
  <2> HIDE DEF sum
  <2> QED BY <1>1, <2>1, Division
<1> HIDE DEF sum, piece, rest, left
<1>3. \A i \in D : given[i] \in Nat /\ whole[i] \in Nat /\ most[i] \in Nat /\ one[i] \in Nat
  BY <1>1, <1>2, ProductOrder
<1>4. SumFunctionOnSet(given, D) = total * sum
  <2>1. \A i \in D : w[i] \in Int /\ given[i] = total * w[i]
    OBVIOUS
  <2>2. Times(given, total, w, D)
    BY <2>1 DEF Times
  <2> HIDE DEF given
  <2>3. SumFunctionOnSet(given, D) = total * SumFunctionOnSet(w, D)
    BY <2>2, SumScaled
  <2> QED BY <1>1, <2>3
<1>5. SumFunctionOnSet(whole, D) = sum * SumFunctionOnSet(piece, D) /\ SumFunctionOnSet(piece, D) \in Nat
  <2>1. \A i \in D : piece[i] \in Int /\ whole[i] = sum * piece[i]
    BY <1>2
  <2>2. Times(whole, sum, piece, D)
    BY <1>1, <2>1 DEF Times
  <2> HIDE DEF whole
  <2>3. SumFunctionOnSet(whole, D) = sum * SumFunctionOnSet(piece, D)
    BY <2>2, SumScaled
  <2> QED BY <1>2, <2>3, SumNat
<1>6. SumFunctionOnSet(given, D) = SumFunctionOnSet(whole, D) + SumFunctionOnSet(rest, D) /\ SumFunctionOnSet(rest, D) \in Nat
  <2>1. AddsTwo(given, whole, rest, D)
    BY <1>2, <1>3 DEF AddsTwo
  <2> HIDE DEF whole, given
  <2>2. SumFunctionOnSet(given, D) = SumFunctionOnSet(whole, D) + SumFunctionOnSet(rest, D)
    BY <2>1, SumPlus
  <2> QED BY <1>2, <2>2, SumNat
<1>7. left = total - SumFunctionOnSet(piece, D)
  BY <1>2, TotalIs DEF left, Leftover, piece
<1>8. sum * SumFunctionOnSet(piece, D) <= sum * total
  <2> DEFINE a == SumFunctionOnSet(piece, D)
             b == SumFunctionOnSet(rest, D)
  <2>1. a \in Nat /\ b \in Nat /\ total * sum = sum * a + b
    BY <1>4, <1>5, <1>6
  <2> HIDE DEF a, b
  <2>2. sum * a <= sum * total
    BY <1>1, <2>1
  <2> QED BY <2>2 DEF a
<1>9. left \in Nat
  BY <1>1, <1>5, <1>7, <1>8, ProductOrder
<1>10. SumFunctionOnSet(rest, D) = sum * left
  <2> DEFINE a == SumFunctionOnSet(piece, D)
             b == SumFunctionOnSet(rest, D)
  <2>1. a \in Nat /\ b \in Nat /\ total * sum = sum * a + b /\ left = total - a
    BY <1>4, <1>5, <1>6, <1>7
  <2> HIDE DEF a, b
  <2>2. b = sum * left
    BY <1>1, <2>1
  <2> QED BY <2>2 DEF b
<1>11. SumFunctionOnSet(one, D) = Cardinality(owed)
  <2>1. owed \in SUBSET D /\ \A i \in D : one[i] = IF i \in owed THEN 1 ELSE 0
    OBVIOUS
  <2> HIDE DEF one, owed
  <2> QED BY <2>1, SumOnes
<1>12. SumFunctionOnSet(most, D) = sum * SumFunctionOnSet(one, D)
  <2>1. \A i \in D : one[i] \in Int /\ most[i] = sum * one[i]
    BY <1>3
  <2>2. Times(most, sum, one, D)
    BY <1>1, <2>1 DEF Times
  <2> HIDE DEF most, one
  <2> QED BY <2>2, SumScaled
<1>13. SumFunctionOnSet(rest, D) <= SumFunctionOnSet(most, D)
  <2>1. \A i \in D : rest[i] \in Int /\ most[i] \in Int /\ rest[i] <= most[i]
    BY <1>1, <1>2, <1>3
  <2> HIDE DEF most
  <2> QED BY <2>1, SumMonotone
<1>14. IsFiniteSet(owed) /\ Cardinality(owed) \in Nat
  BY FS_Subset, FS_CardinalityType
<1>15. left <= Cardinality(owed)
  <2> DEFINE c == Cardinality(owed)
  <2>1. sum * left <= sum * c /\ c \in Nat
    BY <1>10, <1>11, <1>12, <1>13, <1>14
  <2> HIDE DEF c
  <2>2. left <= c
    BY <1>1, <1>9, <2>1, ProductOrder
  <2> QED BY <2>2 DEF c
<1> QED BY <1>1, <1>2, <1>9, <1>14, <1>15 DEF sum, piece, rest, left

\* The largest-remainder split of a total (_allocate): the shares add up to the total unless there is nothing to share it
\* over, and a total that is no larger than the weights leaves no share larger than its weight.
LEMMA AllocateRight ==
    ASSUME NEW total \in Nat, NEW D \in SUBSET Nat, IsFiniteSet(D), NEW w \in [D -> Nat]
    PROVE  /\ Allocate(total, w) \in [D -> Nat]
           /\ total = 0 \/ Total(w) > 0 => Total(Allocate(total, w)) = total
           /\ total <= Total(w) => \A i \in D : Allocate(total, w)[i] <= w[i]
<1> DEFINE shares == Allocate(total, w)
<1>1. DOMAIN shares = D /\ Total(shares) = SumFunctionOnSet(shares, D)
  BY AllocateIs, TotalIs
<1>2. Total(w) \in Nat
  BY TotalIs, SumNat
<1>3. CASE total = 0 \/ Total(w) = 0
  <2>1. \A i \in D : shares[i] = 0
    BY <1>3, AllocateIs
  <2>2. shares = [i \in D |-> 0]
    BY <1>1, <2>1 DEF Allocate
  <2>3. SumFunctionOnSet(shares, D) = 0
    <3> HIDE DEF shares
    <3> QED BY <2>1, SumZero
  <2> HIDE DEF shares
  <2>4. shares \in [D -> Nat] /\ \A i \in D : shares[i] <= w[i]
    BY <2>1, <2>2
  <2> QED BY <1>1, <1>2, <1>3, <2>3, <2>4 DEF shares
<1>4. CASE total > 0 /\ Total(w) > 0
  <2> DEFINE sum == Total(w)
             piece == Part(total, w)
             rest == Rest(total, w)
             left == Leftover(total, w)
             p == Preceding(total, w)
             owed == {i \in D : rest[i] > 0}
             first == {i \in D : Cardinality(p[i]) < left}
  <2>0. \A i \in D : total * w[i] = sum * piece[i] + rest[i]
    BY <1>4, Leavings
  <2>1. /\ sum \in Nat /\ sum > 0 /\ total > 0
        /\ piece \in [D -> Nat] /\ rest \in [D -> Nat]
        /\ left \in Nat /\ IsFiniteSet(owed) /\ left <= Cardinality(owed)
    BY <1>4, Leavings
  <2>2. \A i \in D : shares[i] = piece[i] + (IF Cardinality(p[i]) < left THEN 1 ELSE 0)
    BY <1>4, AllocateIs
  <2>3. DOMAIN p = D /\ \A i \in D : p[i] = {j \in D : rest[j] > rest[i] \/ (rest[j] = rest[i] /\ j < i)}
    BY Zenon DEF Preceding, Rest
  <2>4. left = total - SumFunctionOnSet(piece, D)
    BY <2>1, TotalIs DEF Leftover
  <2> HIDE DEF sum, piece, rest, left, p, shares
  <2>5. \A i, j \in D : j \in p[i] <=> (rest[j] > rest[i] \/ (rest[j] = rest[i] /\ j < i))
    BY <2>3
  <2>6. \A i \in D : p[i] \subseteq D /\ IsFiniteSet(p[i]) /\ Cardinality(p[i]) \in Nat
    BY <2>3, FS_Subset, FS_CardinalityType
  <2>7. left <= Cardinality(D)
    <3>1. Cardinality(owed) <= Cardinality(D) /\ Cardinality(owed) \in Nat /\ Cardinality(D) \in Nat
      BY <2>1, FS_Subset, FS_CardinalityType
    <3> HIDE DEF owed
    <3> QED BY <2>1, <3>1
  <2>8. Cardinality(first) = left
    <3>1. \A x \in D : p[x] \subseteq D /\ x \notin p[x]
      BY <2>1, <2>5, <2>6
    <3>2. \A x, y, z \in D : x \in p[y] /\ y \in p[z] => x \in p[z]
      BY <2>1, <2>5
    <3>3. ASSUME NEW x \in D, NEW y \in D, x # y PROVE x \in p[y] \/ y \in p[x]
      <4>1. x \in Nat /\ y \in Nat /\ rest[x] \in Nat /\ rest[y] \in Nat
        BY <2>1
      <4>2. /\ rest[x] > rest[y] \/ (rest[x] = rest[y] /\ x < y) => x \in p[y]
            /\ rest[y] > rest[x] \/ (rest[y] = rest[x] /\ y < x) => y \in p[x]
        BY <2>5
      <4> QED BY <3>3, <4>1, <4>2
    <3> QED BY <2>1, <2>7, <3>1, <3>2, <3>3, FirstMembers
  <2>9. \A i \in D : piece[i] \in Int /\ shares[i] = IF i \in first THEN piece[i] + 1 ELSE piece[i]
    BY <2>1, <2>2
  <2>10. shares \in [D -> Nat]
    <3>1. ASSUME NEW i \in D PROVE shares[i] \in Nat
      <4>1. piece[i] \in Nat
        BY <2>1
      <4>2. shares[i] = piece[i] + 1 \/ shares[i] = piece[i]
        BY <2>9
      <4> QED BY <4>1, <4>2
    <3>2. shares = [i \in D |-> shares[i]]
      BY <1>1 DEF shares, Allocate
    <3> QED BY <3>1, <3>2
  <2>11. SumFunctionOnSet(shares, D) = total
    <3> DEFINE one == [i \in D |-> IF i \in first THEN 1 ELSE 0]
    <3>1. first \in SUBSET D /\ \A i \in D : one[i] = IF i \in first THEN 1 ELSE 0
      OBVIOUS
    <3> HIDE DEF first, one
    <3>2. AddsTwo(shares, piece, one, D)
      BY <2>9, <3>1 DEF AddsTwo
    <3>3. SumFunctionOnSet(one, D) = Cardinality(first)
      BY <3>1, SumOnes
    <3>4. SumFunctionOnSet(shares, D) = SumFunctionOnSet(piece, D) + Cardinality(first)
      BY <3>2, <3>3, SumPlus
    <3>5. SumFunctionOnSet(piece, D) \in Nat
      BY <2>1, SumNat
    <3> QED BY <2>1, <2>4, <2>8, <3>4, <3>5
  <2>12. ASSUME total <= sum, NEW i \in D PROVE shares[i] <= w[i]
    <3>1. sum \in Nat /\ sum > 0 /\ piece[i] \in Nat /\ w[i] \in Nat /\ rest[i] \in Nat
      BY <2>1
    <3>2. total * w[i] = sum * piece[i] + rest[i]
      BY <2>0
    <3>3. total * w[i] <= sum * w[i]
      BY <3>1, <2>12, ProductOrder
    <3>4. piece[i] <= w[i]
      <4>1. sum * piece[i] \in Nat /\ sum * w[i] \in Nat /\ total * w[i] \in Nat
        BY <3>1, ProductOrder
      <4>2. sum * piece[i] <= sum * w[i]
        BY <3>1, <3>2, <3>3, <4>1
      <4> QED BY <3>1, <4>2, ProductOrder
    <3>5. CASE piece[i] < w[i]
      <4>1. shares[i] = piece[i] + 1 \/ shares[i] = piece[i]
        BY <2>9
      <4> QED BY <3>1, <3>5, <4>1
    <3>6. CASE piece[i] = w[i]
      <4>1. rest[i] = 0
        <5>1. total * w[i] = sum * w[i] + rest[i]
          BY <3>6, <3>2
        <5>2. sum * w[i] \in Nat
          BY <3>1, ProductOrder
        <5> QED BY <3>1, <3>3, <5>1, <5>2
      <4>2. owed \subseteq p[i]
        BY <2>1, <2>5, <4>1
      <4>3. Cardinality(owed) <= Cardinality(p[i])
        BY <2>6, <4>2, FS_Subset
      <4>4. ~(Cardinality(p[i]) < left)
        <5>1. Cardinality(owed) \in Nat /\ Cardinality(p[i]) \in Nat
          BY <2>1, <2>6, FS_CardinalityType
        <5> HIDE DEF owed
        <5> QED BY <2>1, <4>3, <5>1
      <4>5. shares[i] = piece[i] + 0
        BY <2>2, <4>4
      <4> QED BY <3>1, <3>6, <4>5
    <3> QED BY <3>1, <3>4, <3>5, <3>6
  <2> QED BY <1>1, <2>10, <2>11, <2>12 DEF shares, sum
<1> QED BY <1>2, <1>3, <1>4

\* The facts about the lines of a cart: finitely many, numbered, none below zero.
IsLines(D, values) == D \in SUBSET Nat /\ IsFiniteSet(D) /\ values \in [D -> Nat]

\* The carts are such lines.
LEMMA BasketLines ==
    ASSUME NEW b \in Baskets
    PROVE  IsLines(DOMAIN b, b) /\ \A i \in DOMAIN b : RateOf[i] \in Nat
<1>1. b \in Seq(Nat) /\ \A i \in DOMAIN b : RateOf[i] \in Nat
  BY BasketsAssumption
<1>2. DOMAIN b = 1 .. Len(b) /\ Len(b) \in Nat
  BY <1>1
<1>3. IsFiniteSet(1 .. Len(b))
  BY <1>2, FS_Interval
<1> QED BY <1>1, <1>2, <1>3 DEF IsLines

\* What is rounded is not below zero, and nothing is rounded to nothing.
LEMMA HalfUpNat ==
    ASSUME NEW n \in Nat, NEW d \in Nat, d > 0
    PROVE  HalfUp(n, d) \in Nat /\ (n = 0 => HalfUp(n, d) = 0)
<1>1. 2 * n + d \in Nat /\ 2 * d \in Nat /\ 2 * d > 0
  OBVIOUS
<1>2. (2 * n + d) \div (2 * d) \in Nat
  BY <1>1, Division
<1>3. d \div (2 * d) = 0
  <2> DEFINE q == d \div (2 * d)
             r == d % (2 * d)
  <2>1. q \in Nat /\ r \in Nat /\ d = (2 * d) * q + r
    BY <1>1, Division
  <2> HIDE DEF q, r
  <2>2. q = 0
    BY <2>1
  <2> QED BY <2>2 DEF q
<1>4. n = 0 => 2 * n + d = d
  OBVIOUS
<1> QED BY <1>2, <1>3, <1>4 DEF HalfUp

\* compute_discount: a coupon takes off no more than the goods cost.
LEMMA DiscountFits ==
    ASSUME NEW terms \in Terms, ValidTerms(terms), NEW subtotal \in Nat, NEW shipping
    PROVE  LET goods == ComputeDiscount(terms, subtotal, shipping).goods IN goods \in Nat /\ goods <= subtotal
<1>1. /\ terms.kind \in {"percentage", "fixed", "free_shipping"}
      /\ terms.percent \in Nat \cup {None} /\ terms.amount \in Nat \cup {None} /\ terms.cap \in Nat \cup {None}
  BY TermsAssumption
<1>2. CASE terms.kind = "percentage"
  <2> DEFINE raw == HalfUp(subtotal * terms.percent, 100)
             capped == IF terms.cap = None THEN raw ELSE AtMost(raw, terms.cap)
  <2>1. terms.percent \in Nat
    BY <1>1, <1>2 DEF ValidTerms
  <2>2. raw \in Nat
    BY <2>1, HalfUpNat, ProductOrder
  <2> HIDE DEF raw
  <2>3. capped \in Nat
    BY <1>1, <2>2 DEF AtMost
  <2>4. ComputeDiscount(terms, subtotal, shipping).goods = AtMost(capped, subtotal)
    BY <1>2 DEF ComputeDiscount, raw
  <2> HIDE DEF capped
  <2> QED BY <2>3, <2>4 DEF AtMost
<1>3. CASE terms.kind = "fixed"
  <2>1. terms.amount \in Nat
    BY <1>1, <1>3 DEF ValidTerms
  <2>2. ComputeDiscount(terms, subtotal, shipping).goods = AtMost(terms.amount, subtotal)
    BY <1>3 DEF ComputeDiscount
  <2> QED BY <2>1, <2>2 DEF AtMost
<1>4. CASE terms.kind = "free_shipping"
  BY <1>4 DEF ComputeDiscount
<1> QED BY <1>1, <1>2, <1>3, <1>4

\* _rates: no rate is below zero.
LEMMA RatesNat ==
    ASSUME NEW cfg \in Shops, NEW i, RateOf[i] \in Nat
    PROVE  \A k \in 1 .. 3 : Rates(cfg, i)[k] \in Nat
<1>1. cfg.intra \in BOOLEAN
  BY ShopsAssumption
<1>2. RateOf[i] \div 2 \in Nat
  OBVIOUS
<1> QED BY <1>1, <1>2 DEF Rates

\* _slab_tax, for the taxable value and the three taxes.
LEMMA SlabTaxNat ==
    ASSUME NEW cfg \in Shops, NEW value \in Nat, NEW rates, \A k \in 1 .. 3 : rates[k] \in Nat
    PROVE  \A k \in 1 .. 4 : SlabTax(cfg, value, rates)[k] \in Nat /\ (value = 0 => SlabTax(cfg, value, rates)[k] = 0)
<1> DEFINE all == rates[1] + rates[2] + rates[3]
           n == value * 1000
           d == 1000 + all
           taxable == IF cfg.mode = "exclusive" THEN value ELSE HalfUp(n, d)
           gst(k) == HalfUp(taxable * rates[k], 1000)
<1>1. n \in Nat /\ d \in Nat /\ d > 0 /\ (value = 0 => n = 0)
  OBVIOUS
<1>2. taxable \in Nat /\ (value = 0 => taxable = 0)
  <2> HIDE DEF n, d
  <2>1. HalfUp(n, d) \in Nat /\ (n = 0 => HalfUp(n, d) = 0)
    BY <1>1, HalfUpNat
  <2> QED BY <1>1, <2>1
<1>3. SlabTax(cfg, value, rates) = <<taxable, gst(1), gst(2), gst(3)>>
  BY DEF SlabTax
<1> HIDE DEF taxable
<1>4. ASSUME NEW k \in 1 .. 3 PROVE gst(k) \in Nat /\ (value = 0 => gst(k) = 0)
  <2> DEFINE m == taxable * rates[k]
  <2>1. m \in Nat /\ (value = 0 => m = 0)
    BY <1>2, ProductOrder
  <2> HIDE DEF m
  <2>2. HalfUp(m, 1000) \in Nat /\ (m = 0 => HalfUp(m, 1000) = 0)
    BY <2>1, HalfUpNat
  <2> QED BY <2>1, <2>2 DEF m
<1>5. /\ gst(1) \in Nat /\ gst(2) \in Nat /\ gst(3) \in Nat
      /\ value = 0 => gst(1) = 0 /\ gst(2) = 0 /\ gst(3) = 0
  <2>1. 1 \in 1 .. 3 /\ 2 \in 1 .. 3 /\ 3 \in 1 .. 3
    OBVIOUS
  <2> HIDE DEF gst
  <2> QED BY <1>4, <2>1
<1> HIDE DEF gst
<1>6. \A k \in 1 .. 4 : k = 1 \/ k = 2 \/ k = 3 \/ k = 4
  OBVIOUS
<1> QED BY <1>2, <1>3, <1>5, <1>6

\* What _allocate gives, for the lines of a cart.
LEMMA SharesAddUp ==
    ASSUME NEW total \in Nat, NEW D, NEW w, IsLines(D, w)
    PROVE  /\ Allocate(total, w) \in [D -> Nat]
           /\ Total(w) \in Nat /\ Total(w) = SumFunctionOnSet(w, D)
           /\ total = 0 \/ Total(w) > 0 => SumFunctionOnSet(Allocate(total, w), D) = total /\ Total(Allocate(total, w)) = total
           /\ total <= Total(w) => \A i \in D : Allocate(total, w)[i] <= w[i]
<1>1. D \in SUBSET Nat /\ IsFiniteSet(D) /\ w \in [D -> Nat]
  BY DEF IsLines
<1>2. Total(w) = SumFunctionOnSet(w, D) /\ SumFunctionOnSet(w, D) \in Nat
  BY <1>1, TotalIs, SumNat
<1>3. Allocate(total, w) \in [D -> Nat] /\ Total(Allocate(total, w)) = SumFunctionOnSet(Allocate(total, w), D)
  BY <1>1, AllocateRight, TotalIs
<1> QED BY <1>1, <1>2, <1>3, AllocateRight

\* Part k of the lines taxed like line i adds up to what was rounded for all of them.
Spread(cfg, gross, i, k) ==
    Total([j \in Slab(cfg, i, gross) |-> LineTax(cfg, j, gross)[k]])
      = SlabTax(cfg, Total(Restrict(gross, Slab(cfg, i, gross))), Rates(cfg, i))[k]

\* calculate: no part of a line is below zero, and what is rounded for all the lines of a rate is spread over them.
LEMMA LineTaxRight ==
    ASSUME NEW cfg \in Shops, NEW D, NEW gross, IsLines(D, gross), \A i \in D : RateOf[i] \in Nat, NEW i \in D, NEW k \in 1 .. 4
    PROVE  /\ LineTax(cfg, i, gross)[k] \in Nat
           /\ cfg.rounding = "invoice" => Spread(cfg, gross, i, k)
<1> DEFINE slab(j) == Slab(cfg, j, gross)
           members(j) == Restrict(gross, slab(j))
           whole(j) == SlabTax(cfg, Total(members(j)), Rates(cfg, j))
<1>1. D \in SUBSET Nat /\ IsFiniteSet(D) /\ gross \in [D -> Nat] /\ cfg.rounding \in {"line", "invoice"}
  BY ShopsAssumption DEF IsLines
<1>2. ASSUME NEW j \in D PROVE IsLines(slab(j), members(j)) /\ j \in slab(j)
  <2>1. slab(j) \in SUBSET D /\ j \in slab(j)
    BY <1>1 DEF Slab
  <2>2. IsFiniteSet(slab(j))
    BY <1>1, <2>1, FS_Subset
  <2> HIDE DEF slab
  <2> QED BY <1>1, <2>1, <2>2 DEF IsLines, Restrict
<1>3. ASSUME NEW j \in D PROVE whole(j)[k] \in Nat /\ (whole(j)[k] = 0 \/ Total(members(j)) > 0) /\ SlabTax(cfg, gross[j], Rates(cfg, j))[k] \in Nat
  <2>1. \A n \in 1 .. 3 : Rates(cfg, j)[n] \in Nat
    BY RatesNat
  <2>2. Total(members(j)) \in Nat
    <3> HIDE DEF members, slab
    <3> QED BY <1>2, SharesAddUp
  <2>3. gross[j] \in Nat
    BY <1>1
  <2> HIDE DEF members, slab
  <2>4. whole(j)[k] \in Nat /\ (Total(members(j)) = 0 => whole(j)[k] = 0)
    BY <2>1, <2>2, SlabTaxNat
  <2>5. SlabTax(cfg, gross[j], Rates(cfg, j))[k] \in Nat
    BY <2>1, <2>3, SlabTaxNat
  <2> QED BY <2>2, <2>4, <2>5
<1>4. CASE cfg.rounding = "line"
  <2>1. LineTax(cfg, i, gross) = SlabTax(cfg, gross[i], Rates(cfg, i))
    BY <1>4 DEF LineTax
  <2> QED BY <1>3, <1>4, <2>1
<1>5. CASE cfg.rounding = "invoice"
  <2>1. ASSUME NEW j \in D PROVE LineTax(cfg, j, gross)[k] = Allocate(whole(j)[k], members(j))[j]
    BY <1>5 DEF LineTax
  <2> DEFINE shares == Allocate(whole(i)[k], members(i))
  <2>2. shares \in [slab(i) -> Nat] /\ SumFunctionOnSet(shares, slab(i)) = whole(i)[k]
    <3> HIDE DEF members, slab, whole
    <3> QED BY <1>2, <1>3, SharesAddUp
  <2>3. LineTax(cfg, i, gross)[k] \in Nat
    <3> HIDE DEF members, slab, whole
    <3> QED BY <1>2, <2>1, <2>2
  <2>4. ASSUME NEW j \in slab(i) PROVE LineTax(cfg, j, gross)[k] = shares[j]
    <3>1. j \in D /\ Rates(cfg, j) = Rates(cfg, i)
      BY <1>1 DEF Slab
    <3>2. slab(j) = slab(i)
      BY <3>1 DEF Slab
    <3>3. members(j) = members(i)
      BY <3>2
    <3>4. whole(j) = whole(i)
      BY <3>1, <3>3
    <3> HIDE DEF members, whole, slab
    <3> QED BY <2>1, <3>1, <3>3, <3>4
  <2> DEFINE given == [j \in slab(i) |-> LineTax(cfg, j, gross)[k]]
  <2>5. Total(given) = SumFunctionOnSet(given, slab(i))
    BY TotalIs
  <2>6. \A j \in slab(i) : shares[j] \in Int /\ given[j] = shares[j]
    <3> HIDE DEF members, whole, slab, shares
    <3> QED BY <2>2, <2>4
  <2>7. IsFiniteSet(slab(i))
    BY <1>2 DEF IsLines
  <2> HIDE DEF shares, given, slab
  <2>8. SumFunctionOnSet(given, slab(i)) = SumFunctionOnSet(shares, slab(i))
    BY <2>6, <2>7, SumSame
  <2>9. Total(given) = whole(i)[k]
    BY <2>2, <2>5, <2>8
  <2> QED BY <2>3, <2>9 DEF given, slab, Spread
<1> QED BY <1>1, <1>4, <1>5

\* What a tax result of lines worth goods says, as AmountsAddUp asks of an order's.
TaxAddsUp(cfg, gst, goods, shipping) ==
    /\ gst.added \in Int
    /\ goods > 0 => Total(gst.gross) + gst.untaxed = goods + shipping
    /\ Total(gst.gross) \in Int /\ gst.untaxed \in Int
    /\ cfg.mode = "inclusive" =>
          Total(gst.gross) = gst.roundOff + Total([i \in DOMAIN gst.lines |-> gst.lines[i][1] + TaxOf(gst.lines[i])])
    /\ cfg.rounding = "invoice" =>
          \A i \in DOMAIN gst.lines : LET slab == Slab(cfg, i, gst.gross) IN \A k \in 1 .. 4 :
              Total([j \in slab |-> gst.lines[j][k]]) = SlabTax(cfg, Total(Restrict(gst.gross, slab)), Rates(cfg, i))[k]

\* calculate: shipping is spread or stays whole, and the parts of the lines add up.
LEMMA CalculateRight ==
    ASSUME NEW cfg \in Shops, NEW D, NEW values, IsLines(D, values), \A i \in D : RateOf[i] \in Nat, NEW shipping \in Nat
    PROVE  TaxAddsUp(cfg, Calculate(cfg, values, shipping), Total(values), shipping)
<1> DEFINE gst == Calculate(cfg, values, shipping)
           taxed == cfg.shippingTaxed /\ shipping # 0
           shipped == IF taxed THEN Allocate(shipping, values) ELSE [i \in D |-> 0]
           gross == [i \in D |-> values[i] + shipped[i]]
           lines == [i \in D |-> LineTax(cfg, i, gross)]
           due == [i \in D |-> TaxOf(lines[i])]
           rounded == [i \in D |-> gross[i] - lines[i][1] - TaxOf(lines[i])]
           parts == [i \in D |-> lines[i][1] + TaxOf(lines[i])]
<1>1. D \in SUBSET Nat /\ IsFiniteSet(D) /\ values \in [D -> Nat] /\ DOMAIN values = D
  BY DEF IsLines
<1>2. Total(values) \in Nat /\ Total(values) = SumFunctionOnSet(values, D)
  BY SharesAddUp
<1>3. /\ gst.gross = gross /\ gst.lines = lines /\ gst.untaxed = IF taxed THEN 0 ELSE shipping
      /\ gst.added = IF cfg.mode = "exclusive" THEN Total(due) ELSE 0
      /\ gst.roundOff = IF cfg.mode = "exclusive" THEN 0 ELSE Total(rounded)
  BY <1>1, Zenon DEF Calculate
<1>4. shipped \in [D -> Nat] /\ (Total(values) > 0 => SumFunctionOnSet(shipped, D) = IF taxed THEN shipping ELSE 0)
  <2>1. CASE taxed
    <3>1. shipped = Allocate(shipping, values)
      BY <2>1
    <3> HIDE DEF shipped
    <3> QED BY <2>1, <3>1, SharesAddUp
  <2>2. CASE ~taxed
    <3>1. shipped = [i \in D |-> 0]
      BY <2>2
    <3> HIDE DEF shipped
    <3>2. SumFunctionOnSet(shipped, D) = 0
      BY <1>1, <3>1, SumZero
    <3> QED BY <2>2, <3>1, <3>2
  <2> QED BY <2>1, <2>2
<1> HIDE DEF gst, shipped
<1>5. gross \in [D -> Nat] /\ AddsTwo(gross, values, shipped, D)
  BY <1>1, <1>4 DEF AddsTwo
<1>6. IsLines(D, gross) /\ DOMAIN gross = D
  BY <1>1, <1>5 DEF IsLines
<1> HIDE DEF gross
<1>7. Total(gross) = SumFunctionOnSet(gross, D) /\ Total(gross) \in Nat
  BY <1>6, SharesAddUp
<1>8. SumFunctionOnSet(gross, D) = SumFunctionOnSet(values, D) + SumFunctionOnSet(shipped, D)
  BY <1>1, <1>5, SumPlus
<1>9. ASSUME NEW i \in D PROVE \A k \in 1 .. 4 : lines[i][k] \in Nat
  <2>1. lines[i] = LineTax(cfg, i, gross)
    OBVIOUS
  <2>2. \A k \in 1 .. 4 : LineTax(cfg, i, gross)[k] \in Nat
    BY <1>6, LineTaxRight
  <2> HIDE DEF lines
  <2> QED BY <2>1, <2>2
<1>10. DOMAIN lines = D
  OBVIOUS
<1>11. ASSUME cfg.rounding = "invoice", NEW i \in D, NEW k \in 1 .. 4
       PROVE  Total([j \in Slab(cfg, i, gross) |-> lines[j][k]])
                = SlabTax(cfg, Total(Restrict(gross, Slab(cfg, i, gross))), Rates(cfg, i))[k]
  <2>1. \A j \in Slab(cfg, i, gross) : lines[j] = LineTax(cfg, j, gross)
    BY <1>6 DEF Slab
  <2>2. [j \in Slab(cfg, i, gross) |-> lines[j][k]] = [j \in Slab(cfg, i, gross) |-> LineTax(cfg, j, gross)[k]]
    <3> HIDE DEF lines
    <3> QED BY <2>1, Zenon
  <2>3. Total([j \in Slab(cfg, i, gross) |-> LineTax(cfg, j, gross)[k]])
          = SlabTax(cfg, Total(Restrict(gross, Slab(cfg, i, gross))), Rates(cfg, i))[k]
    <3>1. Spread(cfg, gross, i, k)
      BY <1>6, <1>11, LineTaxRight
    <3> QED BY <3>1 DEF Spread
  <2> HIDE DEF lines
  <2> QED BY <2>2, <2>3
<1> HIDE DEF lines
<1>12. \A i \in D : TaxOf(lines[i]) \in Int /\ lines[i][1] \in Int
  <2> SUFFICES ASSUME NEW i \in D PROVE TaxOf(lines[i]) \in Int /\ lines[i][1] \in Int
    OBVIOUS
  <2>1. 1 \in 1 .. 4 /\ 2 \in 1 .. 4 /\ 3 \in 1 .. 4 /\ 4 \in 1 .. 4
    OBVIOUS
  <2>2. lines[i][1] \in Nat /\ lines[i][2] \in Nat /\ lines[i][3] \in Nat /\ lines[i][4] \in Nat
    BY <1>9, <2>1
  <2> QED BY <2>2 DEF TaxOf
<1>13. Total(due) \in Int
  <2>1. DOMAIN due = D /\ \A i \in D : due[i] \in Int
    BY <1>12
  <2> HIDE DEF due
  <2> QED BY <1>1, <2>1, TotalIs, SumInt
<1>14. Total(gross) = Total(rounded) + Total(parts)
  <2>1. AddsTwo(gross, rounded, parts, D) /\ DOMAIN rounded = D /\ DOMAIN parts = D
    <3>1. \A i \in D : gross[i] \in Int
      BY <1>5
    <3> QED BY <1>12, <3>1 DEF AddsTwo
  <2> HIDE DEF rounded, parts
  <2>2. SumFunctionOnSet(gross, D) = SumFunctionOnSet(rounded, D) + SumFunctionOnSet(parts, D)
    BY <1>1, <2>1, SumPlus
  <2> QED BY <1>7, <2>1, <2>2, TotalIs
<1> HIDE DEF due, rounded
<1>15. gst.added \in Int /\ gst.untaxed \in Int /\ Total(gst.gross) \in Int
  BY <1>3, <1>7, <1>13
<1>16. Total(values) > 0 => Total(gst.gross) + gst.untaxed = Total(values) + shipping
  BY <1>2, <1>3, <1>4, <1>7, <1>8
<1>17. cfg.mode = "inclusive" =>
          Total(gst.gross) = gst.roundOff + Total([i \in DOMAIN gst.lines |-> gst.lines[i][1] + TaxOf(gst.lines[i])])
  <2>1. [i \in DOMAIN gst.lines |-> gst.lines[i][1] + TaxOf(gst.lines[i])] = parts
    BY <1>3, <1>10
  <2> HIDE DEF parts
  <2> QED BY <1>3, <1>14, <2>1
<1>18. cfg.rounding = "invoice" =>
          \A i \in DOMAIN gst.lines : \A k \in 1 .. 4 :
              Total([j \in Slab(cfg, i, gst.gross) |-> gst.lines[j][k]])
                = SlabTax(cfg, Total(Restrict(gst.gross, Slab(cfg, i, gst.gross))), Rates(cfg, i))[k]
  BY <1>3, <1>10, <1>11
<1> QED BY <1>15, <1>16, <1>17, <1>18 DEF gst, TaxAddsUp

\* FlatInterimTaxEngine.calculate: one rate on the goods.
LEMMA FlatTaxRight ==
    ASSUME NEW cfg \in Shops, cfg.mode = "flat", NEW net \in Nat, NEW shipping \in Nat
    PROVE  TaxAddsUp(cfg, FlatTax(cfg, net, shipping), net, shipping)
<1>1. cfg.flatRate \in Nat
  BY ShopsAssumption
<1> DEFINE n == net * cfg.flatRate
<1>2. n \in Nat
  BY <1>1, ProductOrder
<1>3. HalfUp(n, 1000) \in Nat
  <2> HIDE DEF n
  <2> QED BY <1>2, HalfUpNat
<1> DEFINE gross == <<net>>
<1>4. DOMAIN gross = {1} /\ gross[1] = net
  OBVIOUS
<1> HIDE DEF gross
<1>5. Total(gross) = net
  <2>1. IsFiniteSet({1}) /\ {1} \ {1} = {} /\ IsFiniteSet({})
    BY FS_Singleton, FS_EmptySet
  <2>2. SumFunctionOnSet(gross, {1}) = gross[1] + SumFunctionOnSet(gross, {1} \ {1})
    BY <1>4, <2>1, SumTaken
  <2>3. SumFunctionOnSet(gross, {}) = 0
    BY <2>1, SumInt
  <2> QED BY <1>4, <2>1, <2>2, <2>3, TotalIs
<1> DEFINE gst == FlatTax(cfg, net, shipping)
<1>6. gst.gross = gross /\ gst.lines = << >> /\ gst.untaxed = shipping /\ gst.added = HalfUp(n, 1000)
  BY DEF FlatTax, gross
<1> HIDE DEF n, gst
<1>7. DOMAIN gst.lines = {}
  BY <1>6
<1> QED BY <1>3, <1>5, <1>6, <1>7 DEF TaxAddsUp, gst

\* The terms an order may rest on: those of a coupon that was accepted, or none.
CouponTerms == {t \in Terms : ValidTerms(t)}
GivenTerms == CouponTerms \cup {NoCoupon}

\* A shop that is configured charges shipping, or not.
LEMMA ShippingNat ==
    ASSUME NEW cfg \in Shops, cfg.flat # None, NEW amount PROVE Shipping(cfg, amount) \in Nat
  BY ShopsAssumption DEF Shipping

\* The discount and its shares fit the lines.
LEMMA DiscountShared ==
    ASSUME NEW cfg \in Shops, NEW D, NEW values, IsLines(D, values), NEW terms \in GivenTerms
    PROVE  LET goods == DiscountOf(cfg, values, terms).goods
               shares == SharesOf(values, goods)
           IN  /\ Total(values) \in Nat /\ goods \in Nat /\ goods <= Total(values)
               /\ shares \in [D -> Nat] /\ Total(shares) = goods /\ \A i \in D : shares[i] <= values[i]
               /\ IsLines(D, Net(values, shares)) /\ Total(Net(values, shares)) = Total(values) - goods
<1> DEFINE goods == DiscountOf(cfg, values, terms).goods
           shares == SharesOf(values, goods)
           net == Net(values, shares)
<1>1. D \in SUBSET Nat /\ IsFiniteSet(D) /\ values \in [D -> Nat] /\ DOMAIN values = D
  BY DEF IsLines
<1>2. Total(values) \in Nat /\ Total(values) = SumFunctionOnSet(values, D)
  BY SharesAddUp
<1>3. goods \in Nat /\ goods <= Total(values)
  <2>1. CASE terms = NoCoupon
    BY <1>2, <2>1 DEF DiscountOf
  <2>2. CASE terms # NoCoupon
    <3>1. terms \in Terms /\ ValidTerms(terms)
      BY <2>2 DEF GivenTerms, CouponTerms
    <3>2. goods = ComputeDiscount(terms, Total(values), Shipping(cfg, Total(values))).goods
      BY <2>2 DEF DiscountOf
    <3> HIDE DEF goods
    <3> QED BY <1>2, <3>1, <3>2, DiscountFits
  <2> QED BY <2>1, <2>2
<1> HIDE DEF goods
<1>4. shares \in [D -> Nat] /\ SumFunctionOnSet(shares, D) = goods /\ \A i \in D : shares[i] <= values[i]
  <2>1. CASE goods # 0
    <3>1. shares = Allocate(goods, values)
      BY <2>1 DEF SharesOf, ShareDiscount
    <3>2. Total(values) > 0
      BY <1>2, <1>3, <2>1
    <3> HIDE DEF shares
    <3> QED BY <1>3, <3>1, <3>2, SharesAddUp
  <2>2. CASE goods = 0
    <3>1. shares = [i \in D |-> 0]
      BY <1>1, <2>2 DEF SharesOf, NoShares
    <3> HIDE DEF shares
    <3>2. \A i \in D : shares[i] = 0
      BY <3>1
    <3>3. SumFunctionOnSet(shares, D) = 0
      BY <1>1, <3>2, SumZero
    <3> QED BY <1>1, <2>2, <3>1, <3>2, <3>3
  <2> QED BY <2>1, <2>2
<1> HIDE DEF shares
<1>5. Total(shares) = goods
  BY <1>4, TotalIs
<1>6. net \in [D -> Nat] /\ AddsTwo(values, net, shares, D)
  <2>1. net = [i \in D |-> values[i] - shares[i]]
    BY <1>1 DEF Net
  <2> HIDE DEF net
  <2> QED BY <1>1, <1>4, <2>1 DEF AddsTwo
<1> HIDE DEF net
<1>7. IsLines(D, net)
  BY <1>1, <1>6 DEF IsLines
<1>8. Total(net) \in Nat /\ Total(net) = SumFunctionOnSet(net, D)
  BY <1>7, SharesAddUp
<1>9. SumFunctionOnSet(values, D) = SumFunctionOnSet(net, D) + SumFunctionOnSet(shares, D)
  BY <1>1, <1>6, SumPlus
<1>10. Total(net) = Total(values) - goods
  BY <1>2, <1>3, <1>4, <1>8, <1>9
<1> QED BY <1>2, <1>3, <1>4, <1>5, <1>7, <1>10 DEF goods, shares, net

\* checkout and quote: the amounts of an order add up, and the quote of the same cart under the same terms is its total.
LEMMA ChargeRight ==
    ASSUME NEW cfg \in Shops, cfg.flat # None, NEW b \in Baskets, NEW terms \in GivenTerms
    PROVE  AddsUp(cfg, Charge(cfg, b, terms)) /\ Charge(cfg, b, terms).total = QuoteTotal(cfg, b, terms)
<1> DEFINE D == DOMAIN b
           subtotal == Total(b)
           goods == DiscountOf(cfg, b, terms).goods
           shares == SharesOf(b, goods)
           net == Net(b, shares)
           shipping == IF terms = NoCoupon THEN Shipping(cfg, subtotal)
                       ELSE IF goods # 0 THEN Shipping(cfg, subtotal - goods) ELSE 0
           quoting == IF terms # NoCoupon /\ goods = 0 THEN 0 ELSE QuoteShipping(cfg, subtotal, goods)
           gst == CalculateTax(cfg, net, shipping)
           o == Charge(cfg, b, terms)
<1>1. IsLines(D, b) /\ \A i \in D : RateOf[i] \in Nat
  BY BasketLines
<1>2. /\ subtotal \in Nat /\ goods \in Nat /\ goods <= subtotal
      /\ shares \in [D -> Nat] /\ Total(shares) = goods /\ \A i \in D : shares[i] <= b[i]
      /\ IsLines(D, net) /\ Total(net) = subtotal - goods
  BY <1>1, DiscountShared
<1>3. /\ o.shares = shares /\ o.discount = goods /\ o.values = b /\ o.tax = gst
      /\ o.total = subtotal - goods + shipping + gst.added
  BY DEF Charge
<1>4. QuoteTotal(cfg, b, terms) = subtotal - goods + quoting + CalculateTax(cfg, net, quoting).added
  BY DEF QuoteTotal
<1>5. terms = NoCoupon => goods = 0
  BY DEF DiscountOf
<1> HIDE DEF subtotal, goods, shares, net, o
<1>6. shipping \in Nat
  BY ShippingNat
<1>7. quoting = shipping
  <2>1. goods = 0 => subtotal - goods = subtotal
    BY <1>2
  <2> QED BY <1>5, <2>1 DEF QuoteShipping
<1>8. QuoteTotal(cfg, b, terms) = o.total
  <2> HIDE DEF quoting, shipping
  <2> QED BY <1>3, <1>4, <1>7
<1> HIDE DEF shipping, quoting
<1>9. TaxAddsUp(cfg, gst, subtotal - goods, shipping)
  <2>1. CASE cfg.mode = "flat"
    <3>1. gst = FlatTax(cfg, Total(net), shipping)
      BY <2>1 DEF CalculateTax
    <3>2. Total(net) \in Nat
      BY <1>2
    <3> HIDE DEF gst
    <3>3. TaxAddsUp(cfg, gst, Total(net), shipping)
      BY <1>6, <2>1, <3>1, <3>2, FlatTaxRight
    <3> QED BY <1>2, <3>3
  <2>2. CASE cfg.mode # "flat"
    <3>1. gst = Calculate(cfg, net, shipping)
      BY <2>2 DEF CalculateTax
    <3> HIDE DEF gst
    <3>2. TaxAddsUp(cfg, gst, Total(net), shipping)
      BY <1>1, <1>2, <1>6, <3>1, CalculateRight
    <3> QED BY <1>2, <3>2
  <2> QED BY <2>1, <2>2
<1> HIDE DEF gst
<1>10. Total(o.values) > o.discount => Accounted(o)
  <2>1. ASSUME subtotal > goods PROVE o.total = Total(gst.gross) + gst.untaxed + gst.added
    <3>1. Total(gst.gross) \in Int /\ gst.untaxed \in Int /\ gst.added \in Int
      BY <1>9 DEF TaxAddsUp
    <3>2. subtotal - goods > 0
      BY <1>2, <2>1
    <3>3. Total(gst.gross) + gst.untaxed = subtotal - goods + shipping
      BY <1>9, <3>2 DEF TaxAddsUp
    <3> QED BY <1>2, <1>3, <1>6, <3>1, <3>3
  <2> QED BY <1>3, <2>1 DEF Accounted, subtotal
<1>11. Total(o.shares) = o.discount /\ \A i \in DOMAIN o.values : 0 <= o.shares[i] /\ o.shares[i] <= o.values[i]
  BY <1>2, <1>3
<1>12. AddsUp(cfg, o)
  BY <1>3, <1>9, <1>10, <1>11 DEF AddsUp, TaxAddsUp
<1> QED BY <1>8, <1>12 DEF o

\* The orders a shop can have made of a cart: what checkout charges under the terms they record.
Ended(o) == [o EXCEPT !.alive = FALSE]
Priced(cfg, b) == {Charge(cfg, b, t) : t \in GivenTerms} \cup {Ended(Charge(cfg, b, t)) : t \in GivenTerms}

CouponRows == [terms : CouponTerms, minimum : Minimums, limit : {1, None}, active : BOOLEAN, running : BOOLEAN]

\* Orders and quote follow from cart, shop and the terms they rest on alone.
PricingInv ==
    /\ basket \in Baskets /\ shop \in Shops
    /\ coupon \in CouponRows \cup {None}
    /\ charged \in Seq(Priced(shop, basket))
    /\ charged # << >> => Configured
    /\ quoted # None => Configured /\ quoted.terms \in GivenTerms /\ quoted.total = QuoteTotal(shop, basket, quoted.terms)
    /\ UsedTermsKept

\* A coupon's row is not NULL.
LEMMA RowIsNotNone == ASSUME NEW new \in CouponRows PROVE new # None
  BY NoCouponIsNone DEF CouponRows, CouponTerms

\* Two orders with the same amounts.
SameAmounts(o, c) ==
    /\ o.terms = c.terms /\ o.values = c.values /\ o.shares = c.shares /\ o.discount = c.discount
    /\ o.tax = c.tax /\ o.total = c.total

\* What checkout charges under terms t.
IsCharge(c, cfg, b, t) == c = Charge(cfg, b, t)

\* Ending an order changes only whether it is alive.
LEMMA OrderFields ==
    ASSUME NEW cfg, NEW b, NEW t, NEW c, IsCharge(c, cfg, b, t)
    PROVE  c.terms = t /\ ~Ended(c).alive /\ SameAmounts(Ended(c), c) /\ SameAmounts(c, c)
<1>1. PICK v, s, d, h, x, n :
        c = [terms |-> t, values |-> v, shares |-> s, discount |-> d, shipping |-> h, tax |-> x, total |-> n, alive |-> TRUE]
  BY Zenon DEF Charge, IsCharge
<1> QED BY <1>1 DEF Ended, SameAmounts

\* The invariant says what the property says.
LEMMA PricingInvRight == ASSUME PricingInv PROVE AmountsAreRight
<1>1. ASSUME NEW n \in DOMAIN charged
      PROVE  /\ AddsUp(shop, charged[n]) /\ charged[n].terms \in GivenTerms
             /\ charged[n].total = QuoteTotal(shop, basket, charged[n].terms)
  <2> DEFINE o == charged[n]
  <2>1. PICK t \in GivenTerms : o = Charge(shop, basket, t) \/ o = Ended(Charge(shop, basket, t))
    <3>1. o \in Priced(shop, basket)
      BY DEF PricingInv
    <3> QED BY <3>1 DEF Priced
  <2>2. shop \in Shops /\ shop.flat # None /\ basket \in Baskets
    <3>1. charged # << >>
      BY DEF PricingInv
    <3> QED BY <3>1 DEF PricingInv, Configured
  <2>3. PICK c : c = Charge(shop, basket, t)
    OBVIOUS
  <2>4. AddsUp(shop, c) /\ c.total = QuoteTotal(shop, basket, t)
    BY <2>2, <2>3, ChargeRight
  <2> HIDE DEF o
  <2>5. SameAmounts(o, c) /\ c.terms = t
    <3>1. IsCharge(c, shop, basket, t)
      BY <2>3 DEF IsCharge
    <3>2. c.terms = t /\ SameAmounts(Ended(c), c) /\ SameAmounts(c, c)
      BY <3>1, OrderFields
    <3>3. o = c \/ o = Ended(c)
      BY <2>1, <2>3
    <3> QED BY <3>2, <3>3
  <2>6. AddsUp(shop, c) => AddsUp(shop, o)
    BY <2>5 DEF AddsUp, Accounted, SameAmounts
  <2> QED BY <2>4, <2>5, <2>6 DEF o, SameAmounts
<1>2. AmountsAddUp
  BY <1>1 DEF AmountsAddUp
<1>3. QuoteIsCharged
  BY <1>1 DEF QuoteIsCharged, PricingInv
<1> QED BY <1>2, <1>3 DEF AmountsAreRight, PricingInv

\* Before the first order.
LEMMA PricingInitInv == ASSUME PricingInit PROVE PricingInv
  BY DEF PricingInit, PricingInv, UsedTermsKept

\* A coupon that changes with its terms has not been used.
LEMMA CouponSet ==
    ASSUME PricingInv, NEW new \in CouponRows \cup {None}, SetCoupon(new),
           ~EverUsed \/ (coupon # None /\ new # None /\ new.terms = coupon.terms)
    PROVE  PricingInv'
<1>1. UNCHANGED <<basket, shop, quoted, charged>> /\ coupon' = new
  BY DEF SetCoupon
<1>2. UsedTermsKept'
  BY <1>1 DEF PricingInv, UsedTermsKept, EverUsed
<1> QED BY <1>1, <1>2 DEF PricingInv, Configured

\* Every step keeps the invariant.
LEMMA PricingStep == ASSUME PricingInv, [PricingNext]_pricingVars PROVE PricingInv'
<1> USE DEF PricingInv
<1>0. ASSUME NEW use \in BOOLEAN, AskedFor(use)
      PROVE  /\ TermsOf(use) \in GivenTerms
             /\ TermsOf(use) # NoCoupon => coupon # None /\ coupon.terms = TermsOf(use)
  <2>1. use => coupon \in CouponRows /\ coupon # None
    BY <1>0 DEF AskedFor, Applies
  <2> QED BY <2>1 DEF TermsOf, GivenTerms, CouponRows
<1>1. ASSUME NEW use \in BOOLEAN, Quote(use) PROVE PricingInv'
  <2>1. UNCHANGED <<basket, shop, coupon, charged>> /\ Configured
        /\ quoted' = [terms |-> TermsOf(use), total |-> QuoteTotal(shop, basket, TermsOf(use))]
    BY <1>1 DEF Quote
  <2>2. TermsOf(use) \in GivenTerms
    BY <1>0, <1>1 DEF Quote
  <2>3. UsedTermsKept'
    BY <2>1 DEF UsedTermsKept
  <2> QED BY <2>1, <2>2, <2>3 DEF Configured
<1>2. ASSUME NEW use \in BOOLEAN, CheckoutAmounts(use) PROVE PricingInv'
  <2> DEFINE c == Charge(shop, basket, TermsOf(use))
  <2>1. UNCHANGED <<basket, shop, coupon, quoted>> /\ Configured /\ charged' = Append(charged, c)
    BY <1>2 DEF CheckoutAmounts
  <2>2. TermsOf(use) \in GivenTerms /\ (TermsOf(use) # NoCoupon => coupon # None /\ coupon.terms = TermsOf(use))
    BY <1>0, <1>2 DEF CheckoutAmounts
  <2>3. c \in Priced(shop, basket)
    BY <2>2 DEF Priced
  <2>4. c.terms = TermsOf(use)
    BY DEF Charge
  <2> HIDE DEF c
  <2>5. charged' \in Seq(Priced(shop, basket))
    BY <2>1, <2>3
  <2>6. ASSUME NEW o \in DOMAIN charged' PROVE charged'[o] = c \/ (o \in DOMAIN charged /\ charged'[o] = charged[o])
    BY <2>1, <2>3
  <2>7. UsedTermsKept'
    BY <2>1, <2>2, <2>4, <2>6 DEF UsedTermsKept
  <2> QED BY <2>1, <2>5, <2>7 DEF Configured
<1>3. ASSUME NEW o \in DOMAIN charged, EndOrder(o) PROVE PricingInv'
  <2> DEFINE e == Ended(charged[o])
  <2>1. UNCHANGED <<basket, shop, coupon, quoted>> /\ charged' = [charged EXCEPT ![o] = e] /\ charged[o].alive
    BY <1>3 DEF EndOrder, Ended
  <2>2. charged[o] \in Priced(shop, basket)
    OBVIOUS
  <2>3. PICK t \in GivenTerms : charged[o] = Charge(shop, basket, t) \/ charged[o] = Ended(Charge(shop, basket, t))
    BY <2>2 DEF Priced
  <2>4. PICK c : c = Charge(shop, basket, t)
    OBVIOUS
  <2>5. ~Ended(c).alive /\ SameAmounts(Ended(c), c)
    <3>1. IsCharge(c, shop, basket, t)
      BY <2>4 DEF IsCharge
    <3> QED BY <3>1, OrderFields
  <2>6. charged[o] = c
    BY <2>1, <2>3, <2>4, <2>5
  <2>7. e \in Priced(shop, basket) /\ e.terms = charged[o].terms
    <3>1. Ended(c) \in Priced(shop, basket)
      BY <2>4 DEF Priced
    <3> QED BY <2>5, <2>6, <3>1 DEF SameAmounts
  <2> HIDE DEF e
  <2>8. charged' \in Seq(Priced(shop, basket)) /\ DOMAIN charged' = DOMAIN charged
        /\ \A p \in DOMAIN charged : charged'[p].terms = charged[p].terms
    BY <2>1, <2>7
  <2>9. UsedTermsKept'
    BY <2>1, <2>8 DEF UsedTermsKept
  <2>10. charged # << >>
    OBVIOUS
  <2> QED BY <2>1, <2>8, <2>9, <2>10 DEF Configured
<1>4. ASSUME CouponPeriod PROVE PricingInv'
  <2>1. coupon \in CouponRows /\ coupon # None
    BY <1>4 DEF CouponPeriod
  <2> DEFINE new == [coupon EXCEPT !.running = ~@]
  <2>2. new \in CouponRows /\ new.terms = coupon.terms /\ SetCoupon(new)
    BY <1>4, <2>1 DEF CouponPeriod, CouponRows
  <2>3. new # None
    BY <2>2, RowIsNotNone
  <2> HIDE DEF new
  <2> QED BY <2>1, <2>2, <2>3, CouponSet
<1>5. ASSUME NEW terms \in Terms, NEW minimum \in Minimums, NEW limit \in {1, None}, CreateCoupon(terms, minimum, limit)
      PROVE  PricingInv'
  <2> DEFINE new == [terms |-> terms, minimum |-> minimum, limit |-> limit, active |-> TRUE, running |-> TRUE]
  <2>1. new \in CouponRows /\ SetCoupon(new)
    BY <1>5 DEF CreateCoupon, CouponRows, CouponTerms
  <2>2. ~EverUsed
    BY <1>5 DEF CreateCoupon, UsedTermsKept, EverUsed
  <2> HIDE DEF new
  <2> QED BY <2>1, <2>2, CouponSet
<1>6. ASSUME NEW terms \in Terms, UpdateTerms(terms) PROVE PricingInv'
  <2> DEFINE new == [coupon EXCEPT !.terms = terms]
  <2>1. coupon \in CouponRows /\ ValidTerms(terms) /\ ~EverUsed /\ SetCoupon(new)
    BY <1>6 DEF UpdateTerms
  <2>2. new \in CouponRows
    BY <2>1 DEF CouponRows, CouponTerms
  <2> HIDE DEF new
  <2> QED BY <2>1, <2>2, CouponSet
<1>7. ASSUME NEW minimum \in Minimums, NEW limit \in {1, None}, NEW active \in BOOLEAN, UpdateRules(minimum, limit, active)
      PROVE  PricingInv'
  <2> DEFINE new == [coupon EXCEPT !.minimum = minimum, !.limit = limit, !.active = active]
  <2>1. coupon \in CouponRows /\ coupon # None /\ SetCoupon(new)
    BY <1>7 DEF UpdateRules
  <2>2. new \in CouponRows /\ new.terms = coupon.terms
    BY <2>1 DEF CouponRows
  <2>3. new # None
    BY <2>2, RowIsNotNone
  <2> HIDE DEF new
  <2> QED BY <2>1, <2>2, <2>3, CouponSet
<1>8. ASSUME DeleteCoupon PROVE PricingInv'
  <2>1. SetCoupon(None) /\ ~EverUsed
    BY <1>8 DEF DeleteCoupon
  <2> QED BY <2>1, CouponSet
<1>9. ASSUME UNCHANGED pricingVars PROVE PricingInv'
  BY <1>9 DEF pricingVars, UsedTermsKept, Configured
<1> QED BY <1>1, <1>2, <1>3, <1>4, <1>5, <1>6, <1>7, <1>8, <1>9 DEF PricingNext, CouponEndpoints

\* The amounts of an order are right (AmountsAreRight): the shares of a discount and of a tax add up, no share exceeds its
\* line, the invoice accounts for what is paid, the quote is what is charged, and a used coupon keeps its terms; for any
\* carts, rates, configurations and coupon terms, and any number of orders.
THEOREM AmountsRight ==
    /\ PricingSpec => []AmountsAreRight
    /\ Spec => []Pricing_AmountsAreRight
<1> DEFINE I == part = "pricing" => PricingInv
<1>1. PricingInv => AmountsAreRight
  BY PricingInvRight
<1>2. PricingInit => PricingInv
  BY PricingInitInv
<1>3. PricingInv /\ [PricingNext]_pricingVars => PricingInv'
  BY PricingStep
<1>4. Init => I
  BY <1>2 DEF Init
<1>5. I /\ [Next]_vars => I'
  BY <1>3, PartStep
<1>6. I => Pricing_AmountsAreRight
  BY <1>1 DEF Pricing_AmountsAreRight
<1>7. PricingSpec => []AmountsAreRight
  BY <1>1, <1>2, <1>3, PTL DEF PricingSpec
<1>8. Spec => []Pricing_AmountsAreRight
  <2> HIDE DEF I
  <2> QED BY <1>4, <1>5, <1>6, PTL DEF Spec
<1> QED BY <1>7, <1>8
=============================================================================
