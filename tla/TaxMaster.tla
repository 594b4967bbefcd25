----------------------------- MODULE TaxMaster -----------------------------
(***************************************************************************)
(* The GST master: classifications with their effective-dated rules, the   *)
(* business's registrations with the tax configurations under them, the    *)
(* products assigned to a classification, and the engine that reads it all *)
(* at checkout.                                                            *)
(*                                                                         *)
(* A request locks the record it changes, and what it changes there is one *)
(* step. Of other records it reads only what is committed, without a lock: *)
(* creating a rule or a configuration reads its parent first, approving    *)
(* one reads its parent and the approved ones it could overlap, and then   *)
(* writes. The database adds its own rules at each write.                  *)
(***************************************************************************)
EXTENDS Common, Integers, FiniteSets

CONSTANTS
    Classifications, Rules, \* records of the four tables
    Registrations, Settings,
    TaxedProducts, Admins,
    LastDay,                \* bound: days 1 .. LastDay
    MaxRecords              \* bound: records that exist at one time

ASSUME LastDayAssumption == LastDay \in Nat \ {0}

VARIABLES
    record,    \* the records of the four tables
    approving, \* the administrator whose approval of a record has passed its checks
    assigned,  \* the classification of each product
    tax        \* the tax calculation of one checkout

taxMasterVars == <<record, approving, assigned, tax>>

Parents == Classifications \cup Registrations
Children == Rules \cup Settings
Records == Parents \cup Children

\* A record is in one table.
ASSUME TablesAssumption ==
    /\ Classifications \cap (Rules \cup Registrations \cup Settings) = {}
    /\ Rules \cap (Registrations \cup Settings) = {}
    /\ Registrations \cap Settings = {}
    /\ None \notin Records
ParentsOf(c) == IF c \in Rules THEN Classifications ELSE Registrations

\* A period [from, to); the day after the last stands for a period without an end.
Days == 1 .. LastDay
Periods == {p \in Days \X (2 .. LastDay + 1) : p[1] < p[2]}
Covers(p, day) == p[1] <= day /\ day < p[2]
Overlap(p, q) == p[1] < q[2] /\ q[1] < p[2]

NoRecord == [status |-> "absent"]
Draft(creator, source, period, parent) ==
    [status |-> "draft", creator |-> creator, source |-> source, period |-> period, parent |-> parent]

\* Nothing reads the other fields of a retired record.
Retired(parent) == [status |-> "retired", parent |-> parent]

NoTax == [state |-> "idle", day |-> 1, product |-> None, config |-> None]

Status(r) == record[r].status
NotRetired(r) == Status(r) \in {"draft", "approved"}
Existing == {r \in Records : Status(r) # "absent"}
Unlocked(r) == approving[r] = None

TaxMasterInit ==
    /\ record = [r \in Records |-> NoRecord]
    /\ approving = [r \in Records |-> None]
    /\ assigned = [p \in TaxedProducts |-> None]
    /\ tax = NoTax

\* The trigger of the four tables: a record starts as a draft, an approved one is retired or, a rule, ended earlier.
tax_master_guard(r, new) ==
    CASE Status(r) \in {"absent", "asked"} -> new.status \in {"asked", "draft"}
      [] Status(r) = "draft" -> TRUE
      [] Status(r) = "approved" -> \/ new.status = "retired"
                                  \/ /\ r \in Rules /\ new.status = "approved"
                                     /\ new = [record[r] EXCEPT !.period[2] = new.period[2]]
                                     /\ new.period[2] <= record[r].period[2]
      [] OTHER -> FALSE

Put(r, value) ==
    /\ tax_master_guard(r, value)
    /\ record' = [record EXCEPT ![r] = value]
    /\ UNCHANGED <<approving, assigned, tax>>

-----------------------------------------------------------------------------
(* Drafts                                                                  *)

\* The next record of its table.
Fresh(r) ==
    \E table \in {Classifications, Rules, Registrations, Settings} :
        r \in table /\ Status(r) = "absent" /\ r = CHOOSE x \in table : Status(x) = "absent"

CreateParent(r, by, source, period) ==
    /\ Fresh(r) /\ Cardinality(Existing) < MaxRecords
    /\ Put(r, Draft(by, source, period, None))

\* create_classification. It has no period and may lack its source reference.
CreateClassification(r, by, source) == CreateParent(r, by, source, <<1, LastDay + 1>>)

\* create_registration. No source reference is asked of a registration.
CreateRegistration(r, by, period) == CreateParent(r, by, TRUE, period)

\* create_rule and create_settings read the parent ...
AskCreate(c, parent) ==
    /\ Fresh(c) /\ Cardinality(Existing) < MaxRecords
    /\ NotRetired(parent)
    /\ Put(c, [status |-> "asked", parent |-> parent])

\* ... and insert, which waits for a retirement of the parent but does not ask about it again.
CreateRule(c, by, source, period) ==
    /\ Status(c) = "asked"
    /\ Put(c, Draft(by, source, period, record[c].parent))

CreateSettings(c, by, source, period) ==
    /\ Status(c) = "asked"
    /\ Put(c, Draft(by, source, period, record[c].parent))

Editable(r) == Status(r) = "draft" /\ Unlocked(r)

UpdateClassification(r, source) ==
    /\ Editable(r)
    /\ Put(r, [record[r] EXCEPT !.source = source])

UpdateRegistration(r, period) ==
    /\ Editable(r)
    /\ Put(r, [record[r] EXCEPT !.period = period])

UpdateRule(r, source, period) ==
    /\ Editable(r)
    /\ Put(r, [record[r] EXCEPT !.source = source, !.period = period])

\* update_settings may move the draft to any registration that exists.
UpdateSettings(r, source, period, parent) ==
    /\ Editable(r) /\ Status(parent) # "absent"
    /\ Put(r, [record[r] EXCEPT !.source = source, !.period = period, !.parent = parent])

-----------------------------------------------------------------------------
(* Approval and retirement                                                 *)

\* _approve: not by the creator (self-approval is off), and with a source reference.
MayApprove(r, by) == Status(r) = "draft" /\ record[r].creator # by /\ record[r].source

ApproveParent(r, by) ==
    /\ MayApprove(r, by) /\ Unlocked(r)
    /\ Put(r, [record[r] EXCEPT !.status = "approved"])

ApproveClassification(k, by) == ApproveParent(k, by)
\* No source reference is asked of a registration (its draft counts as having one).
ApproveRegistration(g, by) == ApproveParent(g, by)

\* The approved records an approval of c must not overlap: of its classification, or any configuration.
Rivals(c) ==
    {d \in (IF c \in Rules THEN Rules ELSE Settings) \ {c} :
        Status(d) = "approved" /\ (c \in Rules => record[d].parent = record[c].parent)}

Overlapping(c) == \E d \in Rivals(c) : Overlap(record[c].period, record[d].period)

\* approve_rule and approve_settings lock the record and check ...
CheckApproval(c, by) ==
    /\ MayApprove(c, by) /\ Unlocked(c)
    /\ Status(record[c].parent) = "approved"
    /\ ~Overlapping(c)
    /\ approving' = [approving EXCEPT ![c] = by]
    /\ UNCHANGED <<record, assigned, tax>>

\* Mutant: two approved records may apply on one day.
NoExclusion(c) == TRUE

\* ex_tax_rules_no_approved_overlap, ex_business_tax_settings_no_approved_overlap
Exclusion(c) == ~Overlapping(c)

\* ... and write, unless the database refuses.
Approve(c) ==
    /\ approving[c] # None
    /\ record' = IF Exclusion(c) THEN [record EXCEPT ![c].status = "approved"] ELSE record
    /\ approving' = [approving EXCEPT ![c] = None]
    /\ UNCHANGED <<assigned, tax>>

\* close_rule: the end of an approved rule is brought forward, never extended.
CloseRule(r, to) ==
    /\ Status(r) = "approved"
    /\ record[r].period[1] < to /\ to < record[r].period[2]
    /\ Put(r, [record[r] EXCEPT !.period[2] = to])

RetireChild(c) ==
    /\ NotRetired(c) /\ Unlocked(c)
    /\ Put(c, Retired(record[c].parent))

HasOpenRules(k) == \E c \in Rules : NotRetired(c) /\ record[c].parent = k
HasOpenSettings(g) == \E c \in Settings : NotRetired(c) /\ record[c].parent = g

\* count_products_using and, again, tax_classification_retire_guard
InUse(r) == \E p \in TaxedProducts : assigned[p] = r

RetireClassification(k) ==
    /\ NotRetired(k)
    /\ ~HasOpenRules(k) /\ ~InUse(k)
    /\ Put(k, Retired(None))

RetireRegistration(g) ==
    /\ NotRetired(g)
    /\ ~HasOpenSettings(g)
    /\ Put(g, Retired(None))

\* products_tax_assignment_guard waits for a retirement and asks about the status after it.
Assignable == {None} \cup {k \in Classifications : Status(k) = "approved"}

\* The classification a product is saved with.
Assign(p, k) ==
    /\ assigned[p] # k /\ k \in Assignable
    /\ assigned' = [assigned EXCEPT ![p] = k]
    /\ UNCHANGED <<record, approving, tax>>

-----------------------------------------------------------------------------
(* GstTaxEngine.calculate for one product: three reads of the master.      *)

InForce(table, day) == {r \in table : Status(r) = "approved" /\ Covers(record[r].period, day)}
RulesCovering(k, day) == {r \in InForce(Rules, day) : record[r].parent = k}

\* evaluate_config: what is in force, or why tax cannot be determined.
EvaluateConfig(p, day) ==
    LET found == InForce(Settings, day)
        config == CHOOSE c \in found : TRUE
        usable == /\ Cardinality(found) = 1
                  /\ Status(record[config].parent) = "approved"
                  /\ Covers(record[record[config].parent].period, day)
    IN
    /\ tax' = [state |-> IF Cardinality(found) > 1 THEN "ambiguous" ELSE IF usable THEN "configured" ELSE "blocked",
               day |-> day, product |-> p, config |-> IF usable THEN config ELSE None]
    /\ UNCHANGED <<record, approving, assigned>>

\* evaluate_readiness
EvaluateReadiness ==
    LET k == assigned[tax.product]
        rules == RulesCovering(k, tax.day)
    IN
    /\ tax.state = "configured"
    /\ tax' = [tax EXCEPT !.state =
                 IF k = None \/ k \notin Assignable \/ rules = {} THEN "blocked"
                 ELSE IF Cardinality(rules) > 1 THEN "ambiguous" ELSE "ready"]
    /\ UNCHANGED <<record, approving, assigned>>

\* The rules are read a second time: one retired or closed since then is missed with an error.
ApplyRules ==
    /\ tax.state = "ready"
    /\ tax' = [tax EXCEPT !.state = IF RulesCovering(assigned[tax.product], tax.day) = {} THEN "failed" ELSE "taxed"]
    /\ UNCHANGED <<record, approving, assigned>>

-----------------------------------------------------------------------------
ClassificationEndpoints ==
    \E r \in Classifications :
        \/ \E by \in Admins, source \in BOOLEAN : CreateClassification(r, by, source)
        \/ \E source \in BOOLEAN : UpdateClassification(r, source)
        \/ \E by \in Admins : ApproveClassification(r, by)
        \/ RetireClassification(r)

RuleEndpoints ==
    \E r \in Rules :
        \/ \E k \in Classifications : AskCreate(r, k)
        \/ \E by \in Admins, source \in BOOLEAN, period \in Periods : CreateRule(r, by, source, period)
        \/ \E source \in BOOLEAN, period \in Periods : UpdateRule(r, source, period)
        \/ \E by \in Admins : CheckApproval(r, by)
        \/ Approve(r)
        \/ \E to \in Days : CloseRule(r, to)
        \/ RetireChild(r)

RegistrationEndpoints ==
    \E r \in Registrations :
        \/ \E by \in Admins, period \in Periods : CreateRegistration(r, by, period)
        \/ \E period \in Periods : UpdateRegistration(r, period)
        \/ \E by \in Admins : ApproveRegistration(r, by)
        \/ RetireRegistration(r)

SettingsEndpoints ==
    \E r \in Settings :
        \/ \E g \in Registrations : AskCreate(r, g)
        \/ \E by \in Admins, source \in BOOLEAN, period \in Periods : CreateSettings(r, by, source, period)
        \/ \E source \in BOOLEAN, period \in Periods, g \in Registrations : UpdateSettings(r, source, period, g)
        \/ \E by \in Admins : CheckApproval(r, by)
        \/ Approve(r)
        \/ RetireChild(r)

ProductTax == \E p \in TaxedProducts, k \in Classifications \cup {None} : Assign(p, k)

Engine ==
    \/ \E p \in TaxedProducts, day \in Days : EvaluateConfig(p, day)
    \/ EvaluateReadiness
    \/ ApplyRules

TaxMasterNext ==
    \/ ClassificationEndpoints
    \/ RuleEndpoints
    \/ RegistrationEndpoints
    \/ SettingsEndpoints
    \/ ProductTax
    \/ Engine

TaxMasterSpec == TaxMasterInit /\ [][TaxMasterNext]_taxMasterVars

-----------------------------------------------------------------------------
\* What the engine finds is never ambiguous: whatever approvals run at once, on each day one rule at most of a
\* classification and one configuration at most of the business are in force (engine.py, AMBIGUOUS_RULE).
OneRuleApplies ==
    /\ tax.state # "ambiguous"
    /\ \A day \in Days : /\ Cardinality(InForce(Settings, day)) <= 1
                         /\ \A k \in Classifications : Cardinality(RulesCovering(k, day)) <= 1

\* An approved rule or configuration stands under an approved parent, and a product on an approved
\* classification: the unlocked reads of the parent never let one survive its parent's retirement.
ApprovedOnApproved ==
    /\ \A c \in Children : Status(c) = "approved" => Status(record[c].parent) = "approved"
    /\ \A p \in TaxedProducts : assigned[p] # None => Status(assigned[p]) = "approved"

\* The tax of a product is definite whatever drafts, approvals and retirements run at once: one rule at most applies on a
\* day, and what is approved stands on what is approved (tax_service.py, engine.py).
TaxIsDefinite == OneRuleApplies /\ ApprovedOnApproved
=============================================================================
