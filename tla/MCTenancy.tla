------------------------------ MODULE MCTenancy ------------------------------
(***************************************************************************)
(* The management API of one organisation.  Its members, its people's      *)
(* accounts, its referrals, its subscription and what it sets up share the *)
(* plan and the call slots and hardly a table, so a behaviour follows one  *)
(* of them.                                                                *)
(***************************************************************************)
EXTENDS Reports, Accounts, Billing, TLC

VARIABLE task  \* what this behaviour follows

vars == <<tenantVars, orgVars, projectVars, reportVars, accountVars, billingVars, task>>

SetUp == {"projects", "budgets", "credentials", "settings", "reports"}

TypeOK ==
  /\ TenantTypeOK
  /\ CASE task = "organisation" -> OrgTypeOK
       [] task = "accounts" -> AccountsTypeOK
       [] task \in SetUp -> ProjectsTypeOK /\ ReportsTypeOK
       [] OTHER -> BillingTypeOK
  /\ task \in {"organisation", "accounts", "referrals", "subscription"} \cup SetUp

Init ==
  /\ TenantInit /\ OrgInit /\ ProjectsInit /\ ReportsInit /\ AccountsInit /\ BillingInit
  /\ task \in {"organisation", "accounts", "referrals", "subscription"} \cup SetUp
  \* What a behaviour does not follow starts one way.
  /\ task = "organisation" \/ scim
  /\ task \in SetUp => \E p \in Person : members = [q \in Person |-> IF q = p THEN "owner" ELSE None]
  /\ task \in SetUp \cup {"organisation"} \/ members = [p \in Person |-> "owner"]
  /\ task \in {"organisation", "projects"} => PlanIncludes(plan, "team_management")
  \* Accounts and reports do not ask for the plan; an organisation subscribes to one from the free one.
  /\ task \in {"accounts", "reports", "subscription"} => plan = "free"
  \* A viewer makes no call, and is to the calls of others what a member is.
  /\ \A p \in Person : members[p] # "viewer"

OrganisationStep ==
  task = "organisation" /\ OrgNext /\ UNCHANGED <<projectVars, reportVars, accountVars, billingVars, task>>

AccountStep ==
  task = "accounts" /\ AccountsNext /\ UNCHANGED <<orgVars, projectVars, reportVars, billingVars, task>>

ReferralStep ==
  task = "referrals" /\ ReferralsNext /\ UNCHANGED <<orgVars, projectVars, reportVars, accountVars, task>>

SubscriptionStep ==
  task = "subscription" /\ SubscriptionNext /\ UNCHANGED <<orgVars, projectVars, reportVars, accountVars, task>>

ProjectStep ==
  task = "projects" /\ ProjectsNext /\ UNCHANGED <<reportVars, accountVars, billingVars, task>>

BudgetStep ==
  task = "budgets" /\ BudgetsNext /\ UNCHANGED <<reportVars, accountVars, billingVars, task>>

CredentialStep ==
  task = "credentials" /\ CredentialsNext /\ UNCHANGED <<reportVars, accountVars, billingVars, task>>

SettingStep ==
  task = "settings" /\ SettingsNext /\ UNCHANGED <<reportVars, accountVars, billingVars, task>>

ReportStep ==
  task = "reports" /\ ReportsNext /\ UNCHANGED <<accountVars, billingVars, task>>

Next ==
  \/ ReportStep \/ ProjectStep \/ BudgetStep \/ CredentialStep \/ SettingStep
  \/ OrganisationStep \/ AccountStep \/ ReferralStep \/ SubscriptionStep

Spec == Init /\ [][Next]_vars

\* Who belongs to the organisation and who gets in, whatever calls of its people, of its identity
\* provider and of the mail's links overlap.
PeopleSafety == Deprovisioned /\ TokenOnce /\ SecondFactorProven /\ SignupWhole

-----------------------------------------------------------------------------
(***************************************************************************)
(* Two people, and two calls at a time, for an organisation on a plan that *)
(* has team management or on one that does not.                            *)
(***************************************************************************)

\* The organisation's limits tie and differ in either order; a project's and a person's come and go.
MCCapped ==
  [scope : {[kind |-> "org", of |-> 0]}, limit : Cap, hard : BOOLEAN]
  \cup [scope : {[kind |-> "team", of |-> 0]} \cup [kind : {"user"}, of : Person],
        limit : {1}, hard : {TRUE}]

MCSymmetry == Permutations(Person) \cup Permutations(Call)

===============================================================================
