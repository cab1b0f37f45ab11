------------------------------- MODULE Projects -------------------------------
(***************************************************************************)
(* What an organisation sets up: its projects ("teams"), who is in them,   *)
(* its providers' credentials, routing policies and budgets, and the audit *)
(* log of all that (routes/management.rs, db/repo.rs).  A handler checks   *)
(* the role, the plan and what it refers to, commits its change, drops     *)
(* what is cached of it and writes the log, each in a statement of its     *)
(* own.  The caches themselves are in FrontDoor, Routing and              *)
(* ResponseCaches.                                                         *)
(***************************************************************************)
EXTENDS Organisation, SequencesExt

CONSTANTS
  Name,      \* names of projects
  Provider,  \* providers' ids
  Region,
  Cap,       \* bound: the limits that budgets set
  Capped     \* bound: the scopes, limits and modes that budgets are created with

VARIABLES
  teams,        \* teams: id and name
  roster,       \* team_memberships
  credentials,  \* provider_credentials
  policies,     \* routing_policies
  budgets,      \* budgets
  versions,     \* versions[id]: settings written to a key, or to the organisation as 0
  log,          \* audit_logs
  lost,         \* calls that failed after their change and before its entry
  cleared       \* the credential whose row each transaction has updated, and so locks

projectVars == <<teams, roster, credentials, policies, budgets, versions, log, lost, cleared>>

\* A row is known by the call that made it; 0 was there before.
Id == 0 .. MaxCalls

Scopes ==
  {[kind |-> "org", of |-> 0]}
  \cup [kind : {"team", "key"}, of : Id]
  \cup [kind : {"user"}, of : Person]
  \cup [kind : {"region"}, of : Region]

ASSUME ProjectsAssumption ==
  /\ Cap \subseteq Nat /\ Cap # {}
  /\ IsFiniteSet(Name) /\ Name # {} /\ Provider # {}
  /\ Capped \subseteq [scope : Scopes, limit : Cap, hard : BOOLEAN]
  /\ None \notin Name \cup Id \cup [limit : Nat, hard : BOOLEAN]

ProjectsTypeOK ==
  /\ teams \subseteq [id : Id, name : Name]
  /\ roster \subseteq [team : Id, who : Person, role : {"lead", "member"}]
  /\ credentials \subseteq [id : Id, provider : Provider, default : BOOLEAN, ok : BOOLEAN \cup {None}]
  /\ policies \subseteq Id
  /\ budgets \subseteq [id : Id, scope : Scopes, limit : Cap, hard : BOOLEAN]
  /\ \A e \in log : e.call \in Serial /\ e.of \in Id
  /\ lost \subseteq Serial
  /\ cleared \in [Call -> Id \cup {None}]

ProjectsInit ==
  /\ teams = {[id |-> 0, name |-> CHOOSE n \in Name : TRUE]}
  /\ roster = {}
  /\ credentials =
       {[id |-> 0, provider |-> CHOOSE q \in Provider : TRUE, default |-> TRUE, ok |-> None]}
  /\ policies = {}
  /\ budgets = {[id |-> 0, scope |-> [kind |-> "org", of |-> 0], limit |-> CHOOSE n \in Cap : TRUE,
                 hard |-> TRUE]}
  /\ versions = [id \in Id |-> 0]
  /\ log = {}
  /\ lost = {}
  /\ cleared = [c \in Call |-> None]

-----------------------------------------------------------------------------
(* What is asked for                                                       *)

Feature ==
  [create_team |-> "team_management", create_provider |-> "byok", create_policy |-> "policies",
   create_budget |-> "budgets"]

Creates == DOMAIN Feature
Deletes == {"delete_team", "delete_provider", "delete_policy", "delete_budget"}
Rosters == {"add_team_member", "remove_team_member"}
Updates == {"update_team", "update_key", "update_org"}

\* The handlers that drop what is cached of the rows they change.
Cached ==
  {"create_policy", "delete_policy", "create_budget", "delete_budget", "update_key", "update_org"}

\* What a request has in a field that these operations carry.
Carried(op, by, values, otherwise) == IF op \in by THEN values ELSE {otherwise}

\* What the handlers with a body refuse before they read anything is not among these.
AskedFor(op) ==
  {a \in [op : {op}, serial : {begun + 1},
          of : IF op \in {"create_provider", "create_budget"} THEN {0} ELSE {0, 1},
          name : IF op = "create_provider" THEN Provider
                 ELSE Carried(op, {"create_team", "update_team"}, Name, None),
          whom : Carried(op, Rosters, Person, None),
          role : Carried(op, {"add_team_member"}, {"lead", "member"}, None),
          default : Carried(op, {"create_provider"}, BOOLEAN, FALSE),
          scope : Carried(op, {"create_budget"}, {b.scope : b \in Capped}, None),
          limit : Carried(op, {"create_budget"}, Cap, None),
          hard : Carried(op, {"create_budget"}, BOOLEAN, FALSE)] :
     op = "create_budget" => [scope |-> a.scope, limit |-> a.limit, hard |-> a.hard] \in Capped}

\* require_writer, or require_key_writer for a key.
Standing(op) == IF op = "update_key" THEN Writer \cup {"member"} ELSE Writer

NamesAPerson(a) == a.op = "add_team_member" \/ (a.op = "create_budget" /\ a.scope.kind = "user")

\* The statement that follows the checks a handler has made so far.
AfterTeam(a) ==
  IF NamesAPerson(a) THEN "person"
  ELSE IF a.op = "create_provider" /\ a.default THEN "clear" ELSE "write"

AfterPlan(a) == IF a.op \in Rosters THEN "team" ELSE AfterTeam(a)

Receive(c, p, a) ==
  /\ begun < MaxCalls /\ begun' = begun + 1
  /\ members[p] \in Standing(a.op)
  /\ Goes(c, "idle", IF a.op \in Creates THEN "plan" ELSE AfterPlan(a))
  /\ ask' = [ask EXCEPT ![c] = a]
  /\ UNCHANGED <<plan, faults, members, keys, scim, seen, left, projectVars>>

-----------------------------------------------------------------------------
(* The checks                                                              *)

Answered(c) == /\ ask' = [ask EXCEPT ![c] = None]
               /\ cleared' = [cleared EXCEPT ![c] = None]

Rows == <<teams, roster, credentials, policies, budgets, versions>>
Rest == <<plan, members, keys, scim, seen, begun, left>>

\* One check of the handler: its statement, what it asks, and where it leads.
Check(c, at, holds, to) ==
  /\ pc[c] = at
  /\ IF holds THEN Goes(c, at, to) /\ UNCHANGED <<ask, cleared>>
              ELSE Goes(c, at, "idle") /\ Answered(c)
  /\ UNCHANGED <<Rest, faults, Rows, log, lost>>

RequirePlanFeature(c) ==
  pc[c] = "plan" /\ Check(c, "plan", PlanIncludes(plan, Feature[ask[c].op]), AfterPlan(ask[c]))

TeamBelongsToOrg(c) ==
  pc[c] = "team" /\ Check(c, "team", \E t \in teams : t.id = ask[c].of, AfterTeam(ask[c]))

RoleInOrg(c) ==
  pc[c] = "person"
  /\ Check(c, "person",
           members[IF ask[c].op = "create_budget" THEN ask[c].scope.of ELSE ask[c].whom] # None,
           "write")

-----------------------------------------------------------------------------
(* The changes                                                             *)

After(a) == IF a.op \in Cached THEN "forget" ELSE "audit"

\* The statement commits, or changes no row or violates a constraint and the handler answers so.
Commits(c, done) ==
  /\ IF done THEN Goes(c, "write", After(ask[c])) /\ UNCHANGED <<ask, cleared>>
             ELSE Goes(c, "write", "idle") /\ Answered(c)
  /\ UNCHANGED <<Rest, faults, log, lost>>

Unused(n, id) == ~\E t \in teams : t.name = n /\ t.id # id

CreateTeam(c) ==
  /\ pc[c] = "write" /\ ask[c].op = "create_team"
  /\ LET free == Unused(ask[c].name, ask[c].serial) IN
       /\ teams' = IF free THEN teams \cup {[id |-> ask[c].serial, name |-> ask[c].name]} ELSE teams
       /\ Commits(c, free)
  /\ UNCHANGED <<roster, credentials, policies, budgets, versions>>

UpdateTeam(c) ==
  /\ pc[c] = "write" /\ ask[c].op = "update_team"
  /\ LET found == {t \in teams : t.id = ask[c].of /\ Unused(ask[c].name, t.id)} IN
       /\ teams' = (teams \ found) \cup {[t EXCEPT !.name = ask[c].name] : t \in found}
       /\ Commits(c, found # {})
  /\ UNCHANGED <<roster, credentials, policies, budgets, versions>>

\* Its memberships and its budgets go with it.
DeleteTeam(c) ==
  /\ pc[c] = "write" /\ ask[c].op = "delete_team"
  /\ teams' = {t \in teams : t.id # ask[c].of}
  /\ roster' = {m \in roster : m.team # ask[c].of}
  /\ budgets' = {b \in budgets : b.scope # [kind |-> "team", of |-> ask[c].of]}
  /\ Commits(c, teams' # teams)
  /\ UNCHANGED <<credentials, policies, versions>>

\* A row for a project deleted since it was looked up violates its foreign key.
AddTeamMember(c) ==
  /\ pc[c] = "write" /\ ask[c].op = "add_team_member"
  /\ LET row == [team |-> ask[c].of, who |-> ask[c].whom, role |-> ask[c].role]
         there == \E t \in teams : t.id = row.team
     IN /\ roster' = IF there
                       THEN {m \in roster : <<m.team, m.who>> # <<row.team, row.who>>} \cup {row}
                       ELSE roster
        /\ Commits(c, there)
  /\ UNCHANGED <<teams, credentials, policies, budgets, versions>>

RemoveTeamMember(c) ==
  /\ pc[c] = "write" /\ ask[c].op = "remove_team_member"
  /\ roster' = {m \in roster : <<m.team, m.who>> # <<ask[c].of, ask[c].whom>>}
  /\ Commits(c, roster' # roster)
  /\ UNCHANGED <<teams, credentials, policies, budgets, versions>>

\* What a scope refers to is there: the foreign keys of the budgets table.
Refers(s) ==
  /\ s.kind = "team" => \E t \in teams : t.id = s.of
  /\ s.kind = "key" => s.of = 0

CreateBudget(c) ==
  /\ pc[c] = "write" /\ ask[c].op = "create_budget"
  /\ budgets' = IF Refers(ask[c].scope)
                  THEN budgets \cup {[id |-> ask[c].serial, scope |-> ask[c].scope,
                                      limit |-> ask[c].limit, hard |-> ask[c].hard]}
                  ELSE budgets
  /\ Commits(c, Refers(ask[c].scope))
  /\ UNCHANGED <<teams, roster, credentials, policies, versions>>

DeleteBudget(c) ==
  /\ pc[c] = "write" /\ ask[c].op = "delete_budget"
  /\ budgets' = {b \in budgets : b.id # ask[c].of}
  /\ Commits(c, budgets' # budgets)
  /\ UNCHANGED <<teams, roster, credentials, policies, versions>>

CreatePolicy(c) ==
  /\ pc[c] = "write" /\ ask[c].op = "create_policy"
  /\ policies' = policies \cup {ask[c].serial}
  /\ Commits(c, TRUE)
  /\ UNCHANGED <<teams, roster, credentials, budgets, versions>>

DeletePolicy(c) ==
  /\ pc[c] = "write" /\ ask[c].op = "delete_policy"
  /\ policies' = policies \ {ask[c].of}
  /\ Commits(c, policies' # policies)
  /\ UNCHANGED <<teams, roster, credentials, budgets, versions>>

\* The settings that are given replace those there are; a key may be gone ...
Overwrites(c, op, found) ==
  /\ pc[c] = "write" /\ ask[c].op = op
  /\ versions' = [versions EXCEPT ![ask[c].of] = IF found THEN @ + 1 ELSE @]
  /\ Commits(c, found)
  /\ UNCHANGED <<teams, roster, credentials, policies, budgets>>

UpdateKey(c) == Overwrites(c, "update_key", ask[c].of = 1)

\* ... and the organisation is the caller's own.
UpdateOrgSettings(c) == Overwrites(c, "update_org", TRUE)

-----------------------------------------------------------------------------
(* Credentials                                                             *)

DefaultOf(q) == {k \in credentials : k.provider = q /\ k.default}

Locked(id) == \E d \in Call : cleared[d] = id

\* create_credential's transaction updates the row of the old default, or waits for the
\* transaction that has.
ClearDefault(c) ==
  /\ pc[c] = "clear"
  /\ LET old == DefaultOf(ask[c].name) IN
       IF \E k \in old : Locked(k.id)
         THEN Goes(c, "clear", "wait") /\ seen' = [seen EXCEPT ![c] = CHOOSE k \in old : TRUE]
              /\ UNCHANGED cleared
         ELSE Goes(c, "clear", "write") /\ UNCHANGED seen
              /\ cleared' = [cleared EXCEPT ![c] = IF old = {} THEN None ELSE (CHOOSE k \in old : TRUE).id]
  /\ UNCHANGED <<plan, members, keys, scim, begun, left, faults, ask, Rows, log, lost>>

\* It sees the row as the other left it, and no row that was inserted meanwhile.
ClearAwaited(c) ==
  /\ pc[c] = "wait" /\ ~Locked(seen[c].id)
  /\ Goes(c, "wait", "write")
  /\ cleared' = [cleared EXCEPT ![c] =
       IF \E k \in credentials : k.id = seen[c].id /\ k.default THEN seen[c].id ELSE None]
  /\ seen' = [seen EXCEPT ![c] = Unread]
  /\ UNCHANGED <<plan, members, keys, scim, begun, left, faults, ask, Rows, log, lost>>

\* The insert commits both, unless another default was committed: the index allows one.
CreateCredential(c) ==
  /\ pc[c] = "write" /\ ask[c].op = "create_provider"
  /\ LET clash == ask[c].default /\ \E k \in DefaultOf(ask[c].name) : k.id # cleared[c]
         new == [id |-> ask[c].serial, provider |-> ask[c].name, default |-> ask[c].default, ok |-> None]
     IN IF clash THEN Commits(c, FALSE) /\ UNCHANGED credentials
        ELSE /\ Goes(c, "write", "audit")
             /\ cleared' = [cleared EXCEPT ![c] = None]
             /\ credentials' = {[k EXCEPT !.default = @ /\ k.id # cleared[c]] : k \in credentials} \cup {new}
             /\ UNCHANGED <<Rest, faults, ask, log, lost>>
  /\ UNCHANGED <<teams, roster, policies, budgets, versions>>

DeleteCredential(c) ==
  /\ pc[c] = "write" /\ ask[c].op = "delete_provider" /\ ~Locked(ask[c].of)
  /\ credentials' = {k \in credentials : k.id # ask[c].of}
  /\ Commits(c, credentials' # credentials)
  /\ UNCHANGED <<teams, roster, policies, budgets, versions>>

\* test_provider asks the provider with the credential and notes how it went; no entry.
TestProvider(c, ok) ==
  /\ pc[c] = "write" /\ ask[c].op = "test_provider" /\ ~Locked(ask[c].of)
  /\ credentials' = {[k EXCEPT !.ok = IF k.id = ask[c].of THEN ok ELSE @] : k \in credentials}
  /\ Goes(c, "write", "idle") /\ Answered(c)
  /\ UNCHANGED <<Rest, faults, log, lost, teams, roster, policies, budgets, versions>>

\* find_default_credential: the default, else the oldest; None is the gateway's own key.
Served(q) ==
  LET of == {k \in credentials : k.provider = q}
      first == IF DefaultOf(q) # {} THEN DefaultOf(q) ELSE of
  IN IF of = {} THEN None ELSE (CHOOSE k \in first : \A j \in first : k.id <= j.id).id

-----------------------------------------------------------------------------
(* Afterwards                                                              *)

\* invalidate_limits, invalidate_key, invalidate_org, or the deletion of the cached policy.
Forget(c) ==
  /\ Goes(c, "forget", "audit")
  /\ UNCHANGED <<Rest, faults, ask, cleared, Rows, log, lost>>

\* A change of a key whose cache cannot be dropped is answered with that error, unlogged.
ForgetFails(c) ==
  /\ Fault
  /\ pc[c] = "forget" /\ ask[c].op = "update_key"
  /\ Goes(c, "forget", "idle") /\ Answered(c)
  /\ lost' = lost \cup {ask[c].serial}
  /\ UNCHANGED <<Rest, Rows, log>>

Audit(c) ==
  /\ Goes(c, "audit", "idle") /\ Answered(c)
  /\ log' = log \cup {[op |-> ask[c].op, call |-> ask[c].serial,
                       of |-> IF ask[c].op \in Creates THEN ask[c].serial ELSE ask[c].of]}
  /\ UNCHANGED <<Rest, faults, Rows, lost>>

\* A statement fails or the handler is dropped; a transaction that had not committed leaves nothing.
Drop(c) ==
  /\ Fault
  /\ pc[c] # "idle"
  /\ pc' = [pc EXCEPT ![c] = "idle"] /\ Answered(c)
  /\ lost' = IF pc[c] \in {"forget", "audit"} THEN lost \cup {ask[c].serial} ELSE lost
  /\ seen' = [seen EXCEPT ![c] = Unread]
  /\ UNCHANGED <<plan, members, keys, scim, begun, left, Rows, log>>

\* Members come and go, as in Organisation.
JoinsOrLeaves ==
  /\ \E p \in Person : members' = [members EXCEPT ![p] = IF @ = None THEN "member" ELSE None]
                       /\ members[p] \notin Writer
  /\ UNCHANGED <<pc, plan, faults, keys, scim, ask, seen, begun, left, projectVars>>

Change(c) ==
  \/ CreateTeam(c) \/ UpdateTeam(c) \/ DeleteTeam(c) \/ AddTeamMember(c) \/ RemoveTeamMember(c)
  \/ CreateBudget(c) \/ DeleteBudget(c) \/ CreatePolicy(c) \/ DeletePolicy(c)
  \/ UpdateKey(c) \/ UpdateOrgSettings(c)
  \/ ClearDefault(c) \/ ClearAwaited(c) \/ CreateCredential(c) \/ DeleteCredential(c)
  \/ \E ok \in BOOLEAN : TestProvider(c, ok)

\* The handlers whose tables meet; no statement of one group touches another's.
OfProjects    == {"create_team", "update_team", "delete_team"} \cup Rosters
OfBudgets     == {"create_budget", "delete_budget", "delete_team"}
OfCredentials == {"create_provider", "delete_provider", "test_provider"}
OfSettings    == {"create_policy", "delete_policy", "update_key", "update_org"}

Handlers(Op) ==
  \/ \E c \in Call, p \in Person, op \in Op : \E a \in AskedFor(op) : Receive(c, p, a)
  \/ \E c \in Call :
       \/ RequirePlanFeature(c) \/ TeamBelongsToOrg(c) \/ RoleInOrg(c) \/ Change(c)
       \/ Forget(c) \/ ForgetFails(c) \/ Audit(c) \/ Drop(c)

ProjectsNext    == Handlers(OfProjects) \/ JoinsOrLeaves
BudgetsNext     == Handlers(OfBudgets)
CredentialsNext == Handlers(OfCredentials)
SettingsNext    == Handlers(OfSettings)

-----------------------------------------------------------------------------
(* The ceilings a request is checked against                               *)

\* Mutant of Tighter: on a tie the later budget's mode is kept.
TighterLater(existing, new) ==
  IF existing = None \/ existing.limit >= new.limit THEN [limit |-> new.limit, hard |-> new.hard]
  ELSE existing

Tighter(existing, new) ==
  IF existing = None \/ existing.limit > new.limit THEN [limit |-> new.limit, hard |-> new.hard]
  ELSE IF existing.limit = new.limit THEN [existing EXCEPT !.hard = @ \/ new.hard]
  ELSE existing

\* The rows of a scope that the call numbered `id` made.
RowsOf(scope, id) == {b \in budgets : b.scope = scope /\ b.id = id}

\* BudgetLimits::from_rows over the rows in the order of their creation, as load_limits reads them:
\* cap[n] is what the first n calls' rows have led to.  The rows of other teams, keys, people and
\* regions are skipped.
FromRows(scope) ==
  LET cap[n \in 0 .. MaxCalls + 1] ==
        IF n = 0 THEN None
        ELSE IF RowsOf(scope, n - 1) = {} THEN cap[n - 1]
        ELSE Tighter(cap[n - 1], CHOOSE b \in RowsOf(scope, n - 1) : TRUE)
  IN cap[MaxCalls + 1]

-----------------------------------------------------------------------------
(* Properties                                                              *)

\* Whatever order budgets were created in, a request meets the lowest limit of each scope, and
\* it refuses if any budget with that limit does (from_rows, tighter).
TightestCap ==
  \A s \in {b.scope : b \in budgets} :
    LET of  == {b \in budgets : b.scope = s}
        low == {b \in of : \A o \in of : b.limit <= o.limit}
    IN \A b \in low : FromRows(s) = [limit |-> b.limit, hard |-> \E o \in low : o.hard]

Rowed == {[op |-> "create_team", of |-> t.id] : t \in teams}
         \cup {[op |-> "create_provider", of |-> k.id] : k \in credentials}
         \cup {[op |-> "create_policy", of |-> i] : i \in policies}
         \cup {[op |-> "create_budget", of |-> b.id] : b \in budgets}

\* The audit log tells what happened: every row has the entry of its creation, unless the call
\* is about to write it or failed to, and no row is reported deleted by two calls.
AuditTells ==
  /\ \A r \in Rowed :
       \/ r.of \in lost \cup {0}
       \/ \E e \in log : e.op = r.op /\ e.of = r.of
       \/ \E c \in Call : pc[c] \in {"forget", "audit"} /\ ask[c].serial = r.of
  /\ \A d, e \in log : (d.op \in Deletes /\ d.op = e.op /\ d.of = e.of) => d.call = e.call

===============================================================================
