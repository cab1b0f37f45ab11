--------------------------- MODULE MCBudgetLedger ---------------------------
(***************************************************************************)
(* BudgetLedger on small instances.                                        *)
(***************************************************************************)
EXTENDS BudgetLedger, TLC

CONSTANTS k1, k2, t1, u1, eu, org

\* Three requests of one organisation: two keys of one team, and a project key.
MCCaller == <<
  [key |-> k1, team |-> t1, user |-> NoId, region |-> eu, organization |-> org],
  [key |-> k2, team |-> t1, user |-> NoId, region |-> eu, organization |-> org],
  [key |-> k2, team |-> NoId, user |-> NoId, region |-> eu, organization |-> org]>>

MCProjected == <<
  [money |-> 2, tokens |-> 1], [money |-> 2, tokens |-> 1], [money |-> 1, tokens |-> 2]>>

MCBills == {[money |-> 0, tokens |-> 1], [money |-> 3, tokens |-> 2]}

KeySpend(k)  == [unit |-> "money", scope |-> "key", id |-> k]
TeamSpend(t) == [unit |-> "money", scope |-> "team", id |-> t]
UserSpend(u) == [unit |-> "money", scope |-> "user", id |-> u]
OrgSpend(o)  == [unit |-> "money", scope |-> "organization", id |-> o]
OrgTokens(o) == [unit |-> "tokens", scope |-> "organization", id |-> o]
TeamTokens(t) == [unit |-> "tokens", scope |-> "team", id |-> t]

\* A team ceiling that fits one of the first two requests, an organisation ceiling that
\* fits two of the three, and a token ceiling on the organisation.
MCHardCap == {TeamSpend(t1), OrgSpend(org), OrgTokens(org)}
MCLimit   == TeamSpend(t1) :> 3 @@ OrgSpend(org) :> 4 @@ OrgTokens(org) :> 3

-----------------------------------------------------------------------------
(* One request of each kind, for runs with store faults and for the        *)
(* counters that are not settled.                                          *)

PersonProjected == [r \in 1 .. 2 |-> [money |-> 2, tokens |-> 2]]

PersonBills == {[money |-> 1, tokens |-> 1], [money |-> 3, tokens |-> 3]}

\* A key with no team and no assignee, where the store may fail.
PlainCaller == [r \in 1 .. 2 |->
  [key |-> k1, team |-> NoId, user |-> NoId, region |-> eu, organization |-> org]]

PlainHardCap == {OrgSpend(org), OrgTokens(org)}
PlainLimit   == OrgSpend(org) :> 3 @@ OrgTokens(org) :> 3

=============================================================================
