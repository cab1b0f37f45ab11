-------------------------------- MODULE Reports --------------------------------
(***************************************************************************)
(* What an organisation is told of its spend (routes/management.rs): the   *)
(* summaries, the chargeback by project, the savings report and the        *)
(* anomaly of the day (engine/governance.rs), all read from usage_records, *)
(* while requests are recorded and projects are renamed and deleted.       *)
(***************************************************************************)
EXTENDS Projects, Totals

CONSTANTS
  Cost,          \* bound: what requests cost, in dollars
  MonthLength,   \* bound: the days of every month
  HistoryDays,   \* the days of history the anomaly is judged by
  MinHistoryDays,
  AnomalyFloor,  \* in dollars
  PageLimit,     \* the most rows list_requests reads
  MaxDay,        \* bound
  MaxRows        \* bound: requests that are recorded

ASSUME ReportsAssumption ==
  /\ {MonthLength, HistoryDays, MinHistoryDays, MaxDay, MaxRows} \subseteq Nat
  /\ MaxDay # 0 /\ Cost \subseteq Nat
  /\ PageLimit \in 0 .. 10000

VARIABLES
  day,   \* today
  usage  \* usage_records, in the order they were made

reportVars == <<day, usage>>

ReportsTypeOK ==
  /\ day \in 1 .. MaxDay
  /\ \A i \in DOMAIN usage :
       usage[i] \in [day : 1 .. MaxDay, team : Id \cup {None}, user : Person \cup {None},
                     cost : Cost]

ReportsInit == day = 1 /\ usage = <<>>

\* A request of a key of a project, or of none, issued to a person or shared.
RecordUsage(team, user, cost) ==
  /\ Len(usage) < MaxRows
  /\ usage' = Append(usage, [day |-> day, team |-> team, user |-> user, cost |-> cost])
  /\ UNCHANGED <<tenantVars, orgVars, projectVars, day>>

NextDay ==
  /\ day < MaxDay /\ day' = day + 1
  /\ UNCHANGED <<tenantVars, orgVars, projectVars, usage>>

\* A project is created, renamed or deleted, as in Projects.
ProjectsChange ==
  /\ begun < MaxCalls /\ begun' = begun + 1
  /\ \/ \E n \in Name :
          /\ Unused(n, begun') /\ teams' = teams \cup {[id |-> begun', name |-> n]}
          /\ log' = log \cup {[op |-> "create_team", call |-> begun', of |-> begun']}
     \/ \E t \in teams, n \in Name :
          Unused(n, t.id) /\ teams' = (teams \ {t}) \cup {[t EXCEPT !.name = n]} /\ UNCHANGED log
     \/ \E t \in teams : teams' = teams \ {t} /\ UNCHANGED log
  /\ UNCHANGED <<tenantVars, members, keys, scim, ask, seen, left, roster, credentials, policies,
                 budgets, versions, lost, cleared, reportVars>>

ReportsNext ==
  \/ \E team \in {t.id : t \in teams} \cup {None}, user \in Person \cup {None}, cost \in Cost :
       RecordUsage(team, user, cost)
  \/ NextDay
  \/ ProjectsChange

-----------------------------------------------------------------------------
(* What is read                                                            *)

CostOf(rows) == Total([i \in DOMAIN usage |-> IF i \in rows THEN usage[i].cost ELSE 0], Len(usage))

Between(from, to) == {i \in DOMAIN usage : usage[i].day >= from /\ usage[i].day < to}

\* usage_summary and its narrower forms.
Summary(rows) ==
  [requests |-> Cardinality(rows), spend |-> CostOf(rows)]

UsageSummary(from, to)              == Summary(Between(from, to))
UsageSummaryForTeam(team, from, to) == Summary({i \in Between(from, to) : usage[i].team = team})
UsageSummaryForUser(user, from, to) == Summary({i \in Between(from, to) : usage[i].user = user})

\* The newest first, and never more than the limit, whatever is asked for.
ListRequests(from, to, limit) ==
  LET rows == Between(from, to)
      most == IF limit < PageLimit THEN limit ELSE PageLimit
  IN {i \in rows : Cardinality({j \in rows : j > i}) < most}

\* savings_report_csv asks for ten thousand.
SavingsReport(from, to) == Summary(ListRequests(from, to, 10000))

NameOf(team) == {t.name : t \in {u \in teams : u.id = team}}

\* Mutant of SpendByCostCenter: an inner join loses what belongs to no project.
SpendJoined(from, to) ==
  [center \in Name |-> Summary({i \in Between(from, to) : NameOf(usage[i].team) = {center}})]

\* spend_by_cost_center: grouped by the projects' names of now; None is what has no project, or
\* one that is gone.
SpendByCostCenter(from, to) ==
  [center \in Name \cup {None} |->
     Summary({i \in Between(from, to) :
                NameOf(usage[i].team) = IF center = None THEN {} ELSE {center}})]

\* ChargebackReport::build
Chargeback(from, to) ==
  LET entries == SpendByCostCenter(from, to)
      Spend(centers) == SumOver([x \in centers |-> entries[x].spend], centers)
  IN [lines |-> [x \in Name |-> entries[x]],
      total |-> Spend(DOMAIN entries),
      unattributed |-> Spend(DOMAIN entries \cap {None})]

-----------------------------------------------------------------------------
(* The anomaly of the day                                                  *)

\* daily_spend_history: the totals of the days that have requests, today's last if it has any.
DailySpendHistory ==
  LET spent == {d \in day - HistoryDays .. day : Between(d, d + 1) # {}} IN
    [n \in 1 .. Cardinality(spent) |->
       CostOf(Between(CHOOSE d \in spent : Cardinality({e \in spent : e <= d}) = n,
                      1 + CHOOSE d \in spent : Cardinality({e \in spent : e <= d}) = n))]

Month(d) == (d - 1) \div MonthLength

\* current_spend: the counter of the month.  Requests under way are not in this model.
CurrentSpend == CostOf({i \in DOMAIN usage : Month(usage[i].day) = Month(day)})

\* Three standard deviations above the mean, both sides squared and multiplied by the number of
\* days; of a history without deviation, more than three times the mean.
DetectSpendAnomaly(observed, history) ==
  LET n     == Len(history)
      sum   == FoldSeq(LAMBDA x, s : x + s, 0, history)
      sq    == FoldSeq(LAMBDA x, s : x * x + s, 0, history)
      above == n * observed - sum
      var   == n * sq - sum * sum
  IN /\ n >= MinHistoryDays
     /\ observed > AnomalyFloor
     /\ IF var = 0 THEN n * observed > 3 * sum ELSE above > 0 /\ above * above > 9 * var

\* spend_anomalies: the last day of the history is taken for today, and left out.
SpendAnomaly ==
  LET history == DailySpendHistory IN
    DetectSpendAnomaly(CurrentSpend, IF history = <<>> THEN <<>> ELSE Front(history))

-----------------------------------------------------------------------------
(* Properties                                                              *)

\* All reports of one period add up to the same spend, whatever has become of the projects since:
\* the chargeback's lines and what it cannot attribute, the projects' own summaries (of the
\* projects there are), the people's, and the savings report while it fits its limit.
ReportsAgree ==
  LET from == day
      to   == MaxDay + 1
      all  == UsageSummary(from, to)
      back == Chargeback(from, to)
  IN /\ back.total = all.spend
     /\ back.unattributed =
          all.spend - SumOver([t \in teams |-> UsageSummaryForTeam(t.id, from, to).spend], teams)
     /\ \A t \in teams : back.lines[t.name] = UsageSummaryForTeam(t.id, from, to)
     /\ all.spend = SumOver([p \in Person \cup {None} |-> UsageSummaryForUser(p, from, to).spend],
                            Person \cup {None})
     /\ IF all.requests <= PageLimit THEN SavingsReport(from, to) = all
        ELSE SavingsReport(from, to).requests = PageLimit

\* What an organisation sets up is enforced as set, told in the log and adds up in the reports.
SetUpSafety == TightestCap /\ AuditTells /\ ReportsAgree

================================================================================
