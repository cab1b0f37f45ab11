----------------------------- MODULE BudgetAlerts -----------------------------
(***************************************************************************)
(* Budget alerts (workers/budget_alerts.rs): in each ten-minute window one *)
(* replica claims the sweep, loads the alert rules with their stamps,      *)
(* delivers an alert for every budget past a threshold whose rule carries  *)
(* no stamp of this month, and stamps the rule.                            *)
(*                                                                         *)
(* A sweep takes as long as its deliveries: it may still run when the next *)
(* window, or the next month, begins.                                      *)
(***************************************************************************)
EXTENDS Deployment

CONSTANTS
  Rules,        \* number of alert rules, each of a monthly budget of its own
  MaxOverlaps,  \* bound: sweeps that begin while another is running
  MaxMonths     \* bound: months that begin

Rule == 1 .. Rules

ASSUME AlertsAssumption ==
  /\ Rules \in Nat
  /\ MaxOverlaps \in Nat /\ MaxMonths \in Nat

VARIABLES
  crossed,   \* the rules whose budget has crossed a threshold this month
  stamped,   \* the rules with last_triggered_at in this month
  alerts,    \* alerts delivered for each rule this month
  silenced,  \* history: the rules stamped this month for an alert of the last one
  taken,     \* the claim key of this window is there
  sweep,     \* what each replica's sweep is doing
  pending,   \* the rules it loaded and has yet to finish
  loaded,    \* those it loaded with a stamp of this month
  stale,     \* the replicas about to stamp an alert of an earlier month
  overlaps,
  months

alertVars ==
  <<crossed, stamped, alerts, silenced, taken, sweep, pending, loaded, stale,
    overlaps, months>>

AlertsTypeOK ==
  /\ crossed \in SUBSET Rule
  /\ stamped \in SUBSET Rule
  /\ alerts \in [Rule -> Nat]
  /\ silenced \in SUBSET stamped
  /\ taken \in BOOLEAN
  /\ sweep \in [Replica -> {"asleep", "loading", "sweeping", "stamping"}]
  /\ pending \in [Replica -> SUBSET Rule]
  /\ loaded \in [Replica -> SUBSET Rule]
  /\ stale \in SUBSET {n \in Replica : sweep[n] = "stamping"}
  /\ overlaps \in 0 .. MaxOverlaps
  /\ months \in 0 .. MaxMonths

AlertsInit ==
  /\ crossed = {}
  /\ stamped = {}
  /\ alerts = [a \in Rule |-> 0]
  /\ silenced = {}
  /\ taken = FALSE
  /\ sweep = [n \in Replica |-> "asleep"]
  /\ pending = [n \in Replica |-> {}]
  /\ loaded = [n \in Replica |-> {}]
  /\ stale = {}
  /\ overlaps = 0
  /\ months = 0

Becomes(n, from, to) == sweep[n] = from /\ sweep' = [sweep EXCEPT ![n] = to]

\* The rule n is at: rules are taken in the order they were loaded.
At(n, a) == a \in pending[n] /\ \A b \in pending[n] : a <= b

Finishes(n, a) == pending' = [pending EXCEPT ![n] = @ \ {a}]

-----------------------------------------------------------------------------
(* The claim of the window: scheduler.rs claim                             *)

\* INCRBY and PEXPIRE: nobody asks for the key of a window after its end, so when it expires
\* does not matter here.
ClaimWindow(n) ==
  /\ Becomes(n, "asleep", "loading")
  /\ ~taken
  /\ taken' = TRUE
  /\ IF \E m \in Replica : sweep[m] # "asleep"
       THEN overlaps < MaxOverlaps /\ overlaps' = overlaps + 1
       ELSE UNCHANGED overlaps
  /\ UNCHANGED <<crossed, stamped, alerts, silenced, pending, loaded, stale, months,
                 failures>>

\* The error of either command: the key may be there, and this replica does not sweep.
ClaimWindowFails(n) ==
  /\ Becomes(n, "asleep", "asleep")
  /\ Fault
  /\ taken' \in {taken, TRUE}
  /\ UNCHANGED <<crossed, stamped, alerts, silenced, pending, loaded, stale, overlaps,
                 months>>

-----------------------------------------------------------------------------
(* sweep                                                                   *)

LoadRules(n) ==
  /\ Becomes(n, "loading", "sweeping")
  /\ pending' = [pending EXCEPT ![n] = Rule]
  /\ loaded' = [loaded EXCEPT ![n] = stamped]
  /\ UNCHANGED <<crossed, stamped, alerts, silenced, taken, stale, overlaps, months,
                 failures>>

\* Over a threshold, whichever, and with no stamp of this month when it was loaded.
Due(n, a) == a \in crossed \ loaded[n]

LoadRulesFails(n) ==
  /\ Becomes(n, "loading", "asleep")
  /\ Fault
  /\ UNCHANGED <<crossed, stamped, alerts, silenced, taken, pending, loaded, stale,
                 overlaps, months>>

PassOver(n) ==
  /\ Becomes(n, "sweeping", "sweeping")
  /\ \E a \in Rule : At(n, a) /\ ~Due(n, a) /\ Finishes(n, a)
  /\ UNCHANGED <<crossed, stamped, alerts, silenced, taken, loaded, stale, overlaps,
                 months, failures>>

Deliver(n) ==
  /\ Becomes(n, "sweeping", "stamping")
  /\ \E a \in Rule : At(n, a) /\ Due(n, a) /\ alerts' = [alerts EXCEPT ![a] = @ + 1]
  /\ UNCHANGED <<crossed, stamped, silenced, taken, pending, loaded, stale, overlaps,
                 months, failures>>

\* Mutant of DeliverFails: a delivery that failed is stamped as one that arrived.
DeliverFailsStamped(n) ==
  /\ Becomes(n, "sweeping", "stamping")
  /\ Fault
  /\ \E a \in Rule : At(n, a) /\ Due(n, a)
  /\ UNCHANGED <<crossed, stamped, alerts, silenced, taken, pending, loaded, stale,
                 overlaps, months>>

\* A delivery that failed, and may have arrived, waits for another sweep.
DeliverFails(n) ==
  /\ Becomes(n, "sweeping", "sweeping")
  /\ Fault
  /\ \E a \in Rule :
       /\ At(n, a) /\ Due(n, a)
       /\ Finishes(n, a)
       /\ alerts' \in {alerts, [alerts EXCEPT ![a] = @ + 1]}
  /\ UNCHANGED <<crossed, stamped, silenced, taken, loaded, stale, overlaps, months>>

\* Mutant of Stamp: the stamp is forgotten.
StampForgotten(n) ==
  /\ Becomes(n, "stamping", "sweeping")
  /\ \E a \in Rule : At(n, a) /\ Finishes(n, a)
  /\ stale' = stale \ {n}
  /\ UNCHANGED <<crossed, stamped, alerts, silenced, taken, loaded, overlaps, months,
                 failures>>

\* mark_alert_triggered writes the time of the write, not of the alert.
Stamp(n) ==
  /\ Becomes(n, "stamping", "sweeping")
  /\ \E a \in Rule :
       /\ At(n, a)
       /\ Finishes(n, a)
       /\ stamped' = stamped \cup {a}
       /\ silenced' = IF n \in stale /\ alerts[a] = 0 THEN silenced \cup {a} ELSE silenced
  /\ stale' = stale \ {n}
  /\ UNCHANGED <<crossed, alerts, taken, loaded, overlaps, months, failures>>

StampFails(n) ==
  /\ Becomes(n, "stamping", "sweeping")
  /\ Fault
  /\ \E a \in Rule : At(n, a) /\ Finishes(n, a)
  /\ stale' = stale \ {n}
  /\ UNCHANGED <<crossed, stamped, alerts, silenced, taken, loaded, overlaps, months>>

SweepDone(n) ==
  /\ Becomes(n, "sweeping", "asleep")
  /\ pending[n] = {}
  /\ loaded' = [loaded EXCEPT ![n] = {}]
  /\ UNCHANGED <<crossed, stamped, alerts, silenced, taken, pending, stale, overlaps,
                 months, failures>>

AlertsRestart(n) ==
  /\ sweep' = [sweep EXCEPT ![n] = "asleep"]
  /\ pending' = [pending EXCEPT ![n] = {}]
  /\ loaded' = [loaded EXCEPT ![n] = {}]
  /\ stale' = stale \ {n}
  /\ UNCHANGED <<crossed, stamped, alerts, silenced, taken, overlaps, months>>

-----------------------------------------------------------------------------
(* Spend and time                                                          *)

Cross(a) ==
  /\ a \notin crossed
  /\ crossed' = crossed \cup {a}
  /\ UNCHANGED <<stamped, alerts, silenced, taken, sweep, pending, loaded, stale,
                 overlaps, months, failures>>

NewWindow ==
  /\ taken
  /\ taken' = FALSE
  /\ UNCHANGED <<crossed, stamped, alerts, silenced, sweep, pending, loaded, stale,
                 overlaps, months, failures>>

\* The counters start again, and the stamps are of an earlier month.
NewMonth ==
  /\ months < MaxMonths
  /\ months' = months + 1
  /\ crossed' = {}
  /\ stamped' = {}
  /\ alerts' = [a \in Rule |-> 0]
  /\ silenced' = {}
  /\ loaded' = [n \in Replica |-> {}]
  /\ stale' = {n \in Replica : sweep[n] = "stamping"}
  /\ UNCHANGED <<taken, sweep, pending, overlaps, failures>>

-----------------------------------------------------------------------------

Sweep(n) ==
  \/ ClaimWindow(n) \/ LoadRules(n) \/ PassOver(n)
  \/ Deliver(n) \/ Stamp(n) \/ SweepDone(n)

SweepTrouble(n) ==
  \/ ClaimWindowFails(n) \/ LoadRulesFails(n)
  \/ DeliverFails(n) \/ StampFails(n)

-----------------------------------------------------------------------------
(* Properties                                                              *)

\* Replicas, windows and months may overlap as they like: a rule alerts once a month, and
\* once more for each failed call, each restart and each sweep that began while another
\* was running (sweep, mark_alert_triggered).
AlertsBounded == \A a \in Rule : alerts[a] <= 1 + faults + crashes + overlaps

\* A budget that crosses a threshold does not stay unreported, whatever calls failed before:
\* unless the stamp of the last month's alert was written after the month had begun.
OverspendReported ==
  \A a \in Rule : []<>(a \in crossed => alerts[a] > 0 \/ a \in silenced)

===============================================================================
