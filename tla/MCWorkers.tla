------------------------------ MODULE MCWorkers ------------------------------
(***************************************************************************)
(* The workers with effects of their own: mail, alerts and repairs.  They  *)
(* run as separate tasks of every replica and none reads what another      *)
(* writes, so a behaviour follows one of them.                             *)
(***************************************************************************)
EXTENDS Scheduler, BudgetAlerts, Reconciliation, TLC

VARIABLE task  \* the worker this behaviour follows

vars == <<schedulerVars, alertVars, reconcileVars, failures, task>>

TypeOK ==
  /\ FailuresTypeOK
  /\ SchedulerTypeOK
  /\ AlertsTypeOK
  /\ ReconcileTypeOK
  /\ task \in {"scheduler", "budget_alerts", "reconciliation"}

Init ==
  /\ faults = 0 /\ crashes = 0
  /\ SchedulerInit /\ AlertsInit /\ ReconcileInit
  /\ task \in {"scheduler", "budget_alerts", "reconciliation"}

OfScheduler(A) ==
  task = "scheduler" /\ A /\ UNCHANGED <<alertVars, reconcileVars, task>>
OfAlerts(A) ==
  task = "budget_alerts" /\ A /\ UNCHANGED <<schedulerVars, reconcileVars, task>>
OfReconciliation(A) ==
  task = "reconciliation" /\ A /\ UNCHANGED <<schedulerVars, alertVars, crashes, task>>

SchedulerNext ==
  \/ Tick
  \/ \E n \in Replica : Digest(n) \/ DigestTrouble(n) \/ (Crash /\ SchedulerRestarts(n))

AlertsNext ==
  \/ NewWindow \/ NewMonth
  \/ \E a \in Rule : Cross(a)
  \/ \E n \in Replica : Sweep(n) \/ SweepTrouble(n) \/ (Crash /\ AlertsRestart(n))

Next ==
  OfScheduler(SchedulerNext) \/ OfAlerts(AlertsNext) \/ OfReconciliation(ReconcileNext)

Spec == Init /\ [][Next]_vars

\* Time passes, windows follow each other, and every call returns; handlers end, the usage
\* writer drains the stream, and the reconcilers tick daily.
FairSpec ==
  /\ Spec
  /\ WF_vars(\/ OfScheduler(Tick)
             \/ OfAlerts(NewWindow)
             \/ \E r \in Requests :
                  OfReconciliation(Release(r) \/ Emit(r) \/ Correct(r) \/ Persist(r)))
  /\ \A n \in Replica :
        WF_vars(OfScheduler(Digest(n)) \/ OfAlerts(Sweep(n)) \/ OfReconciliation(Pass(n)))

-----------------------------------------------------------------------------
(* Properties                                                              *)

\* What a restart or a failed call keeps a replica from sending under its claim, another sends
\* under a claim of its own, provided the key expires while the window is open (claim,
\* send_weekly_digests).
SchedulerSends == <>[](task # "scheduler" \/ DigestsOut)

-----------------------------------------------------------------------------
(***************************************************************************)
(* Workers on two replicas; the reconcilers see two requests of different  *)
(* size, one estimated above and one below its bill.                       *)
(***************************************************************************)

MCProjected == <<3, 2>>
MCActual    == <<2, 3>>

===============================================================================
