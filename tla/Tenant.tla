-------------------------------- MODULE Tenant --------------------------------
(***************************************************************************)
(* What the management API's handlers share: the calls in progress, the    *)
(* plan of the one organisation they act for, and the failures that stop   *)
(* a handler between two of its statements.                                *)
(***************************************************************************)
EXTENDS Naturals, FiniteSets

CONSTANTS
  Call,       \* call slots
  None,
  Plan,       \* the plans the organisation may be on
  MaxFaults   \* bound: statements that fail, handlers dropped with their connection

ASSUME TenantAssumption == IsFiniteSet(Call) /\ None \notin Plan /\ MaxFaults \in Nat

VARIABLES
  pc,      \* the statement each call makes next
  plan,    \* organizations.plan
  faults

tenantVars == <<pc, plan, faults>>

\* Every other name, "api" among them, is read as free.
Tier(p) ==
  IF p \in {"pro", "team", "enterprise"}
    THEN [pro |-> 1, team |-> 2, enterprise |-> 3][p] ELSE 0

MinPlan ==
  [byok |-> "pro", savings |-> "pro", budgets |-> "team", policies |-> "team",
   team_management |-> "team", enterprise |-> "enterprise"]

PlanIncludes(p, feature) == Tier(p) >= Tier(MinPlan[feature])

TenantTypeOK == plan \in Plan /\ faults \in 0 .. MaxFaults

TenantInit ==
  /\ pc = [c \in Call |-> "idle"]
  /\ plan \in Plan
  /\ faults = 0

Goes(c, from, to) == pc[c] = from /\ pc' = [pc EXCEPT ![c] = to]

Fault == faults < MaxFaults /\ faults' = faults + 1

===============================================================================
