------------------------------ MODULE Deployment ------------------------------
(***************************************************************************)
(* What the workers of a deployment share: the replicas they run on, and   *)
(* the failures that may hit any of them.                                  *)
(***************************************************************************)
EXTENDS Naturals, FiniteSets

CONSTANTS
  Replica,
  MaxFaults,  \* bound: store, database, mail and webhook calls that fail
  MaxCrashes  \* bound: replicas that restart

ASSUME DeploymentAssumption ==
  /\ IsFiniteSet(Replica) /\ Replica # {}
  /\ MaxFaults \in Nat /\ MaxCrashes \in Nat

VARIABLES
  faults,
  crashes

failures == <<faults, crashes>>

FailuresTypeOK == faults \in 0 .. MaxFaults /\ crashes \in 0 .. MaxCrashes

Fault == faults < MaxFaults /\ faults' = faults + 1 /\ UNCHANGED crashes

Crash == crashes < MaxCrashes /\ crashes' = crashes + 1 /\ UNCHANGED faults

===============================================================================
