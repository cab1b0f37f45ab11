------------------------------ MODULE MCFrontend ------------------------------
(***************************************************************************)
(* What stands before the providers.  A behaviour follows the windows of   *)
(* keys, those of addresses or the requests that go through the door: they *)
(* share the store's time and its failures, and no key of the store.       *)
(***************************************************************************)
EXTENDS FrontDoor, TLC

VARIABLE task  \* what this behaviour follows

Task == {"keys", "addresses", "door"}

vars == <<now, arrivals, faults, limiterVars, doorVars, task>>

TypeOK ==
  /\ now \in 0 .. MaxTime /\ faults \in 0 .. MaxFaults
  /\ task \in Task
  /\ LimiterTypeOK /\ DoorTypeOK

Init ==
  /\ now = 0 /\ arrivals = 0 /\ faults = 0
  /\ LimiterInit /\ DoorInit
  /\ task \in Task

Tick ==
  /\ now < CASE task = "door" -> MaxDoorTime [] task = "keys" -> MaxKeyTime [] OTHER -> MaxTime
  /\ now' = now + 1
  /\ UNCHANGED <<arrivals, faults, limiterVars, doorVars, task>>

KeyStep ==
  /\ task = "keys"
  /\ \E c \in Caller : Answer(c) \/ \E r \in Replica, k \in Key : Check(c, r, k)
  /\ UNCHANGED <<now, doorVars, task>>

AddressStep ==
  /\ task = "addresses"
  /\ \E c \in Caller : Answer(c) \/ \E r \in Replica : CheckIp(c, r)
  /\ UNCHANGED <<now, doorVars, task>>

DoorStep == task = "door" /\ Door /\ UNCHANGED <<now, limiterVars, task>>

Next == Tick \/ KeyStep \/ AddressStep \/ DoorStep

Spec == Init /\ [][Next]_vars

-----------------------------------------------------------------------------
(***************************************************************************)
(* Two callers, two keys, a replica whose clock is a tick ahead and, for   *)
(* the door, one of another region.                                        *)
(***************************************************************************)

CONSTANTS n1, n2

MCSkew == n1 :> 0 @@ n2 :> 1

MCLimit == [bucket \in Bucket |-> IF bucket = "org" THEN 2 ELSE 1]

MCSymmetry == Permutations(Caller) \cup Permutations(Key)

===============================================================================
