------------------------------ MODULE BillingLog ------------------------------
(***************************************************************************)
(* What metering promises: every emitted event is persisted at most once   *)
(* and folded into the daily rollup at most once, after it was persisted.  *)
(***************************************************************************)
EXTENDS Naturals

CONSTANTS
  E,          \* number of usage events
  Malformed   \* events that cannot be decoded

Events == 1 .. E

VARIABLES
  emitted,    \* events 1 .. emitted have been emitted
  persisted,  \* the events with a usage record
  rollup      \* how often each event has been folded into the rollup

Init ==
  /\ emitted = 0
  /\ persisted = {}
  /\ rollup = [e \in Events |-> 0]

Emit ==
  /\ emitted < E
  /\ emitted' = emitted + 1
  /\ UNCHANGED <<persisted, rollup>>

Persist(e) ==
  /\ e \in (1 .. emitted) \ (persisted \cup Malformed)
  /\ persisted' = persisted \cup {e}
  /\ UNCHANGED <<emitted, rollup>>

Fold(e) ==
  /\ e \in persisted
  /\ rollup[e] = 0
  /\ rollup' = [rollup EXCEPT ![e] = 1]
  /\ UNCHANGED <<emitted, persisted>>

Next == Emit \/ \E e \in Events : Persist(e) \/ Fold(e)

Spec == Init /\ [][Next]_<<emitted, persisted, rollup>>

===============================================================================
