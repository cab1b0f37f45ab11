---------------------------- MODULE Reconciliation ----------------------------
(***************************************************************************)
(* workers/reconciliation.rs: the daily comparison of an organisation's    *)
(* spend counter with its usage records, and the repair of a counter that  *)
(* is ahead of them.                                                       *)
(*                                                                         *)
(* Requests move the counter (reserve, release, correct) and the records   *)
(* (the usage writer) between any two awaits of a pass, and the reconciler *)
(* of every replica shares one observation key.  BudgetLedger and          *)
(* UsagePipeline model the two sides in full; here a request is the        *)
(* sequence of its effects on them.  One calendar month.                   *)
(***************************************************************************)
EXTENDS Totals, FiniteSets, Deployment

CONSTANTS
  N,           \* number of requests
  Projected,   \* Projected[r], what r reserves
  Actual,      \* Actual[r], what r is billed
  None,        \* no observation stored
  Threshold,   \* DRIFT_THRESHOLD
  MaxDeaths    \* bound: requests whose handler dies

Requests == 1 .. N

\* Every replica has a reconciliation worker.
Reconciler == Replica

ASSUME ReconciliationAssumption ==
  /\ N \in Nat
  /\ Projected \in [Requests -> Nat]
  /\ Actual \in [Requests -> Nat]
  /\ Threshold \in Nat
  /\ MaxDeaths \in Nat
  /\ None \notin Int

VARIABLES
  counter,      \* the organisation's spend counter of the month
  request,      \* how far each request has come
  recorded,     \* the requests with a row in usage_records
  observation,  \* last_observation_key
  pc,           \* where each reconciler's pass is
  counted,      \* the counter as the pass read it
  drift,        \* the drift the pass computed
  inFlight,     \* the requests in flight since before the reconciler's last pass began
  deaths

reconcileVars ==
  <<counter, request, recorded, observation, pc, counted, drift, inFlight, deaths>>

State == {"new", "held", "released", "orphaned", "emitted", "cut", "settled"}
Place == {"asleep", "counted", "significant", "remember", "repair", "clear"}

ReconcileTypeOK ==
  /\ counter \in Int
  /\ request \in [Requests -> State]
  /\ recorded \in SUBSET Requests
  /\ observation \in Nat \cup {None}
  /\ pc \in [Reconciler -> Place]
  /\ counted \in [Reconciler -> Int]
  /\ drift \in [Reconciler -> Nat]
  /\ inFlight \in [Reconciler -> SUBSET Requests]
  /\ deaths \in 0 .. MaxDeaths

ReconcileInit ==
  /\ counter = 0
  /\ request = [r \in Requests |-> "new"]
  /\ recorded = {}
  /\ observation = None
  /\ pc = [w \in Reconciler |-> "asleep"]
  /\ counted = [w \in Reconciler |-> 0]
  /\ drift = [w \in Reconciler |-> 0]
  /\ inFlight = [w \in Reconciler |-> {}]
  /\ deaths = 0

RecordedSpend == Total([r \in Requests |-> IF r \in recorded THEN Actual[r] ELSE 0], N)

-----------------------------------------------------------------------------
(* The requests                                                            *)

Advances(r, from, to) == request[r] = from /\ request' = [request EXCEPT ![r] = to]

\* r is no longer in flight.
Ends(r) == inFlight' = [w \in Reconciler |-> inFlight[w] \ {r}]

Reserve(r) ==
  /\ Advances(r, "new", "held")
  /\ counter' = counter + Projected[r]
  /\ UNCHANGED <<recorded, observation, pc, counted, drift, inFlight, faults, deaths>>

Release(r) ==
  /\ Advances(r, "held", "released")
  /\ counter' = counter - Projected[r]
  /\ Ends(r)
  /\ UNCHANGED <<recorded, observation, pc, counted, drift, faults, deaths>>

\* The event is on the stream before the counters are corrected.
Emit(r) ==
  /\ Advances(r, "held", "emitted")
  /\ UNCHANGED <<counter, recorded, observation, pc, counted, drift, inFlight, faults, deaths>>

Correct(r) ==
  /\ Advances(r, "emitted", "settled")
  /\ counter' = counter + Actual[r] - Projected[r]
  /\ Ends(r)
  /\ UNCHANGED <<recorded, observation, pc, counted, drift, faults, deaths>>

\* The handler dies between reserving and emitting, or between emitting and correcting.
Die(r) ==
  /\ deaths < MaxDeaths
  /\ deaths' = deaths + 1
  /\ Advances(r, "held", "orphaned") \/ Advances(r, "emitted", "cut")
  /\ Ends(r)
  /\ UNCHANGED <<counter, recorded, observation, pc, counted, drift, faults>>

\* The usage writer persists the event.
Persist(r) ==
  /\ request[r] \in {"emitted", "cut", "settled"}
  /\ r \notin recorded
  /\ recorded' = recorded \cup {r}
  /\ UNCHANGED <<counter, request, observation, pc, counted, drift, inFlight, faults, deaths>>

-----------------------------------------------------------------------------
(* One pass: reconcile_org, then repair_if_confirmed                       *)

Goes(w, from, to) == pc[w] = from /\ pc' = [pc EXCEPT ![w] = to]

\* Passes of one replica are a day apart and a handler's calls time out in minutes: no
\* request is in flight at the start of two of them.
Begin(w) ==
  LET now == {r \in Requests : request[r] \in {"held", "emitted"}}
  IN  /\ Goes(w, "asleep", "counted")
      /\ inFlight[w] \cap now = {}
      /\ inFlight' = [inFlight EXCEPT ![w] = now]

ReadCounter(w) ==
  /\ Begin(w)
  /\ counted' = [counted EXCEPT ![w] = counter]
  /\ UNCHANGED <<counter, request, recorded, observation, drift, faults, deaths>>

\* An unreadable counter counts as zero.
ReadCounterFails(w) ==
  /\ Begin(w)
  /\ Fault
  /\ counted' = [counted EXCEPT ![w] = 0]
  /\ UNCHANGED <<counter, request, recorded, observation, drift, deaths>>

\* A significant drift is considered for repair only when the counter is ahead; an
\* insignificant one clears the observation.
Verdict(d) ==
  IF d > Threshold THEN "significant" ELSE IF -d > Threshold THEN "asleep" ELSE "clear"

ReadRecords(w) ==
  LET d == counted[w] - RecordedSpend
  IN  /\ Goes(w, "counted", Verdict(d))
      /\ drift' = [drift EXCEPT ![w] = IF Verdict(d) = "significant" THEN d ELSE 0]
      /\ counted' = [counted EXCEPT ![w] = 0]
      /\ UNCHANGED <<counter, request, recorded, observation, inFlight, faults, deaths>>

\* The database query fails: the organisation is skipped until the next pass.
ReadRecordsFails(w) ==
  /\ Goes(w, "counted", "asleep")
  /\ Fault
  /\ counted' = [counted EXCEPT ![w] = 0]
  /\ UNCHANGED <<counter, request, recorded, observation, drift, inFlight, deaths>>

\* Mutant of Confirmed: the drift must have shrunk since the last pass.
ConfirmedByShrinking(d) == observation # None /\ d < observation

Confirmed(d) == observation # None /\ d <= observation

\* A first sighting and a drift that grew are remembered; any other is repaired.
Compare(w) ==
  /\ Goes(w, "significant", IF Confirmed(drift[w]) THEN "repair" ELSE "remember")
  /\ UNCHANGED <<counter, request, recorded, observation, counted, drift, inFlight, faults, deaths>>

\* An observation that cannot be read is none.
CompareFails(w) ==
  /\ Goes(w, "significant", "remember")
  /\ Fault
  /\ UNCHANGED <<counter, request, recorded, observation, counted, drift, inFlight, deaths>>

Remember(w) ==
  /\ Goes(w, "remember", "asleep")
  /\ observation' = drift[w]
  /\ drift' = [drift EXCEPT ![w] = 0]
  /\ UNCHANGED <<counter, request, recorded, counted, inFlight, faults, deaths>>

RememberFails(w) ==
  /\ Goes(w, "remember", "asleep")
  /\ Fault
  /\ drift' = [drift EXCEPT ![w] = 0]
  /\ UNCHANGED <<counter, request, recorded, observation, counted, inFlight, deaths>>

\* Mutant of Repair: the decrement is tried again although it succeeded.
RepairAgain(w) ==
  /\ Goes(w, "repair", "repair")
  /\ counter' = counter - drift[w]
  /\ UNCHANGED <<request, recorded, observation, counted, drift, inFlight, faults, deaths>>

\* The drift that was read, not the drift there is now, is taken off the counter.
Repair(w) ==
  /\ Goes(w, "repair", "clear")
  /\ counter' = counter - drift[w]
  /\ drift' = [drift EXCEPT ![w] = 0]
  /\ UNCHANGED <<request, recorded, observation, counted, inFlight, faults, deaths>>

\* A failed repair waits for the next pass and keeps the observation.  The error may hide a
\* decrement the store did apply.
RepairFails(w) ==
  /\ Goes(w, "repair", "asleep")
  /\ Fault
  /\ counter' \in {counter, counter - drift[w]}
  /\ drift' = [drift EXCEPT ![w] = 0]
  /\ UNCHANGED <<request, recorded, observation, counted, inFlight, deaths>>

Clear(w) ==
  /\ Goes(w, "clear", "asleep")
  /\ observation' = None
  /\ UNCHANGED <<counter, request, recorded, counted, drift, inFlight, faults, deaths>>

ClearFails(w) ==
  /\ Goes(w, "clear", "asleep")
  /\ Fault
  /\ UNCHANGED <<counter, request, recorded, observation, counted, drift, inFlight, deaths>>

-----------------------------------------------------------------------------

Handle(r) == Reserve(r) \/ Release(r) \/ Emit(r) \/ Correct(r) \/ Die(r)

Pass(w) ==
  \/ ReadCounter(w) \/ ReadRecords(w) \/ Compare(w) \/ Remember(w) \/ Repair(w) \/ Clear(w)

Trouble(w) ==
  \/ ReadCounterFails(w) \/ ReadRecordsFails(w) \/ CompareFails(w) \/ RememberFails(w)
  \/ RepairFails(w) \/ ClearFails(w)

ReconcileNext ==
  \/ \E r \in Requests : Handle(r) \/ Persist(r)
  \/ \E w \in Reconciler : Pass(w) \/ Trouble(w)

-----------------------------------------------------------------------------
(* Properties                                                              *)

\* The most r can ever have put on the counter without a record.
Exposure(r) ==
  IF request[r] = "new" THEN 0
  ELSE IF Projected[r] >= Actual[r] THEN Projected[r] ELSE Actual[r]

\* What repairs forgive is bounded: however passes of different replicas overlap with each
\* other and with traffic, the counter never falls below the records by more than one
\* exposure for every replica that may repair (repair_if_confirmed).
ForgivenessBounded ==
  RecordedSpend - counter <=
    Cardinality(Reconciler) * Total([r \in Requests |-> Exposure(r)], N)

\* A counter left ahead of the records by an orphaned reservation does not over-block for
\* ever: the drift ends at or below the threshold (repair_if_confirmed).
OverblockingEnds == <>[](counter - RecordedSpend <= Threshold)

===============================================================================
