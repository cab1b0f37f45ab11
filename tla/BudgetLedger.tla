---------------------------- MODULE BudgetLedger ----------------------------
(***************************************************************************)
(* Budget enforcement: "reserve, then true up" (middleware/budget.rs) and  *)
(* the correction metering applies when the bill is known (usage.rs emit). *)
(*                                                                         *)
(* The counters live in the shared store.  Each incr_by is one atomic step *)
(* and requests interleave between any two of them: a reservation is a     *)
(* pass over the request's scopes, a refusal or a failed call a pass that  *)
(* gives them back, a served call a pass that replaces the projection by   *)
(* the bill.  todo[r] is what is left of the current pass.                 *)
(*                                                                         *)
(* One calendar month: the period part of the counter keys is constant.    *)
(***************************************************************************)
EXTENDS Totals, FiniteSets

CONSTANTS
  N,          \* number of requests
  Caller,     \* Caller[r][scope]: the id of r's key, team, user, region, organization
  NoId,       \* the id of a scope that does not apply (a key with no team, ...)
  Projected,  \* Projected[r]: the cost and the tokens estimated before the call
  Bills,      \* the costs and token counts a provider may report
  Streaming,  \* the requests served by stream_chat
  HardCap,    \* the counters with a hard ceiling
  Limit,      \* Limit[c], the ceiling of c \in HardCap
  MaxFaults,  \* bound: store calls that fail
  MaxCrashes  \* bound: handlers that die

Requests == 1 .. N
Unit     == {"money", "tokens"}
Scope    == {"key", "team", "user", "region", "organization"}
Usage    == [Unit -> Nat]

ASSUME BudgetAssumption ==
  /\ N \in Nat
  /\ Projected \in [Requests -> Usage]
  /\ Bills \subseteq Usage
  /\ Limit \in [HardCap -> Nat]
  /\ MaxFaults \in Nat /\ MaxCrashes \in Nat

\* The Redis key of one scope's counter, for the scopes that apply to r.
CounterOf(r, unit, scope) == [unit |-> unit, scope |-> scope, id |-> Caller[r][scope]]

Applies(r, scopes) == {s \in scopes : Caller[r][s] # NoId}

\* The counters `scopes` lists for r: money for every scope that applies, tokens
\* only where a token ceiling is configured.
Reserved(r) ==
  {CounterOf(r, "money", s) : s \in Applies(r, Scope)}
    \cup ({CounterOf(r, "tokens", s) : s \in Applies(r, {"team", "user", "organization"})}
            \cap HardCap)

\* The counters `emit` corrects for r's event.  The event of a stream has no region.
Emitted(r) ==
  {CounterOf(r, "money", s) :
      s \in Applies(r, {"organization", "team", "key"}
                         \cup (IF r \in Streaming THEN {} ELSE {"region"}))}
    \cup {CounterOf(r, "tokens", s) : s \in Applies(r, {"organization", "team", "user"})}

Counter == UNION {Reserved(r) \cup Emitted(r) : r \in Requests}

Amount(r, c) == Projected[r][c.unit]

\* The orders in which the three passes visit the counters.
ScopeOrder == [key |-> 1, team |-> 2, user |-> 3, region |-> 4, organization |-> 5]
EmitOrder  == [organization |-> 1, team |-> 2, key |-> 3, region |-> 4, user |-> 5]

ReserveRank  == [c \in Counter |-> 2 * ScopeOrder[c.scope] + (IF c.unit = "tokens" THEN 1 ELSE 0)]
GiveBackRank == [c \in Counter |-> ScopeOrder[c.scope] + (IF c.unit = "tokens" THEN 5 ELSE 0)]
EmitRank     == [c \in Counter |-> EmitOrder[c.scope] + (IF c.unit = "tokens" THEN 5 ELSE 0)]

IsNext(c, S, rank) == c \in S /\ \A d \in S : rank[c] <= rank[d]

Phase == {"idle", "reserving", "rolling_back", "refused", "running", "releasing",
          "released", "leaked", "emitting", "done", "unmetered", "dropped"}

VARIABLES
  counter,    \* the spend and token counters in the store
  pc,         \* where each request is
  todo,       \* counters the current pass of a request has yet to visit
  keys,       \* counters the request believes it holds (Reservation.keys, token_keys)
  held,       \* counters that really carry its projection
  breached,   \* counters whose ceiling refused it
  corrected,  \* counters to which emit has applied its correction
  used,       \* the bill of a served request
  served,     \* the requests a provider has answered
  faults,     \* store calls that have failed
  crashes     \* handlers that have died

vars == <<counter, pc, todo, keys, held, breached, corrected, used, served, faults, crashes>>

TypeOK ==
  /\ counter \in [Counter -> Int]
  /\ pc \in [Requests -> Phase]
  /\ todo \in [Requests -> SUBSET Counter]
  /\ keys \in [Requests -> SUBSET Counter]
  /\ held \in [Requests -> SUBSET Counter]
  /\ breached \in [Requests -> SUBSET Counter]
  /\ corrected \in [Requests -> SUBSET Counter]
  /\ used \in [Requests -> Usage]
  /\ served \in SUBSET Requests
  /\ faults \in 0 .. MaxFaults
  /\ crashes \in 0 .. MaxCrashes

Init ==
  /\ counter = [c \in Counter |-> 0]
  /\ pc = [r \in Requests |-> "idle"]
  /\ todo = [r \in Requests |-> {}]
  /\ keys = [r \in Requests |-> {}]
  /\ held = [r \in Requests |-> {}]
  /\ breached = [r \in Requests |-> {}]
  /\ corrected = [r \in Requests |-> {}]
  /\ used = [r \in Requests |-> Projected[r]]
  /\ served = {}
  /\ faults = 0
  /\ crashes = 0

-----------------------------------------------------------------------------
(* check_and_reserve                                                       *)

Arrive(r) ==
  /\ pc[r] = "idle"
  /\ pc' = [pc EXCEPT ![r] = "reserving"]
  /\ todo' = [todo EXCEPT ![r] = Reserved(r)]
  /\ UNCHANGED <<counter, keys, held, breached, corrected, used, served, faults, crashes>>

\* Mutant of OverLimit: compares the total before this request's own increment only.
StaleOverLimit(r, c, total) == c \in HardCap /\ total - Amount(r, c) > Limit[c]

\* The increment is the check: it returns a total that includes this request.
OverLimit(r, c, total) ==
  c \in HardCap /\ (total > Limit[c] \/ total - Amount(r, c) >= Limit[c])

\* A breach does not end the pass: the later scopes are reserved all the same.
ReserveScope(r) ==
  /\ pc[r] = "reserving"
  /\ \E c \in todo[r] :
       /\ IsNext(c, todo[r], ReserveRank)
       /\ counter' = [counter EXCEPT ![c] = @ + Amount(r, c)]
       /\ todo' = [todo EXCEPT ![r] = @ \ {c}]
       /\ keys' = [keys EXCEPT ![r] = @ \cup {c}]
       /\ held' = [held EXCEPT ![r] = @ \cup {c}]
       /\ breached' = IF OverLimit(r, c, counter[c] + Amount(r, c))
                        THEN [breached EXCEPT ![r] = @ \cup {c}] ELSE breached
  /\ UNCHANGED <<pc, corrected, used, served, faults, crashes>>

\* A store error skips the scope, its token counter included, and the request goes
\* on (fail open).  The error may hide an increment the store did apply.
SkipScope(r) ==
  /\ pc[r] = "reserving"
  /\ faults < MaxFaults
  /\ \E c \in todo[r], applied \in BOOLEAN :
       /\ IsNext(c, todo[r], ReserveRank)
       /\ todo' = [todo EXCEPT ![r] = {d \in @ : d.scope # c.scope}]
       /\ counter' = IF applied THEN [counter EXCEPT ![c] = @ + Amount(r, c)] ELSE counter
       /\ held' = IF applied THEN [held EXCEPT ![r] = @ \cup {c}] ELSE held
  /\ faults' = faults + 1
  /\ UNCHANGED <<pc, keys, breached, corrected, used, served, crashes>>

\* Mutant of Admit: the last scope's verdict stands for all of them.
AdmitAnyway(r) ==
  /\ pc[r] = "reserving"
  /\ todo[r] = {}
  /\ \A c \in breached[r] : c.scope # "organization"
  /\ pc' = [pc EXCEPT ![r] = "running"]
  /\ UNCHANGED <<counter, todo, keys, held, breached, corrected, used, served, faults, crashes>>

Admit(r) ==
  /\ pc[r] = "reserving"
  /\ todo[r] = {}
  /\ breached[r] = {}
  /\ pc' = [pc EXCEPT ![r] = "running"]
  /\ UNCHANGED <<counter, todo, keys, held, breached, corrected, used, served, faults, crashes>>

\* Mutant of Refuse: rolls back the scopes that had room and forgets the breached ones.
RefuseKeepingBreached(r) ==
  /\ pc[r] = "reserving"
  /\ todo[r] = {}
  /\ breached[r] # {}
  /\ pc' = [pc EXCEPT ![r] = "rolling_back"]
  /\ todo' = [todo EXCEPT ![r] = keys[r] \ breached[r]]
  /\ UNCHANGED <<counter, keys, held, breached, corrected, used, served, faults, crashes>>

Refuse(r) ==
  /\ pc[r] = "reserving"
  /\ todo[r] = {}
  /\ breached[r] # {}
  /\ pc' = [pc EXCEPT ![r] = "rolling_back"]
  /\ todo' = [todo EXCEPT ![r] = keys[r]]
  /\ UNCHANGED <<counter, keys, held, breached, corrected, used, served, faults, crashes>>

-----------------------------------------------------------------------------
(* The rollback of a refusal and Reservation::release                      *)

\* Mutant of ProviderFails: the error path forgets to release.
ProviderFailsUnreleased(r) ==
  /\ pc[r] = "running"
  /\ pc' = [pc EXCEPT ![r] = "releasing"]
  /\ UNCHANGED <<counter, todo, keys, held, breached, corrected, used, served, faults, crashes>>

\* The call failed before anything billable: the projection is given back.
ProviderFails(r) ==
  /\ pc[r] = "running"
  /\ pc' = [pc EXCEPT ![r] = "releasing"]
  /\ todo' = [todo EXCEPT ![r] = keys[r]]
  /\ UNCHANGED <<counter, keys, held, breached, corrected, used, served, faults, crashes>>

GiveBack(r) ==
  /\ pc[r] \in {"rolling_back", "releasing"}
  /\ \E c \in todo[r] :
       /\ IsNext(c, todo[r], GiveBackRank)
       /\ counter' = [counter EXCEPT ![c] = @ - Amount(r, c)]
       /\ todo' = [todo EXCEPT ![r] = @ \ {c}]
       /\ held' = [held EXCEPT ![r] = @ \ {c}]
  /\ UNCHANGED <<pc, keys, breached, corrected, used, served, faults, crashes>>

\* `let _ = incr_by(..)`: a failed decrement is not retried, applied or not.
GiveBackFails(r) ==
  /\ pc[r] \in {"rolling_back", "releasing"}
  /\ faults < MaxFaults
  /\ \E c \in todo[r], applied \in BOOLEAN :
       /\ IsNext(c, todo[r], GiveBackRank)
       /\ todo' = [todo EXCEPT ![r] = @ \ {c}]
       /\ counter' = IF applied THEN [counter EXCEPT ![c] = @ - Amount(r, c)] ELSE counter
       /\ held' = IF applied THEN [held EXCEPT ![r] = @ \ {c}] ELSE held
  /\ faults' = faults + 1
  /\ UNCHANGED <<pc, keys, breached, corrected, used, served, crashes>>

GivenBack(r) ==
  /\ pc[r] \in {"rolling_back", "releasing"}
  /\ todo[r] = {}
  /\ pc' = [pc EXCEPT ![r] = IF @ = "rolling_back" THEN "refused" ELSE "released"]
  /\ UNCHANGED <<counter, todo, keys, held, breached, corrected, used, served, faults, crashes>>

-----------------------------------------------------------------------------
(* commit and emit                                                         *)

\* The event's reserved_mc and reserved_tokens: the projection `commit` hands over.
\* Tokens count as reserved as soon as one token counter was.
HandedOver(r, unit) ==
  IF unit = "tokens" /\ \A c \in keys[r] : c.unit # "tokens" THEN 0 ELSE Projected[r][unit]

Correction(r, c) == used[r][c.unit] - HandedOver(r, c.unit)

\* The provider answered and the event is on the stream.
Serve(r) ==
  /\ pc[r] = "running"
  /\ pc' = [pc EXCEPT ![r] = "emitting"]
  /\ \E bill \in Bills : used' = [used EXCEPT ![r] = bill]
  /\ served' = served \cup {r}
  /\ todo' = [todo EXCEPT ![r] = Emitted(r)]
  /\ UNCHANGED <<counter, keys, held, breached, corrected, faults, crashes>>

\* stream_append fails: emit returns before touching a counter, and the projection
\* stays held, whether or not the entry was written after all.
AppendFails(r) ==
  /\ pc[r] = "running"
  /\ faults < MaxFaults
  /\ pc' = [pc EXCEPT ![r] = "unmetered"]
  /\ \E bill \in Bills : used' = [used EXCEPT ![r] = bill]
  /\ served' = served \cup {r}
  /\ faults' = faults + 1
  /\ UNCHANGED <<counter, todo, keys, held, breached, corrected, crashes>>

\* Mutant of Correct: adds the whole bill on top of the projection.
CorrectByBill(r) ==
  /\ pc[r] = "emitting"
  /\ \E c \in todo[r] :
       /\ IsNext(c, todo[r], EmitRank)
       /\ counter' = [counter EXCEPT ![c] = @ + used[r][c.unit]]
       /\ todo' = [todo EXCEPT ![r] = @ \ {c}]
       /\ corrected' = [corrected EXCEPT ![r] = @ \cup {c}]
  /\ UNCHANGED <<pc, keys, held, breached, used, served, faults, crashes>>

Correct(r) ==
  /\ pc[r] = "emitting"
  /\ \E c \in todo[r] :
       /\ IsNext(c, todo[r], EmitRank)
       /\ counter' = [counter EXCEPT ![c] = @ + Correction(r, c)]
       /\ todo' = [todo EXCEPT ![r] = @ \ {c}]
       /\ corrected' = [corrected EXCEPT ![r] = @ \cup {c}]
  /\ UNCHANGED <<pc, keys, held, breached, used, served, faults, crashes>>

\* A failed correction is logged and emit goes on, the correction applied or not.
CorrectFails(r) ==
  /\ pc[r] = "emitting"
  /\ faults < MaxFaults
  /\ \E c \in todo[r], applied \in BOOLEAN :
       /\ IsNext(c, todo[r], EmitRank)
       /\ todo' = [todo EXCEPT ![r] = @ \ {c}]
       /\ counter' = IF applied THEN [counter EXCEPT ![c] = @ + Correction(r, c)] ELSE counter
       /\ corrected' = IF applied THEN [corrected EXCEPT ![r] = @ \cup {c}] ELSE corrected
  /\ faults' = faults + 1
  /\ UNCHANGED <<pc, keys, held, breached, used, served, crashes>>

EmitDone(r) ==
  /\ pc[r] = "emitting"
  /\ todo[r] = {}
  /\ pc' = [pc EXCEPT ![r] = "done"]
  /\ UNCHANGED <<counter, todo, keys, held, breached, corrected, used, served, faults, crashes>>

-----------------------------------------------------------------------------
(* The Reservation dropped without settle or release                       *)

Active(r) == pc[r] \in {"reserving", "rolling_back", "running", "releasing", "emitting"}

\* The process dies or the client goes away: the handler's future is dropped at the
\* await it is in.  A reservation it holds is only logged.
Die(r) ==
  /\ Active(r)
  /\ crashes < MaxCrashes
  /\ pc' = [pc EXCEPT ![r] = "dropped"]
  /\ crashes' = crashes + 1
  /\ UNCHANGED <<counter, todo, keys, held, breached, corrected, used, served, faults>>

\* `router.route(..)?` in stream_chat: routing finds no model and the error returns
\* past the reservation.
StreamRouteFails(r) ==
  /\ pc[r] = "running"
  /\ r \in Streaming
  /\ pc' = [pc EXCEPT ![r] = "leaked"]
  /\ UNCHANGED <<counter, todo, keys, held, breached, corrected, used, served, faults, crashes>>

-----------------------------------------------------------------------------

Progress(r) ==
  \/ ReserveScope(r) \/ Admit(r) \/ Refuse(r)
  \/ ProviderFails(r) \/ GiveBack(r) \/ GivenBack(r)
  \/ Serve(r) \/ Correct(r) \/ EmitDone(r)

Failure(r) ==
  \/ SkipScope(r) \/ GiveBackFails(r) \/ AppendFails(r) \/ CorrectFails(r)
  \/ Die(r) \/ StreamRouteFails(r)

Next == \E r \in Requests : Arrive(r) \/ Progress(r) \/ Failure(r)

Spec == Init /\ [][Next]_vars

\* A handler that is not dropped is polled to its end: the runtime schedules every
\* task, and a provider call returns or times out.
FairSpec == Spec /\ \A r \in Requests : WF_vars(Progress(r))

-----------------------------------------------------------------------------
(* Properties                                                              *)

\* What r has really added to counter c so far.
Contribution(r, c) ==
  (IF c \in held[r] THEN Amount(r, c) ELSE 0)
    + (IF c \in corrected[r] THEN Correction(r, c) ELSE 0)

\* The part of a ceiling r occupies: its estimate while it runs, its bill when that
\* is lower.  A bill above the estimate is the overrun no reservation can foresee.
Charge(r, c) ==
  IF c \notin Reserved(r) THEN 0
  ELSE IF r \in served THEN Min2(Amount(r, c), used[r][c.unit])
  ELSE IF pc[r] = "running" THEN Amount(r, c)
  ELSE 0

Contributions(c) == [r \in Requests |-> Contribution(r, c)]
Charges(c)       == [r \in Requests |-> Charge(r, c)]

\* What r has spent on a counter that emit corrects, once emit has returned.
Spent(r, c) ==
  IF pc[r] = "done" /\ c \in Emitted(r) THEN used[r][c.unit] ELSE 0

Spendings(c) == [r \in Requests |-> Spent(r, c)]

\* The counters that emit corrects for exactly the requests that reserve them.
Corrected == {c \in Counter : \A r \in Requests : c \in Reserved(r) <=> c \in Emitted(r)}

\* Each counter is the sum of what the requests added: no interleaving of the passes
\* loses or doubles an increment, whatever store calls failed (budget.rs
\* check_and_reserve, release; usage.rs emit).
CounterIsSum ==
  \A c \in Counter : counter[c] = Total(Contributions(c), N)

\* However many requests race at the same headroom, those admitted to a capped scope
\* never occupy more than its ceiling, as long as the store answers (the overshoot
\* that check_and_reserve was written to close).
AdmittedWithinCap ==
  faults = 0 =>
    \A c \in HardCap : Total(Charges(c), N) <= Limit[c]

\* A counter that emit corrects never shows less than the finished requests spent,
\* dropped handlers included: enforcement errs on the side of refusing (budget.rs,
\* Reservation::commit, "the safe direction").
NeverUnderstated ==
  faults = 0 =>
    \A c \in Corrected : Total(Spendings(c), N) <= counter[c]

\* Every request has ended and its reservation was settled or released.
AllSettled == faults = 0 /\ \A r \in Requests : ~Active(r) /\ pc[r] \notin {"dropped", "leaked"}

\* Then a counter that emit corrects is exactly the bill: refusals and failed calls
\* left nothing behind, and no bill was counted twice.
SettlesToTheBill ==
  AllSettled =>
    \A c \in Corrected : counter[c] = Total(Spendings(c), N)

\* The requests whose traces in the counters are not what they have spent.
Astray == {r \in Requests : \E c \in Corrected : Contribution(r, c) # Spent(r, c)}

\* The store calls that failed, the handlers that died and the reservations that leaked.
Mishaps == faults + crashes + Cardinality({r \in Requests : pc[r] = "leaked"})

\* The largest amount of a unit that is estimated or billed.
Largest(unit) ==
  CHOOSE n \in {Projected[r][unit] : r \in Requests} \cup {bill[unit] : bill \in Bills} :
    /\ \A r \in Requests : Projected[r][unit] <= n
    /\ \A bill \in Bills : bill[unit] <= n

Distance(m, n) == IF m < n THEN n - m ELSE m - n

\* The requests always end, and the counters that emit corrects come to rest at the
\* bill: a failed call, a dropped handler or a leaked reservation leads at most one
\* request astray and moves a counter by no more than one estimate or one bill, and
\* with none of them the counters are exact.
CountersComeToRest ==
  <>[](/\ \A r \in Requests : ~Active(r)
       /\ Cardinality(Astray) <= Mishaps
       /\ \A c \in Corrected :
            Distance(counter[c], Total(Spendings(c), N)) <= Mishaps * Largest(c.unit))

-----------------------------------------------------------------------------
(* Refinement of AtomicBudget                                              *)

PerCounter(r, usage) == [c \in Counter |-> usage[c.unit]]

\* The atomic state of a request: new until its last scope has been reserved.
AtomicState(r) ==
  IF r \in served THEN "billed"
  ELSE CASE pc[r] \in {"idle", "reserving"} -> "new"
         [] pc[r] = "running"               -> "admitted"
         [] OTHER                           -> "closed"

Atomic == INSTANCE AtomicBudget WITH
  Caps     <- HardCap,
  Ceiling  <- Limit,
  Estimate <- [r \in Requests |-> PerCounter(r, Projected[r])],
  Touches  <- [r \in Requests |-> Reserved(r) \cap HardCap],
  Costs    <- [r \in Requests |-> {PerCounter(r, b) : b \in Bills}],
  state    <- [r \in Requests |-> AtomicState(r)],
  bill     <- [r \in Requests |-> PerCounter(r, used[r])]

\* The concurrent reservation implements the atomic one as long as the store answers:
\* the last increment of an admitted request is the point where it is admitted.
AtomicSpec == Atomic!Spec

=============================================================================
