---------------------------- MODULE AtomicBudget ----------------------------
(***************************************************************************)
(* What budget enforcement promises: a request is admitted in one step,    *)
(* and only while every ceiling it falls under has room for its estimate   *)
(* next to everything admitted so far.  BudgetLedger gets there with one   *)
(* increment per counter, interleaved with other requests, and no lock.    *)
(***************************************************************************)
EXTENDS Totals

CONSTANTS
  N,         \* number of requests
  Caps,      \* the capped counters
  Ceiling,   \* Ceiling[c] for c \in Caps
  Estimate,  \* Estimate[r][c]: what r may cost on c before the call
  Touches,   \* Touches[r]: the capped counters r falls under
  Costs      \* Costs[r]: the bills r may turn out to have, per counter

Requests == 1 .. N

VARIABLES
  state,     \* where each request is
  bill       \* bill[r][c], meaningful once state[r] = "billed"

vars == <<state, bill>>

Charge(r, c) ==
  IF c \notin Touches[r] THEN 0
  ELSE CASE state[r] = "admitted" -> Estimate[r][c]
         [] state[r] = "billed"   -> Min2(Estimate[r][c], bill[r][c])
         [] OTHER                 -> 0

Charged(c) == Total([r \in Requests |-> Charge(r, c)], N)

Init ==
  /\ state = [r \in Requests |-> "new"]
  /\ bill = Estimate

Admit(r) ==
  /\ state[r] = "new"
  /\ \A c \in Touches[r] : Charged(c) + Estimate[r][c] <= Ceiling[c]
  /\ state' = [state EXCEPT ![r] = "admitted"]
  /\ UNCHANGED bill

\* The call is billed, whether or not its handler lives to correct the counters.
Bill(r) ==
  /\ state[r] = "admitted"
  /\ state' = [state EXCEPT ![r] = "billed"]
  /\ \E cost \in Costs[r] : bill' = [bill EXCEPT ![r] = cost]

\* A refusal, a call that failed, a handler that died: nothing is charged.
Close(r) ==
  /\ state[r] \in {"new", "admitted"}
  /\ state' = [state EXCEPT ![r] = "closed"]
  /\ UNCHANGED bill

Next == \E r \in Requests : Admit(r) \/ Bill(r) \/ Close(r)

Spec == Init /\ [][Next]_vars

=============================================================================
