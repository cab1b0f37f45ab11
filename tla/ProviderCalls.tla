---------------------------- MODULE ProviderCalls ----------------------------
(***************************************************************************)
(* Calling the providers: the fallback chain of a request, with retries    *)
(* (routes/openai_compat.rs execute_with_fallback, call_with_retries,      *)
(* open_stream_with_fallback, stream_chat), against the circuit breakers   *)
(* that all requests of a replica share (engine/fallback.rs).              *)
(*                                                                         *)
(* Each DashMap access is one atomic step, so is each await.  A request    *)
(* slot serves one request after another, each with the same chain.        *)
(***************************************************************************)
EXTENDS Naturals, Sequences, FiniteSets

CONSTANTS
  Provider,
  Request,      \* request slots
  Streaming,    \* the slots that serve streaming requests
  Chain,        \* Chain[r]: the providers of r's attempts, in order
  Threshold,    \* FAILURE_THRESHOLD
  MaxRetries,   \* MAX_RETRIES
  MaxOutages,   \* bound: times a provider goes down
  MaxFaults,    \* bound: requests a provider rejects, credentials that do not resolve
  MaxCancels    \* bound: clients that hang up

ASSUME ProviderAssumption ==
  /\ Streaming \subseteq Request
  /\ Chain \in [Request -> Seq(Provider) \ {<<>>}]
  /\ Threshold \in Nat \ {0}
  /\ MaxRetries \in Nat
  /\ MaxOutages \in Nat /\ MaxFaults \in Nat /\ MaxCancels \in Nat

VARIABLES
  failures,  \* consecutive_failures, up to Threshold
  opened,    \* opened_at: unset, or set and OPEN_DURATION not yet / already over
  probing,   \* the probe slot is taken
  up,        \* the providers that answer
  pc,        \* where each request is
  index,     \* its current attempt
  tries,     \* retries spent on it
  prober,    \* the requests that probe their current target: let through by its slot
  overtaken, \* those of them whose slot was freed by another's result, or by a reset
  outages,
  faults,
  cancels

breakers == <<failures, opened, probing>>
probes   == <<prober, overtaken>>
bounds   == <<outages, faults, cancels>>
callVars == <<breakers, up, pc, index, tries, probes, bounds>>

Phase == {"idle", "check", "probe", "claim", "credential", "calling", "gate", "streaming"}

CallsTypeOK ==
  /\ failures \in [Provider -> 0 .. Threshold]
  /\ opened \in [Provider -> {"unset", "waiting", "over"}]
  /\ probing \in [Provider -> BOOLEAN]
  /\ up \in SUBSET Provider
  /\ pc \in [Request -> Phase]
  /\ index \in [Request -> Nat] /\ \A r \in Request : index[r] \in 1 .. Len(Chain[r])
  /\ tries \in [Request -> 0 .. MaxRetries]
  /\ prober \in SUBSET Request /\ overtaken \in SUBSET prober
  /\ outages \in 0 .. MaxOutages
  /\ faults \in 0 .. MaxFaults
  /\ cancels \in 0 .. MaxCancels

CallsInit ==
  /\ failures = [p \in Provider |-> 0]
  /\ opened = [p \in Provider |-> "unset"]
  /\ probing = [p \in Provider |-> FALSE]
  /\ up = Provider
  /\ pc = [r \in Request |-> "idle"]
  /\ index = [r \in Request |-> 1]
  /\ tries = [r \in Request |-> 0]
  /\ prober = {} /\ overtaken = {}
  /\ outages = 0
  /\ faults = 0
  /\ cancels = 0

Target(r) == Chain[r][index[r]]

-----------------------------------------------------------------------------
(* The breaker                                                             *)

State(p) ==
  CASE opened[p] = "unset"   -> "closed"
    [] opened[p] = "over"    -> "half_open"
    [] opened[p] = "waiting" -> "open"

\* Any result frees the slot, whichever call it belongs to: a probe that is still out has
\* lost it.  `done` are the requests whose own attempt this ends.
FreeSlot(p, done) ==
  /\ probing' = [probing EXCEPT ![p] = FALSE]
  /\ prober' = prober \ done
  /\ overtaken' = {r \in prober \ done : r \in overtaken \/ Target(r) = p}

RecordSuccess(p, done) ==
  /\ failures' = [failures EXCEPT ![p] = 0]
  /\ opened' = [opened EXCEPT ![p] = "unset"]
  /\ FreeSlot(p, done)

\* Every failure at or past the threshold restarts the timer.
RecordFailure(p, done) ==
  /\ failures' = [failures EXCEPT ![p] = IF @ < Threshold THEN @ + 1 ELSE @]
  /\ opened' = IF failures[p] + 1 >= Threshold
                 THEN [opened EXCEPT ![p] = "waiting"] ELSE opened
  /\ FreeSlot(p, done)

\* An attempt that tells the breaker nothing leaves the slot as it is.
StopsProbing(r) ==
  /\ prober' = prober \ {r}
  /\ overtaken' = overtaken \ {r}

\* An administrator has the breaker forgotten, whatever calls are under way.
Reset(p) ==
  /\ RecordSuccess(p, {})
  /\ UNCHANGED <<up, pc, index, tries, bounds>>

\* OPEN_DURATION passes.
TimerExpires(p) ==
  /\ opened[p] = "waiting"
  /\ opened' = [opened EXCEPT ![p] = "over"]
  /\ UNCHANGED <<failures, probing, up, pc, index, tries, probes, bounds>>

-----------------------------------------------------------------------------
(* One request                                                             *)

Goes(r, to) == pc' = [pc EXCEPT ![r] = to]

Arrive(r) ==
  /\ pc[r] = "idle"
  /\ Goes(r, "check")
  /\ index' = [index EXCEPT ![r] = 1]
  /\ UNCHANGED <<breakers, up, tries, probes, bounds>>

\* The next attempt of the chain, or the error of a chain that is exhausted.
NextAttempt(r) ==
  /\ IF index[r] < Len(Chain[r])
       THEN Goes(r, "check") /\ index' = [index EXCEPT ![r] = @ + 1]
       ELSE Goes(r, "idle") /\ UNCHANGED index
  /\ tries' = [tries EXCEPT ![r] = 0]

\* Mutant of CheckAvailable: a half-open circuit is skipped as well.
CheckAvailableIfClosed(r) ==
  /\ pc[r] = "check"
  /\ IF State(Target(r)) # "closed"
       THEN NextAttempt(r)
       ELSE Goes(r, "probe") /\ UNCHANGED <<index, tries>>
  /\ UNCHANGED <<breakers, up, probes, bounds>>

\* is_available: an open circuit is skipped.
CheckAvailable(r) ==
  /\ pc[r] = "check"
  /\ IF State(Target(r)) = "open"
       THEN NextAttempt(r)
       ELSE Goes(r, "probe") /\ UNCHANGED <<index, tries>>
  /\ UNCHANGED <<breakers, up, probes, bounds>>

\* try_probe reads the state again, and only a half-open circuit asks for the slot.
ReadProbeState(r) ==
  /\ pc[r] = "probe"
  /\ Goes(r, IF State(Target(r)) = "half_open" THEN "claim" ELSE "credential")
  /\ UNCHANGED <<breakers, up, index, tries, probes, bounds>>

\* Mutant of ClaimProbe: whoever saw the circuit half-open probes.
ClaimProbeUnchecked(r) ==
  /\ pc[r] = "claim"
  /\ probing' = [probing EXCEPT ![Target(r)] = TRUE]
  /\ prober' = prober \cup {r}
  /\ Goes(r, "credential")
  /\ UNCHANGED <<failures, opened, up, index, tries, overtaken, bounds>>

ClaimProbe(r) ==
  /\ pc[r] = "claim"
  /\ IF probing[Target(r)]
       THEN NextAttempt(r) /\ UNCHANGED <<probing, prober>>
       ELSE /\ probing' = [probing EXCEPT ![Target(r)] = TRUE]
            /\ prober' = prober \cup {r}
            /\ Goes(r, "credential")
            /\ UNCHANGED <<index, tries>>
  /\ UNCHANGED <<failures, opened, up, overtaken, bounds>>

Resolve(r) ==
  /\ pc[r] = "credential"
  /\ Goes(r, "calling")
  /\ UNCHANGED <<breakers, up, index, tries, probes, bounds>>

\* No credential: the attempt is passed over, and nothing is said to the breaker.
ResolveFails(r) ==
  /\ pc[r] = "credential"
  /\ faults < MaxFaults
  /\ faults' = faults + 1
  /\ NextAttempt(r)
  /\ StopsProbing(r)
  /\ UNCHANGED <<breakers, up, outages, cancels>>

\* A stream with an attempt left is not committed to before its first chunk has been seen.
Gated(r) == r \in Streaming /\ index[r] < Len(Chain[r])

\* The stream opens, and its first chunk is waited for.
Open(r) ==
  /\ pc[r] = "calling"
  /\ Gated(r)
  /\ Target(r) \in up
  /\ Goes(r, "gate")
  /\ UNCHANGED <<breakers, up, index, tries, probes, bounds>>

\* The provider answers; a stream goes on and is judged again when it ends.
Answer(r) ==
  /\ pc[r] = IF Gated(r) THEN "gate" ELSE "calling"
  /\ Target(r) \in up
  /\ RecordSuccess(Target(r), {r})
  /\ Goes(r, IF r \in Streaming THEN "streaming" ELSE "idle")
  /\ tries' = [tries EXCEPT ![r] = 0]
  /\ UNCHANGED <<up, index, bounds>>

\* The first chunk is a refusal, or the stream ends before it: `continue` opens the same
\* attempt again, as often as that happens, counts no retry and tells the breaker nothing.
Refuse(r) ==
  /\ pc[r] = "gate"
  /\ Goes(r, "calling")
  /\ UNCHANGED <<breakers, up, index, tries, probes, bounds>>

\* A timeout, 408, 429 or 5xx is tried again.
Retry(r) ==
  /\ pc[r] = "calling"
  /\ Target(r) \notin up
  /\ tries[r] < MaxRetries
  /\ tries' = [tries EXCEPT ![r] = @ + 1]
  /\ UNCHANGED <<breakers, up, pc, index, probes, bounds>>

\* The retries are spent, or the error is not retryable, or the first chunk is an error.
GiveUp(r) ==
  /\ pc[r] \in {"calling", "gate"}
  /\ Target(r) \notin up
  /\ RecordFailure(Target(r), {r})
  /\ NextAttempt(r)
  /\ UNCHANGED <<up, bounds>>

\* A healthy provider rejects the request: a 400 ends it, any other status that is not
\* retryable, or an error for a first chunk, moves it on.  All count like a failure.
Reject(r) ==
  /\ pc[r] \in {"calling", "gate"}
  /\ Target(r) \in up
  /\ faults < MaxFaults
  /\ faults' = faults + 1
  /\ RecordFailure(Target(r), {r})
  /\ \/ /\ pc[r] = "calling"
        /\ Goes(r, "idle")
        /\ tries' = [tries EXCEPT ![r] = 0]
        /\ UNCHANGED index
     \/ NextAttempt(r)
  /\ UNCHANGED <<up, outages, cancels>>

StreamEnds(r) ==
  /\ pc[r] = "streaming"
  /\ Goes(r, "idle")
  /\ IF Target(r) \in up THEN RecordSuccess(Target(r), {r}) ELSE RecordFailure(Target(r), {r})
  /\ UNCHANGED <<up, index, tries, bounds>>

\* The client hangs up: the handler, or the generator of the stream, is dropped at the
\* await it is in, and tells the breaker nothing.
Cancel(r) ==
  /\ pc[r] \in {"credential", "calling", "gate", "streaming"}
  /\ cancels < MaxCancels
  /\ cancels' = cancels + 1
  /\ Goes(r, "idle")
  /\ tries' = [tries EXCEPT ![r] = 0]
  /\ StopsProbing(r)
  /\ UNCHANGED <<breakers, up, index, outages, faults>>

-----------------------------------------------------------------------------
(* The providers                                                           *)

GoDown(p) ==
  /\ p \in up
  /\ outages < MaxOutages
  /\ outages' = outages + 1
  /\ up' = up \ {p}
  /\ UNCHANGED <<breakers, pc, index, tries, probes, faults, cancels>>

Recover(p) ==
  /\ p \notin up
  /\ up' = up \cup {p}
  /\ UNCHANGED <<breakers, pc, index, tries, probes, bounds>>

-----------------------------------------------------------------------------

Handle(r) ==
  \/ CheckAvailable(r) \/ ReadProbeState(r) \/ ClaimProbe(r) \/ Resolve(r)
  \/ Open(r) \/ Answer(r) \/ Refuse(r) \/ Retry(r) \/ GiveUp(r) \/ StreamEnds(r)

CallsNext ==
  \/ \E r \in Request : Arrive(r) \/ Handle(r) \/ ResolveFails(r) \/ Reject(r) \/ Cancel(r)
  \/ \E p \in Provider : Reset(p) \/ TimerExpires(p) \/ GoDown(p) \/ Recover(p)

-----------------------------------------------------------------------------
(* Properties                                                              *)

\* The timer and the count agree, whatever order late results arrive in: a circuit is
\* open or half-open exactly while its last Threshold results were failures.
OpenIffFailing == \A p \in Provider : opened[p] # "unset" <=> failures[p] = Threshold

Probers(p) == {r \in prober : Target(r) = p}

\* However many requests find a circuit half-open at once, one of them gets its slot and the
\* others move on (try_probe).  A second joins a probe that is still out only when a result
\* that was not the probe's, or a reset, has freed the slot under it.
OneProbe ==
  \A p \in Provider : \A r, s \in Probers(p) : r = s \/ r \in overtaken \/ s \in overtaken

\* A circuit opens by its provider's results alone, and its slot lets one request find out.
BreakersSafety == OneProbe /\ OpenIffFailing

\* The slot is taken, but the request that took it is gone.
SlotLost(p) == probing[p] /\ Probers(p) \subseteq overtaken

\* The request that holds the slot opens its stream and is refused, over and over.
RefusedForEver(p, r) ==
  /\ <>[](r \in Probers(p) \ overtaken)
  /\ []<>(pc[r] = "gate") /\ []<>(pc[r] = "calling")

\* A provider that is up again gets its traffic back: its circuit is closed again and
\* again, unless the slot of its probe was lost, or is held by a stream that the provider
\* never stops refusing (fallback.rs, the state machine).
TrafficReturns ==
  \A p \in {Chain[r][1] : r \in Request} :
    <>[](p \in up /\ ~SlotLost(p))
      => []<>(opened[p] = "unset") \/ \E r \in Streaming : RefusedForEver(p, r)

===============================================================================
